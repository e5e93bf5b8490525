------------------------------ MODULE Wishlist ------------------------------
(***************************************************************************)
(* The wishlist of one user.  Requests that carry a still valid access     *)
(* token create the row on demand and add or remove items, each in one     *)
(* transaction with a call to the product service in the middle; the       *)
(* consumer of user.deleted deletes the row.  An access token is checked   *)
(* by its signature only, so a request may be served after the account is  *)
(* gone.                                                                   *)
(***************************************************************************)
EXTENDS Naturals, FiniteSets

CONSTANTS
  Requests,   \* requests of the user, each made at most once
  Products,
  MaxFaults   \* bound: crashes, failed handlers, repeated messages

VARIABLES
  row,      \* the committed wishlists row: 0, or the number of its insertion
  last,     \* insertions so far
  items,    \* products of its wishlist_items
  req,      \* [op, step, item, seen]: seen is the row the request works on
  user,     \* "active" or "deleted"
  event,    \* user.deleted on its way through this consumer
  claim,    \* its key in Redis
  cleaned,  \* history: the consumer has deleted the row once
  why,      \* history: what may leave a wishlist behind
  faults

vars == <<row, last, items, req, user, event, claim, cleaned, why, faults>>

MaxRows == Cardinality(Requests)
Ops == {"get", "add", "remove"}

TypeOK ==
  /\ row \in 0..MaxRows /\ last \in 0..MaxRows
  /\ items \subseteq Products /\ (row = 0 => items = {})
  /\ req \in [Requests -> [op : Ops, step : {"new", "ready", "end"}, item : Products, seen : 0..MaxRows]]
  /\ user \in {"active", "deleted"}
  /\ event \in {"none", "queued", "claimed", "cleaned", "done", "dead"}
  /\ claim \in {"none", "processing", "processed"}
  /\ cleaned \in BOOLEAN
  /\ why \subseteq {"recreated", "crashed", "dead"}
  /\ faults \in 0..MaxFaults

Init ==
  /\ row = 0 /\ last = 0 /\ items = {}
  /\ req \in [Requests -> [op : Ops, step : {"new"}, item : Products, seen : {0}]]
  /\ user = "active"
  /\ event = "none" /\ claim = "none" /\ cleaned = FALSE /\ why = {}
  /\ faults = 0

Fault == faults < MaxFaults /\ faults' = faults + 1
End(q) == req' = [req EXCEPT ![q].step = "end"]

-----------------------------------------------------------------------------
(* Requests.                                                                *)

\* _get_or_create_wishlist_model reads the row; seen = 0 stands for a row the
\* transaction has inserted itself.  A removal only reads.
ReadRow(q) ==
  /\ req[q].step = "new"
  /\ IF req[q].op = "remove" /\ row = 0
     THEN End(q)
     ELSE req' = [req EXCEPT ![q].step = "ready", ![q].seen = row]
  /\ UNCHANGED <<row, last, items, user, event, claim, cleaned, why, faults>>

\* The product is unknown or the product service is down, or a constraint of
\* the database refuses the transaction: rollback.
Refused(q) ==
  /\ req[q].step = "ready"
  /\ End(q)
  /\ UNCHANGED <<row, last, items, user, event, claim, cleaned, why, faults>>

\* The row is inserted; user_id is unique, so the other of two loses.
CreateRow(q) ==
  /\ req[q].step = "ready" /\ req[q].seen = 0 /\ row = 0
  /\ row' = last + 1 /\ last' = last + 1
  /\ items' = IF req[q].op = "add" THEN {req[q].item} ELSE {}
  /\ why' = IF cleaned THEN why \cup {"recreated"} ELSE why
  /\ End(q)
  /\ UNCHANGED <<user, event, claim, cleaned, faults>>

\* add_item: the foreign key holds only while that very row exists.
AddItem(q) ==
  /\ req[q].step = "ready" /\ req[q].op = "add"
  /\ req[q].seen = row /\ row # 0
  /\ items' = items \cup {req[q].item}
  /\ End(q)
  /\ UNCHANGED <<row, last, user, event, claim, cleaned, why, faults>>

RemoveItem(q) ==
  /\ req[q].step = "ready" /\ req[q].op = "remove"
  /\ req[q].seen = row /\ row # 0
  /\ items' = items \ {req[q].item}
  /\ End(q)
  /\ UNCHANGED <<row, last, user, event, claim, cleaned, why, faults>>

-----------------------------------------------------------------------------
(* The account is deleted; the consumer of user.deleted.                    *)

DeleteUser ==
  /\ user = "active"
  /\ user' = "deleted" /\ event' = "queued"
  /\ UNCHANGED <<row, last, items, req, claim, cleaned, why, faults>>

Claim ==
  /\ event = "queued"
  /\ IF claim = "none"
     THEN claim' = "processing" /\ event' = "claimed"
     ELSE event' = "done" /\ UNCHANGED claim
  /\ UNCHANGED <<row, last, items, req, user, cleaned, why, faults>>

\* Mutant of DeleteWishlist: the foreign key of the items does not cascade.
DeleteWishlistAlone ==
  /\ event = "claimed"
  /\ row' = 0
  /\ event' = "cleaned" /\ cleaned' = TRUE
  /\ UNCHANGED <<last, items, req, user, claim, why, faults>>

\* delete_wishlist_by_user_id, committed; the items cascade.
DeleteWishlist ==
  /\ event = "claimed"
  /\ row' = 0 /\ items' = {}
  /\ event' = "cleaned" /\ cleaned' = TRUE
  /\ UNCHANGED <<last, req, user, claim, why, faults>>

Mark ==
  /\ event = "cleaned"
  /\ claim' = "processed" /\ event' = "done"
  /\ UNCHANGED <<row, last, items, req, user, cleaned, why, faults>>

\* Mutant of HandlerRaises: the except branch keeps the claim.
HandlerRaisesKeepingClaim ==
  /\ event \in {"claimed", "cleaned"}
  /\ Fault
  /\ event' = "queued"
  /\ UNCHANGED <<row, last, items, req, user, claim, cleaned, why>>

\* The claim is released and the message requeued or dead-lettered.
HandlerRaises ==
  /\ event \in {"claimed", "cleaned"}
  /\ Fault
  /\ claim' = "none"
  /\ \/ event' = "queued" /\ UNCHANGED why
     \/ event' = "dead" /\ why' = why \cup {"dead"}
  /\ UNCHANGED <<row, last, items, req, user, cleaned>>

\* The claim stays: the consumer dies, or its except branch cannot reach Redis
\* to release it.  The message returns and finds the claim, or is dead-lettered.
ConsumerCrashes ==
  /\ event \in {"claimed", "cleaned"}
  /\ Fault
  /\ event' \in {"queued", "dead"}
  /\ why' = IF event = "claimed" THEN why \cup {"crashed"} ELSE why
  /\ UNCHANGED <<row, last, items, req, user, claim, cleaned>>

\* The relay publishes the event a second time.
Republished ==
  /\ event = "done"
  /\ Fault
  /\ event' = "queued"
  /\ UNCHANGED <<row, last, items, req, user, claim, cleaned, why>>

-----------------------------------------------------------------------------

Request(q) == ReadRow(q) \/ Refused(q) \/ CreateRow(q) \/ AddItem(q) \/ RemoveItem(q)
Consumer == Claim \/ DeleteWishlist \/ Mark \/ HandlerRaises \/ ConsumerCrashes \/ Republished

Next == (\E q \in Requests : Request(q)) \/ DeleteUser \/ Consumer

Spec == Init /\ [][Next]_vars

-----------------------------------------------------------------------------
(* Properties.                                                              *)

\* Once user.deleted is dealt with, the wishlist and its items are gone,
\* whatever requests were under way; one remains only if the consumer left
\* its claim before it deleted, or a request created it anew afterwards.
WishlistGoneWithUser ==
  event = "done" /\ why = {} => row = 0 /\ items = {}

=============================================================================
