----------------------------- MODULE Inventory -----------------------------
(***************************************************************************)
(* The product service's stock: product and variant rows, the durable      *)
(* reservation ledger, and the outbox answers to the order saga.  A stock  *)
(* row is a product (quantity, in_stock) or a variant (inventory_num,      *)
(* active with a known number).                                            *)
(*                                                                         *)
(* A reservation or release request is handled in one transaction whose    *)
(* UPDATEs test and change a row at once, under row locks: one action      *)
(* each.  The lines of an order are summed per stock row; the ledger rows  *)
(* of an order are written together and always share their status.         *)
(***************************************************************************)
EXTENDS Integers, Sequences, FiniteSets

CONSTANTS
  Orders,
  Stock,       \* product and variant rows
  Products,    \* those of them that are products
  Owner,       \* the product a row belongs to; a product belongs to itself
  Demand,      \* Demand[o][s]: what the order's lines take of a stock row
  MaxStock,    \* bound: quantities an admin or the supplier import writes
  MaxAnswers   \* bound: answers to one order, redeliveries included

ASSUME InventoryAssumption ==
  /\ Products \subseteq Stock
  /\ Owner \in [Stock -> Products]
  /\ Demand \in [Orders -> [Stock -> Nat]]
  /\ \A o \in Orders : \E s \in Products : Demand[o][s] > 0
  /\ MaxStock \in Nat
  /\ MaxAnswers \in Nat

VARIABLES
  quantity,   \* products.quantity, product_variants.inventory_num
  sellable,   \* rows with in_stock set (products), active and counted (variants)
  present,    \* rows that exist
  ledger,     \* status of the order's inventory_reservations rows
  answers,    \* the service's outbox rows for the order, oldest first
  asked,      \* orders whose release was requested
  supply      \* history: free stock last written, plus what was held then

stockVars == <<quantity, sellable, present>>
vars == <<stockVars, ledger, answers, asked, supply>>

Reply == {"inventory.reserve.succeeded", "inventory.reserve.failed"}

TypeOK ==
  /\ quantity \in [Stock -> Nat]
  /\ sellable \subseteq Stock
  /\ present \subseteq Stock
  /\ ledger \in [Orders -> {"none", "reserved", "released"}]
  /\ answers \in [Orders -> Seq(Reply)]
  /\ asked \subseteq Orders
  /\ supply \in [Stock -> Nat]

Init ==
  /\ quantity \in [Stock -> 0..MaxStock]
  /\ sellable \in SUBSET Stock
  /\ present = Stock
  /\ ledger = [o \in Orders |-> "none"]
  /\ answers = [o \in Orders |-> <<>>]
  /\ asked = {}
  /\ supply = quantity

Touched(o) == {s \in Stock : Demand[o][s] > 0}

\* atomic_decrement_quantity and atomic_decrement_inventory all succeed.
Enough(o) ==
  \A s \in Touched(o) :
    s \in present \cap sellable /\ quantity[s] >= Demand[o][s]

Answer(o, reply) ==
  /\ Len(answers[o]) < MaxAnswers
  /\ answers' = [answers EXCEPT ![o] = Append(@, reply)]

-----------------------------------------------------------------------------
(* inventory.reserve.requested, delivered once or again.                    *)

\* Mutant of ReserveFresh: looks only for a live reservation of the order.
ReserveUnlessHeld(o) ==
  /\ ledger[o] # "reserved"
  /\ Enough(o)
  /\ quantity' = [s \in Stock |-> quantity[s] - Demand[o][s]]
  /\ sellable' = sellable \ {s \in Touched(o) \cap Products : quantity[s] = Demand[o][s]}
  /\ ledger' = [ledger EXCEPT ![o] = "reserved"]
  /\ Answer(o, "inventory.reserve.succeeded")
  /\ UNCHANGED <<present, asked, supply>>

ReserveFresh(o) ==
  /\ ledger[o] = "none"
  /\ Enough(o)
  /\ quantity' = [s \in Stock |-> quantity[s] - Demand[o][s]]
  /\ sellable' = sellable \ {s \in Touched(o) \cap Products : quantity[s] = Demand[o][s]}
  /\ ledger' = [ledger EXCEPT ![o] = "reserved"]
  /\ Answer(o, "inventory.reserve.succeeded")
  /\ UNCHANGED <<present, asked, supply>>

\* The savepoint rolls the decrements back; the answer is committed.
ReserveRejected(o) ==
  /\ ledger[o] = "none"
  /\ ~Enough(o)
  /\ Answer(o, "inventory.reserve.failed")
  /\ UNCHANGED <<stockVars, ledger, asked, supply>>

\* Mutant of ReserveAgain: refuses a request it has already served.
RefuseAgain(o) ==
  /\ ledger[o] # "none"
  /\ Answer(o, "inventory.reserve.failed")
  /\ UNCHANGED <<stockVars, ledger, asked, supply>>

ReserveAgain(o) ==
  /\ ledger[o] # "none"
  /\ Answer(o, IF ledger[o] = "reserved"
                 THEN "inventory.reserve.succeeded" ELSE "inventory.reserve.failed")
  /\ UNCHANGED <<stockVars, ledger, asked, supply>>

Reserve(o) == ReserveFresh(o) \/ ReserveRejected(o) \/ ReserveAgain(o)

-----------------------------------------------------------------------------
(* inventory.release.requested, delivered once or again.                    *)

\* The order service asks after it was told of a success, for one order or, when
\* its timeout worker cancels, for several in one transaction.
RequestRelease(batch) ==
  /\ batch # {}
  /\ \A o \in batch :
       /\ o \notin asked
       /\ \E n \in 1..Len(answers[o]) : answers[o][n] = "inventory.reserve.succeeded"
  /\ asked' = asked \cup batch
  /\ UNCHANGED <<stockVars, ledger, answers, supply>>

\* Mutant of Release: does not look at the status of the ledger rows.
ReleaseAgain(o) ==
  /\ o \in asked
  /\ ledger[o] # "none"
  /\ Touched(o) \subseteq present
  /\ quantity' = [s \in Stock |-> quantity[s] + Demand[o][s]]
  /\ sellable' = sellable \cup (Touched(o) \cap Products)
  /\ ledger' = [ledger EXCEPT ![o] = "released"]
  /\ UNCHANGED <<present, answers, asked, supply>>

\* A missing row raises ProductReleaseError and nothing is released.
Release(o) ==
  /\ o \in asked
  /\ ledger[o] = "reserved"
  /\ Touched(o) \subseteq present
  /\ quantity' = [s \in Stock |-> quantity[s] + Demand[o][s]]
  /\ sellable' = sellable \cup (Touched(o) \cap Products)
  /\ ledger' = [ledger EXCEPT ![o] = "released"]
  /\ UNCHANGED <<present, answers, asked, supply>>

-----------------------------------------------------------------------------
(* The catalog.                                                             *)

\* The units of a row that live reservations hold, each under its order.
HeldUnits(s) == UNION {{o} \X (1..Demand[o][s]) : o \in {p \in Orders : ledger[p] = "reserved"}}

HeldOf(s) == Cardinality(HeldUnits(s))

\* update_product and upsert_product_by_pid write absolute numbers, reserved
\* stock or not.
WriteStock(s, n, sell) ==
  /\ s \in present
  /\ quantity' = [quantity EXCEPT ![s] = n]
  /\ sellable' = IF sell THEN sellable \cup {s} ELSE sellable \ {s}
  /\ supply' = [supply EXCEPT ![s] = n + HeldOf(s)]
  /\ UNCHANGED <<present, ledger, answers, asked>>

\* Deletes the variants with it; reservations keep their dangling ids.
DeleteProduct(p) ==
  /\ p \in present
  /\ present' = {s \in present : Owner[s] # p}
  /\ UNCHANGED <<quantity, sellable, ledger, answers, asked, supply>>

-----------------------------------------------------------------------------

Next ==
  \/ \E o \in Orders : Reserve(o) \/ Release(o)
  \/ \E batch \in SUBSET Orders : RequestRelease(batch)
  \/ \E s \in Stock : \E n \in (0..MaxStock) \cup {quantity[s]}, sell \in BOOLEAN :
       WriteStock(s, n, sell)
  \/ \E p \in Products : DeleteProduct(p)

Spec == Init /\ [][Next]_vars

-----------------------------------------------------------------------------
(* Properties.                                                              *)

\* No unit is lost or made up: what is free and what live reservations hold
\* add up to the stock supplied, over every order of reservations, rejections,
\* releases, redeliveries and catalog writes.
StockConserved ==
  \A s \in Stock : quantity[s] + HeldOf(s) = supply[s]

\* While stock is held for an order its latest answer is a success.  The order
\* saga never releases after a failure answer, so a failure must mean that
\* nothing is held.
LatestAnswerIsTrue ==
  \A o \in Orders :
    /\ ledger[o] = "reserved" => answers[o][Len(answers[o])] = "inventory.reserve.succeeded"
    /\ ledger[o] = "none" =>
         \A n \in 1..Len(answers[o]) : answers[o][n] = "inventory.reserve.failed"

\* A released reservation is final: a request redelivered after its release
\* takes no stock, however much there is.
ReleasedIsFinal ==
  [][\A o \in Orders :
       /\ ledger[o] = "released" => ledger'[o] = "released"
       /\ ledger[o] = "reserved" => ledger'[o] \in {"reserved", "released"}
       /\ ledger'[o] = "released" /\ ledger[o] # "released" => o \in asked
    ]_vars

=============================================================================
