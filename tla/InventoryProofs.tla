-------------------------- MODULE InventoryProofs --------------------------
(***************************************************************************)
(* Theorems about Inventory, for any catalog, any orders and any demand:   *)
(* what the service has answered, what becomes of a reservation, and where *)
(* the stock is.                                                           *)
(***************************************************************************)
EXTENDS Inventory, FiniteSetTheorems, TLAPS

\* The ledger and the answers, apart from the stock they move.
LedgerType ==
  /\ ledger \in [Orders -> {"none", "reserved", "released"}]
  /\ answers \in [Orders -> Seq(Reply)]

\* The inductive invariant.
IInv == LedgerType /\ LatestAnswerIsTrue

-----------------------------------------------------------------------------
(* Answers.                                                                 *)

\* An answer is the last of its order's and leaves every other order's alone.
LEMMA Answered ==
  ASSUME LedgerType, NEW o \in Orders, NEW reply \in Reply, Answer(o, reply)
  PROVE  /\ answers' \in [Orders -> Seq(Reply)]
         /\ answers'[o][Len(answers'[o])] = reply
         /\ \A n \in 1..Len(answers'[o]) :
              answers'[o][n] = reply
              \/ (n \in 1..Len(answers[o]) /\ answers'[o][n] = answers[o][n])
         /\ \A p \in Orders \ {o} : answers'[p] = answers[p]
<1> DEFINE s == answers[o]
<1>1. s \in Seq(Reply) /\ answers' = [answers EXCEPT ![o] = Append(s, reply)]
  BY DEF Answer, LedgerType
<1>2. answers'[o] = Append(s, reply)
  BY <1>1 DEF LedgerType
<1>3. /\ Len(Append(s, reply)) = Len(s) + 1 /\ Len(s) \in Nat
      /\ \A n \in 1..Len(s) : Append(s, reply)[n] = s[n]
      /\ Append(s, reply)[Len(s) + 1] = reply
  BY <1>1
<1>4. answers' \in [Orders -> Seq(Reply)] /\ \A p \in Orders \ {o} : answers'[p] = answers[p]
  BY <1>1 DEF LedgerType
<1> HIDE DEF s
<1>5. \A n \in 1..(Len(s) + 1) : n \in 1..Len(s) \/ n = Len(s) + 1
  BY <1>3
<1>6. \A n \in 1..Len(answers'[o]) :
        answers'[o][n] = reply \/ (n \in 1..Len(s) /\ answers'[o][n] = s[n])
  BY <1>2, <1>3, <1>5
<1> QED BY <1>2, <1>3, <1>4, <1>6 DEF s

\* A handler leaves the ledger and the answers alone, or changes one order's.
LEMMA Handlers ==
  ASSUME [Next]_vars
  PROVE  \/ UNCHANGED <<ledger, answers>>
         \/ \E o \in Orders : Reserve(o) \/ Release(o)
BY DEF Next, RequestRelease, WriteStock, DeleteProduct, vars

\* A request is answered by what it found, a release answers nothing.
LEMMA LedgerStep ==
  ASSUME IInv, [Next]_vars
  PROVE  IInv'
<1> USE DEF IInv
<1>1. CASE UNCHANGED <<ledger, answers>>
  BY <1>1 DEF LedgerType, LatestAnswerIsTrue
<1>2. ASSUME NEW o \in Orders, ReserveFresh(o)
      PROVE  IInv'
  <2>1. /\ Answer(o, "inventory.reserve.succeeded")
        /\ ledger' = [ledger EXCEPT ![o] = "reserved"]
    BY <1>2 DEF ReserveFresh
  <2> QED BY <2>1, Answered DEF Reply, LedgerType, LatestAnswerIsTrue
<1>3. ASSUME NEW o \in Orders, ReserveRejected(o)
      PROVE  IInv'
  <2>1. Answer(o, "inventory.reserve.failed") /\ ledger' = ledger /\ ledger[o] = "none"
    BY <1>3 DEF ReserveRejected
  <2>2. /\ LedgerType'
        /\ \A n \in 1..Len(answers'[o]) : answers'[o][n] = "inventory.reserve.failed"
        /\ \A p \in Orders \ {o} : answers'[p] = answers[p]
    BY <2>1, Answered DEF Reply, LedgerType, LatestAnswerIsTrue
  <2> QED BY <2>1, <2>2 DEF LatestAnswerIsTrue
<1>4. ASSUME NEW o \in Orders, ReserveAgain(o)
      PROVE  IInv'
  <2>1. CASE ledger[o] = "reserved"
    <3>1. Answer(o, "inventory.reserve.succeeded") /\ ledger' = ledger
      BY <1>4, <2>1 DEF ReserveAgain
    <3>2. /\ LedgerType'
          /\ answers'[o][Len(answers'[o])] = "inventory.reserve.succeeded"
          /\ \A p \in Orders \ {o} : answers'[p] = answers[p]
      BY <3>1, Answered DEF Reply, LedgerType
    <3> QED BY <2>1, <3>1, <3>2 DEF LatestAnswerIsTrue
  <2>2. CASE ledger[o] = "released"
    <3>1. Answer(o, "inventory.reserve.failed") /\ ledger' = ledger
      BY <1>4, <2>2 DEF ReserveAgain
    <3>2. /\ LedgerType'
          /\ answers'[o][Len(answers'[o])] = "inventory.reserve.failed"
          /\ \A p \in Orders \ {o} : answers'[p] = answers[p]
      BY <3>1, Answered DEF Reply, LedgerType
    <3> QED BY <2>2, <3>1, <3>2 DEF LatestAnswerIsTrue
  <2> QED BY <1>4, <2>1, <2>2 DEF ReserveAgain, LedgerType
<1>5. ASSUME NEW o \in Orders, Release(o)
      PROVE  IInv'
  BY <1>5 DEF Release, LedgerType, LatestAnswerIsTrue
<1> QED BY <1>1, <1>2, <1>3, <1>4, <1>5, Handlers DEF Reserve

-----------------------------------------------------------------------------
(* Stock.                                                                   *)

\* What order o takes of row s, unit by unit.
Units(o, s) == {o} \X (1..Demand[o][s])

\* What is free and what is held of a row, and both are finite.
RowInv(s) == IsFiniteSet(HeldUnits(s)) /\ quantity[s] + HeldOf(s) = supply[s]

StockInv ==
  /\ quantity \in [Stock -> Nat] /\ supply \in [Stock -> Nat]
  /\ sellable \subseteq Stock /\ present \subseteq Stock /\ asked \subseteq Orders
  /\ \A s \in Stock : RowInv(s)

\* As many natural numbers up to k as k says.
LEMMA UpTo ==
  ASSUME NEW k \in Nat
  PROVE  IsFiniteSet(1..k) /\ Cardinality(1..k) = k
BY FS_Interval

\* An order's units of a row are as many as its lines take of it.
LEMMA UnitsOf ==
  ASSUME NEW o \in Orders, NEW s \in Stock
  PROVE  /\ Demand[o][s] \in Nat
         /\ IsFiniteSet(Units(o, s)) /\ Cardinality(Units(o, s)) = Demand[o][s]
<1>1. Demand[o][s] \in Nat
  BY InventoryAssumption DEF InventoryAssumption
<1>2. IsFiniteSet(1..Demand[o][s]) /\ Cardinality(1..Demand[o][s]) = Demand[o][s]
  BY <1>1, UpTo
<1>3. IsFiniteSet({o}) /\ Cardinality({o}) = 1
  BY FS_Singleton
<1>4. /\ IsFiniteSet(Units(o, s))
      /\ Cardinality(Units(o, s)) = Cardinality({o}) * Cardinality(1..Demand[o][s])
  BY <1>2, <1>3, FS_Product DEF Units
<1> QED BY <1>1, <1>2, <1>3, <1>4

\* A set and the units an order adds to it.
LEMMA UnitsAdded ==
  ASSUME NEW o \in Orders, NEW s \in Stock, NEW old, NEW new,
         new = old \cup Units(o, s), old \cap Units(o, s) = {},
         IsFiniteSet(old) \/ IsFiniteSet(new)
  PROVE  /\ IsFiniteSet(old) /\ IsFiniteSet(new)
         /\ Cardinality(old) \in Nat
         /\ Cardinality(new) = Cardinality(old) + Demand[o][s]
<1>1. IsFiniteSet(old)
  <2>1. old \subseteq new
    OBVIOUS
  <2> QED BY <2>1, FS_Subset
<1>2. /\ IsFiniteSet(Units(o, s)) /\ Cardinality(Units(o, s)) = Demand[o][s]
      /\ Demand[o][s] \in Nat
  BY UnitsOf
<1>3. /\ IsFiniteSet(new)
      /\ Cardinality(new) = Cardinality(old) + Cardinality(Units(o, s))
                              - Cardinality(old \cap Units(o, s))
  BY <1>1, <1>2, FS_Union
<1>4. Cardinality(old \cap Units(o, s)) = 0 /\ Cardinality(old) \in Nat
  BY <1>1, FS_EmptySet, FS_CardinalityType
<1> QED BY <1>1, <1>2, <1>3, <1>4

\* A reservation takes its units, a release gives them back.
LEMMA UnitsMove ==
  ASSUME LedgerType, NEW o \in Orders, NEW s \in Stock, IsFiniteSet(HeldUnits(s))
  PROVE  /\ ledger[o] # "reserved" /\ ledger' = [ledger EXCEPT ![o] = "reserved"] =>
              /\ IsFiniteSet(HeldUnits(s))'
              /\ HeldOf(s) \in Nat /\ HeldOf(s)' = HeldOf(s) + Demand[o][s]
         /\ ledger[o] = "reserved" /\ ledger' = [ledger EXCEPT ![o] = "released"] =>
              /\ IsFiniteSet(HeldUnits(s))'
              /\ HeldOf(s)' \in Nat /\ HeldOf(s) = HeldOf(s)' + Demand[o][s]
<1>1. CASE ledger[o] # "reserved" /\ ledger' = [ledger EXCEPT ![o] = "reserved"]
  <2>1. {p \in Orders : ledger'[p] = "reserved"} = {p \in Orders : ledger[p] = "reserved"} \cup {o}
    BY <1>1 DEF LedgerType
  <2>2. HeldUnits(s)' = HeldUnits(s) \cup Units(o, s)
    BY <2>1 DEF HeldUnits, Units
  <2>3. HeldUnits(s) \cap Units(o, s) = {}
    BY <1>1 DEF HeldUnits, Units
  <2> QED BY <1>1, <2>2, <2>3, UnitsAdded DEF HeldOf
<1>2. CASE ledger[o] = "reserved" /\ ledger' = [ledger EXCEPT ![o] = "released"]
  <2>1. {p \in Orders : ledger[p] = "reserved"} = {p \in Orders : ledger'[p] = "reserved"} \cup {o}
    BY <1>2 DEF LedgerType
  <2>2. HeldUnits(s) = HeldUnits(s)' \cup Units(o, s)
    BY <2>1 DEF HeldUnits, Units
  <2>3. ledger'[o] # "reserved"
    BY <1>2 DEF LedgerType
  <2>4. HeldUnits(s)' \cap Units(o, s) = {}
    BY <2>3 DEF HeldUnits, Units
  <2> QED BY <1>2, <2>2, <2>4, UnitsAdded DEF HeldOf
<1> QED BY <1>1, <1>2

\* Only a reservation, a release and a catalog write move stock: the first two
\* by the units they hold or let go, the last by what is written.
LEMMA StockStep ==
  ASSUME LedgerType, StockInv, [Next]_vars
  PROVE  StockInv'
<1>1. ASSUME UNCHANGED ledger, NEW s \in Stock
      PROVE  HeldUnits(s)' = HeldUnits(s) /\ HeldOf(s)' = HeldOf(s)
  BY <1>1 DEF HeldUnits, HeldOf
<1>2. CASE UNCHANGED <<quantity, supply, ledger, sellable>>
           /\ present' \subseteq Stock /\ asked' \subseteq Orders
  BY <1>1, <1>2 DEF StockInv, RowInv
<1>3. ASSUME NEW o \in Orders, ReserveFresh(o)
      PROVE  StockInv'
  <2>1. /\ ledger[o] = "none" /\ ledger' = [ledger EXCEPT ![o] = "reserved"]
        /\ Enough(o) /\ quantity' = [s \in Stock |-> quantity[s] - Demand[o][s]]
        /\ sellable' \subseteq sellable /\ UNCHANGED <<present, asked, supply>>
    BY <1>3 DEF ReserveFresh
  <2>2. ASSUME NEW s \in Stock
        PROVE  quantity[s] - Demand[o][s] \in Nat /\ RowInv(s)'
    <3>1. /\ quantity[s] \in Nat /\ supply[s] \in Nat /\ Demand[o][s] \in Nat
          /\ RowInv(s)
      BY UnitsOf DEF StockInv
    <3>2. quantity[s] >= Demand[o][s]
      BY <2>1, <3>1 DEF Enough, Touched
    <3>3. /\ IsFiniteSet(HeldUnits(s))'
          /\ HeldOf(s) \in Nat /\ HeldOf(s)' = HeldOf(s) + Demand[o][s]
      BY <2>1, <3>1, UnitsMove DEF RowInv
    <3>4. quantity'[s] = quantity[s] - Demand[o][s] /\ supply'[s] = supply[s]
      BY <2>1
    <3>5. quantity'[s] + HeldOf(s)' = supply'[s]
      BY <3>1, <3>3, <3>4 DEF RowInv
    <3> QED BY <3>1, <3>2, <3>3, <3>5 DEF RowInv
  <2>3. quantity' \in [Stock -> Nat]
    BY <2>1, <2>2
  <2> QED BY <2>1, <2>2, <2>3 DEF StockInv
<1>4. ASSUME NEW o \in Orders, Release(o)
      PROVE  StockInv'
  <2>1. /\ ledger[o] = "reserved" /\ ledger' = [ledger EXCEPT ![o] = "released"]
        /\ quantity' = [s \in Stock |-> quantity[s] + Demand[o][s]]
        /\ sellable' = sellable \cup (Touched(o) \cap Products)
        /\ UNCHANGED <<present, asked, supply>>
    BY <1>4 DEF Release
  <2>2. ASSUME NEW s \in Stock
        PROVE  quantity[s] + Demand[o][s] \in Nat /\ RowInv(s)'
    <3>1. /\ quantity[s] \in Nat /\ supply[s] \in Nat /\ Demand[o][s] \in Nat
          /\ RowInv(s)
      BY UnitsOf DEF StockInv
    <3>2. /\ IsFiniteSet(HeldUnits(s))'
          /\ HeldOf(s)' \in Nat /\ HeldOf(s) = HeldOf(s)' + Demand[o][s]
      BY <2>1, <3>1, UnitsMove DEF RowInv
    <3>3. quantity'[s] = quantity[s] + Demand[o][s] /\ supply'[s] = supply[s]
      BY <2>1
    <3>4. quantity'[s] + HeldOf(s)' = supply'[s]
      BY <3>1, <3>2, <3>3 DEF RowInv
    <3> QED BY <3>1, <3>2, <3>4 DEF RowInv
  <2>3. quantity' \in [Stock -> Nat] /\ sellable' \subseteq Stock
    BY <2>1, <2>2 DEF StockInv, Touched
  <2> QED BY <2>1, <2>2, <2>3 DEF StockInv
<1>5. ASSUME NEW s \in Stock, NEW n \in (0..MaxStock) \cup {quantity[s]}, NEW sell \in BOOLEAN,
             WriteStock(s, n, sell)
      PROVE  StockInv'
  <2>1. /\ quantity' = [quantity EXCEPT ![s] = n]
        /\ supply' = [supply EXCEPT ![s] = n + HeldOf(s)]
        /\ sellable' \subseteq sellable \cup {s}
        /\ UNCHANGED <<present, ledger, answers, asked>>
    BY <1>5 DEF WriteStock
  <2>2. n \in Nat
    BY InventoryAssumption DEF InventoryAssumption, StockInv
  <2>3. HeldOf(s) \in Nat
    BY FS_CardinalityType DEF StockInv, RowInv, HeldOf
  <2>4. quantity' \in [Stock -> Nat] /\ supply' \in [Stock -> Nat]
    BY <2>1, <2>2, <2>3 DEF StockInv
  <2>5. ASSUME NEW t \in Stock
        PROVE  RowInv(t)'
    <3>1. HeldUnits(t)' = HeldUnits(t) /\ HeldOf(t)' = HeldOf(t) /\ RowInv(t)
      BY <1>1, <2>1 DEF StockInv
    <3>2. quantity'[t] + HeldOf(t) = supply'[t]
      BY <2>1, <3>1 DEF StockInv, RowInv
    <3> QED BY <3>1, <3>2 DEF RowInv
  <2> QED BY <2>1, <2>4, <2>5 DEF StockInv
<1>6. ASSUME NEW o \in Orders, ReserveRejected(o) \/ ReserveAgain(o)
      PROVE  StockInv'
  BY <1>2, <1>6 DEF ReserveRejected, ReserveAgain, stockVars, StockInv
<1>7. ASSUME NEW batch \in SUBSET Orders, RequestRelease(batch)
      PROVE  StockInv'
  BY <1>2, <1>7 DEF RequestRelease, stockVars, StockInv
<1>8. ASSUME NEW p \in Products, DeleteProduct(p)
      PROVE  StockInv'
  BY <1>2, <1>8 DEF DeleteProduct, StockInv
<1>9. CASE UNCHANGED vars
  BY <1>2, <1>9 DEF vars, stockVars, StockInv
<1> QED BY <1>3, <1>4, <1>5, <1>6, <1>7, <1>8, <1>9 DEF Next, Reserve

-----------------------------------------------------------------------------
(* Theorems.                                                                *)

\* The inductive invariant holds in every reachable state.
THEOREM Inductive == Spec => []IInv
<1>1. Init => IInv
  <2> SUFFICES ASSUME Init
               PROVE  IInv
    OBVIOUS
  <2>1. LedgerType
    BY DEF Init, LedgerType
  <2>2. \A o \in Orders : Len(answers[o]) = 0 /\ ledger[o] = "none"
    BY DEF Init
  <2> QED BY <2>1, <2>2 DEF IInv, LatestAnswerIsTrue
<1> QED BY <1>1, LedgerStep, PTL DEF Spec

\* While stock is held for an order its latest answer is a success, however
\* often its request is delivered and whatever happens to the catalog.
THEOREM AnswersAreTrue == Spec => []LatestAnswerIsTrue
<1>1. IInv => LatestAnswerIsTrue
  BY DEF IInv
<1> QED BY <1>1, Inductive, PTL

\* A released reservation takes no stock again, and nothing but a release the
\* order service asked for ends one.
THEOREM ReleaseIsFinal == Spec => ReleasedIsFinal
<1>1. ASSUME IInv, [Next]_vars, NEW o \in Orders
      PROVE  /\ ledger[o] = "released" => ledger'[o] = "released"
             /\ ledger[o] = "reserved" => ledger'[o] \in {"reserved", "released"}
             /\ ledger'[o] = "released" /\ ledger[o] # "released" => o \in asked
  <2>1. CASE UNCHANGED ledger
    BY <1>1, <2>1
  <2>2. ASSUME NEW p \in Orders, Reserve(p)
        PROVE  ledger' = ledger
               \/ (ledger[p] = "none" /\ ledger' = [ledger EXCEPT ![p] = "reserved"])
    BY <2>2 DEF Reserve, ReserveFresh, ReserveRejected, ReserveAgain
  <2>3. ASSUME NEW p \in Orders, Release(p)
        PROVE  /\ ledger[p] = "reserved" /\ p \in asked
               /\ ledger' = [ledger EXCEPT ![p] = "released"]
    BY <2>3 DEF Release
  <2> QED BY <1>1, <2>1, <2>2, <2>3, Handlers DEF IInv, LedgerType
<1>2. ASSUME IInv, [Next]_vars
      PROVE  [\A o \in Orders :
                /\ ledger[o] = "released" => ledger'[o] = "released"
                /\ ledger[o] = "reserved" => ledger'[o] \in {"reserved", "released"}
                /\ ledger'[o] = "released" /\ ledger[o] # "released" => o \in asked]_vars
  BY <1>1, <1>2
<1> QED BY <1>2, Inductive, PTL DEF Spec, ReleasedIsFinal

\* No unit of stock is lost or made up, for any number of orders and rows: what
\* is free and what live reservations hold add up to what was supplied.
THEOREM StockIsConserved == Spec => []StockConserved
<1>1. Init => LedgerType /\ StockInv
  <2> SUFFICES ASSUME Init
               PROVE  LedgerType /\ StockInv
    OBVIOUS
  <2>1. /\ quantity \in [Stock -> Nat] /\ supply = quantity /\ sellable \subseteq Stock
        /\ LedgerType
    BY InventoryAssumption DEF InventoryAssumption, Init, LedgerType
  <2>2. ASSUME NEW s \in Stock
        PROVE  RowInv(s)
    <3>1. HeldUnits(s) = {}
      BY DEF Init, HeldUnits
    <3>2. IsFiniteSet(HeldUnits(s)) /\ HeldOf(s) = 0
      BY <3>1, FS_EmptySet DEF HeldOf
    <3> QED BY <2>1, <3>2 DEF RowInv
  <2> QED BY <2>1, <2>2 DEF Init, StockInv
<1>2. LedgerType /\ StockInv /\ [Next]_vars => StockInv'
  BY StockStep
<1>3. IInv => LedgerType
  BY DEF IInv
<1>4. StockInv => StockConserved
  BY DEF StockInv, RowInv, StockConserved
<1> QED BY <1>1, <1>2, <1>3, <1>4, Inductive, PTL DEF Spec

=============================================================================
