-------------------------- MODULE BackOfficeProofs --------------------------
(***************************************************************************)
(* Theorems about the services around the checkout (BackOffice), for every *)
(* finite set of requests and every bound.  The parts share no state: a    *)
(* step is a step of one part and leaves the others alone, so each has an  *)
(* inductive invariant of its own.                                         *)
(***************************************************************************)
EXTENDS BackOffice, FiniteSetTheorems, SequenceTheorems, TLAPS

\* Ending a request that is not over adds it to those that are.
LEMMA OneMoreEnded ==
  ASSUME IsFiniteSet(Requests), NEW req, NEW new, NEW q \in Requests,
         req[q].step # "end", new[q].step = "end",
         \A p \in Requests : p # q => new[p].step = req[p].step
  PROVE  Cardinality({p \in Requests : new[p].step = "end"})
           = Cardinality({p \in Requests : req[p].step = "end"}) + 1
<1> DEFINE Over == {p \in Requests : req[p].step = "end"}
<1>1. {p \in Requests : new[p].step = "end"} = Over \cup {q}
  OBVIOUS
<1>2. IsFiniteSet(Over) /\ q \notin Over
  BY FS_Subset
<1> HIDE DEF Over
<1>3. Cardinality(Over \cup {q}) = Cardinality(Over) + 1
  BY <1>2, FS_AddElement
<1> QED BY <1>1, <1>3 DEF Over

\* There are no more of them than requests.
LEMMA EndedBounded ==
  ASSUME IsFiniteSet(Requests), NEW req
  PROVE  /\ Cardinality({p \in Requests : req[p].step = "end"}) \in 0..Cardinality(Requests)
         /\ Cardinality(Requests) \in Nat
<1> DEFINE Over == {p \in Requests : req[p].step = "end"}
<1>1. Over \in SUBSET Requests
  OBVIOUS
<1> HIDE DEF Over
<1>2. /\ IsFiniteSet(Over) /\ Cardinality(Over) <= Cardinality(Requests)
      /\ Cardinality(Over) \in Nat /\ Cardinality(Requests) \in Nat
  BY <1>1, FS_Subset, FS_CardinalityType
<1> QED BY <1>2 DEF Over

-----------------------------------------------------------------------------
(* The wishlist.                                                            *)

WishEnded == Cardinality({q \in Requests : wishReq[q].step = "end"})

WishReqs == [Requests -> [op : Wish!Ops, step : {"new", "ready", "end"}, item : Products,
                             seen : 0..Cardinality(Requests)]]

\* The columns' types, but for the number of insertions.
WishTypes ==
  /\ wishlist \in 0..wishlists
  /\ items \subseteq Products /\ (wishlist = 0 => items = {})
  /\ wishReq \in WishReqs
  /\ user \in {"active", "deleted"}
  /\ deletion \in {"none", "queued", "claimed", "cleaned", "done", "dead"}
  /\ deletionClaim \in {"none", "processing", "processed"}
  /\ cleaned \in BOOLEAN
  /\ leftBehind \subseteq {"recreated", "crashed", "dead"}
  /\ wishFaults \in 0..MaxFaults

\* Each insertion was the end of a request.
WishRows == wishlists \in Nat /\ wishlists <= WishEnded

\* A claim that no handler works under has deleted the row, unless the consumer
\* crashed; a message is only done with under a claim.
WishClaims ==
  /\ deletion \in {"claimed", "cleaned", "done"} => deletionClaim # "none"
  /\ deletion = "cleaned" => cleaned
  /\ deletionClaim # "none" /\ deletion # "claimed" => cleaned \/ leftBehind # {}
  /\ user = "active" => deletion = "none" /\ deletionClaim = "none"

\* Only a request that began before can bring a deleted row back.
WishCleaned == cleaned /\ leftBehind = {} => wishlist = 0

WishInv == WishTypes /\ WishRows /\ WishClaims /\ WishCleaned

\* A wishlist that is not touched keeps its invariant.
LEMMA WishStays ==
  ASSUME WishInv, UNCHANGED wishlistVars
  PROVE  WishInv'
BY DEF WishInv, WishTypes, WishReqs, WishRows, WishEnded, WishClaims, WishCleaned, wishlistVars

\* There is no row before the first request.
LEMMA WishStart ==
  ASSUME Wish!Init
  PROVE  WishInv
<1>1. IsFiniteSet(Requests) /\ Cardinality(Requests) \in Nat /\ MaxFaults \in Nat
  BY BackOfficeAssumption, FS_CardinalityType DEF BackOfficeAssumption
<1>2. WishEnded \in Nat
  BY <1>1, EndedBounded DEF WishEnded
<1>3. wishReq \in WishReqs
  BY <1>1 DEF Wish!Init, WishReqs
<1>4. WishTypes
  <2>1. wishlist \in 0..wishlists
    BY DEF Wish!Init
  <2>2. wishFaults \in 0..MaxFaults
    BY <1>1 DEF Wish!Init
  <2>3. items = {} /\ leftBehind = {} /\ cleaned \in BOOLEAN
    BY DEF Wish!Init
  <2> QED BY <2>1, <2>2, <2>3, <1>3 DEF Wish!Init, WishTypes
<1> QED BY <1>2, <1>4 DEF Wish!Init, WishInv, WishRows, WishClaims, WishCleaned

\* Every request and every step of the consumer keeps it.
LEMMA WishStep ==
  ASSUME WishInv, Wish!Next
  PROVE  WishInv'
<1> DEFINE Size == Cardinality(Requests)
<1>1. /\ Size \in Nat /\ MaxFaults \in Nat /\ IsFiniteSet(Requests)
      /\ WishEnded \in 0..Size /\ wishlist \in 0..wishlists /\ wishlists \in Nat
  BY BackOfficeAssumption, EndedBounded DEF BackOfficeAssumption, WishEnded, WishInv, WishTypes, WishRows
<1>6. WishReqs' = WishReqs
  BY DEF WishReqs
<1> HIDE DEF Size
<1> USE <1>6 DEF WishInv, WishTypes, WishRows, WishClaims, WishCleaned, Wish!Ops
<1>2. ASSUME NEW q \in Requests, wishReq[q].step # "end", Wish!End(q)
      PROVE  /\ WishEnded' = WishEnded + 1
             /\ wishReq' \in WishReqs /\ wishReq[q].item \in Products
  <2>1. /\ wishReq'[q].step = "end"
        /\ \A p \in Requests : p # q => wishReq'[p].step = wishReq[p].step
        /\ wishReq' \in WishReqs /\ wishReq[q].item \in Products
    BY <1>2 DEF Wish!End, WishReqs
  <2> HIDE DEF WishInv, Wish!Ops
  <2> QED BY <1>1, <1>2, <2>1, OneMoreEnded DEF WishEnded
<1>3. ASSUME NEW q \in Requests, Wish!Request(q)
      PROVE  WishInv'
  <2>1. CASE Wish!ReadRow(q) /\ wishReq[q].op = "remove" /\ wishlist = 0
    BY <1>1, <1>2, <2>1 DEF Wish!ReadRow
  <2>2. CASE Wish!ReadRow(q) /\ ~(wishReq[q].op = "remove" /\ wishlist = 0)
    <3>1. wishReq' = [wishReq EXCEPT ![q].step = "ready", ![q].seen = wishlist]
      BY <2>2 DEF Wish!ReadRow
    <3>2. wishlist \in 0..Size
      BY <1>1
    <3>3. /\ wishReq' \in WishReqs
          /\ \A p \in Requests : wishReq'[p].step = "end" <=> wishReq[p].step = "end"
      BY <2>2, <3>1, <3>2 DEF Wish!ReadRow, Size, WishReqs
    <3>4. WishEnded' = WishEnded
      BY <3>3 DEF WishEnded
    <3> QED BY <1>1, <2>2, <3>3, <3>4 DEF Wish!ReadRow
  <2>3. CASE Wish!Refused(q)
    BY <1>1, <1>2, <2>3 DEF Wish!Refused
  <2>4. CASE Wish!CreateRow(q)
    BY <1>1, <1>2, <2>4 DEF Wish!CreateRow
  <2>5. CASE Wish!AddItem(q)
    BY <1>1, <1>2, <2>5 DEF Wish!AddItem
  <2>6. CASE Wish!RemoveItem(q)
    BY <1>1, <1>2, <2>6 DEF Wish!RemoveItem
  <2> HIDE DEF WishInv
  <2> QED BY <1>3, <2>1, <2>2, <2>3, <2>4, <2>5, <2>6 DEF Wish!Request
<1>4. CASE Wish!DeleteUser
  BY <1>1, <1>4 DEF Wish!DeleteUser, WishEnded
<1>5. CASE Wish!Consumer
  <2>2. WishRows' /\ wishReq' \in WishReqs
    BY <1>5, <1>6 DEF WishEnded, Wish!Consumer, Wish!Claim, Wish!DeleteWishlist, Wish!Mark,
       Wish!HandlerRaises, Wish!ConsumerCrashes, Wish!Republished
  <2> USE <1>1, <2>2 DEF Wish!Fault
  <2>3. CASE Wish!Claim
    BY <2>3 DEF Wish!Claim
  <2>4. CASE Wish!DeleteWishlist
    BY <2>4 DEF Wish!DeleteWishlist
  <2>5. CASE Wish!Mark
    BY <2>5 DEF Wish!Mark
  <2>6. CASE Wish!HandlerRaises
    <3>1. wishFaults' \in 0..MaxFaults
      BY <2>6 DEF Wish!HandlerRaises
    <3>2. leftBehind' \subseteq {"recreated", "crashed", "dead"}
      <4>1. leftBehind' = leftBehind \/ leftBehind' = leftBehind \cup {"dead"}
        BY <2>6 DEF Wish!HandlerRaises
      <4> QED BY <4>1
    <3>3. WishTypes'
      BY <2>6, <3>1, <3>2 DEF Wish!HandlerRaises
    <3>4. WishClaims'
      BY <2>6 DEF Wish!HandlerRaises
    <3>5. WishCleaned'
      BY <2>6 DEF Wish!HandlerRaises
    <3> HIDE DEF WishTypes, WishRows, WishClaims, WishCleaned
    <3> QED BY <3>3, <3>4, <3>5
  <2>7. CASE Wish!ConsumerCrashes
    BY <2>7 DEF Wish!ConsumerCrashes
  <2>8. CASE Wish!Republished
    BY <2>8 DEF Wish!Republished
  <2> QED BY <1>5, <2>3, <2>4, <2>5, <2>6, <2>7, <2>8 DEF Wish!Consumer
<1> QED BY <1>3, <1>4, <1>5 DEF Wish!Next

\* The wishlist's invariant holds while any part runs.
THEOREM WishInductive == Spec => []WishInv
<1>1. Init => WishInv
  BY WishStart DEF Init
<1>2. ASSUME WishInv, [Next]_allVars
      PROVE  WishInv'
  <2>1. CASE UNCHANGED wishlistVars
    BY <1>2, <2>1, WishStays
  <2>2. CASE Wish!Next
    BY <1>2, <2>2, WishStep
  <2> QED BY <1>2, <2>1, <2>2 DEF Next, Synchronise, Cache, Wishing, Shopping, Notify,
         Generate, Route, Operate, allVars
<1> QED BY <1>1, <1>2, PTL DEF Spec

\* Whatever requests were under way and whatever the consumer of user.deleted
\* went through, a wishlist that outlives its user was recreated by a request
\* or lost to a crash or a dead letter.
THEOREM WishlistGone == Spec => []WishlistGoneWithUser
<1>1. WishInv => WishlistGoneWithUser
  BY DEF WishInv, WishTypes, WishClaims, WishCleaned, WishlistGoneWithUser,
         Wish!WishlistGoneWithUser
<1> QED BY <1>1, WishInductive, PTL

-----------------------------------------------------------------------------
(* The cart.                                                                *)

CartEnded == Cardinality({q \in Requests : cartReq[q].step = "end"})

CartReqs == [Requests -> [op : {"add", "update", "remove", "clear"},
                          step : {"new", "ready", "end"}, seen : SUBSET (1..lineIds)]]

OrderedLeft == lines \cap ordered

CartTypes ==
  /\ cartReq \in CartReqs
  /\ placed \in {"none", "created", "confirmed"}
  /\ orderEvent \in [Basket!OrderEvents ->
                      {"none", "queued", "claimed", "read", "cleared", "done", "dead"}]
  /\ orderClaim \in [Basket!OrderEvents -> {"none", "processing", "processed"}]
  /\ orderSeen \in [Basket!OrderEvents -> SUBSET (1..lineIds)]
  /\ orderLost \subseteq Basket!OrderEvents
  /\ cartFaults \in 0..MaxFaults

\* Each line was the end of a request; a line is never given an old id, so what
\* is added after the order is not one of its lines.
CartLines ==
  /\ lineIds \in Nat /\ lineIds <= CartEnded
  /\ lines \subseteq 1..lineIds /\ ordered \subseteq 1..lineIds

\* No event comes before what it reports.
CartEvents ==
  /\ placed = "none" => \A e \in Basket!OrderEvents : orderEvent[e] = "none"
  /\ placed = "created" => orderEvent["order.confirmed"] = "none"

\* A claim that no handler works under has emptied the cart of the ordered
\* lines, unless its handler was lost; a handler has read all that are left.
CartClaim(e) ==
  /\ orderEvent[e] = "none" => orderClaim[e] = "none"
  /\ orderEvent[e] \in {"claimed", "read", "cleared", "done"} => orderClaim[e] # "none"
  /\ orderEvent[e] = "read" => OrderedLeft \subseteq orderSeen[e]
  /\ orderEvent[e] = "cleared" => OrderedLeft = {}
  /\ orderEvent[e] = "dead" => OrderedLeft = {} \/ e \in orderLost
  /\ orderClaim[e] # "none" /\ orderEvent[e] \notin {"claimed", "read"} =>
       OrderedLeft = {} \/ e \in orderLost

CartClaims == \A e \in Basket!OrderEvents : CartClaim(e)

CartInv == CartTypes /\ CartLines /\ CartEvents /\ CartClaims

\* A cart that is not touched keeps its invariant.
LEMMA CartStays ==
  ASSUME CartInv, UNCHANGED cartVars
  PROVE  CartInv'
<1> QED BY DEF CartInv, CartTypes, CartReqs, CartLines, CartEnded, CartEvents, CartClaims,
   CartClaim, OrderedLeft, cartVars, Basket!OrderEvents

\* The cart is empty before the first request.
LEMMA CartStart ==
  ASSUME Basket!Init
  PROVE  CartInv
<1>1. IsFiniteSet(Requests) /\ MaxFaults \in Nat
  BY BackOfficeAssumption DEF BackOfficeAssumption
<1>2. CartEnded \in Nat
  BY <1>1, EndedBounded DEF CartEnded
<1>3. cartReq \in CartReqs
  BY DEF Basket!Init, CartReqs
<1>4. cartFaults \in 0..MaxFaults
  BY <1>1 DEF Basket!Init
<1>5. CartTypes
  BY <1>3, <1>4 DEF Basket!Init, CartTypes
<1>6. CartLines
  BY <1>2 DEF Basket!Init, CartLines
<1>7. CartEvents /\ CartClaims
  BY DEF Basket!Init, CartEvents, CartClaims, CartClaim, Basket!OrderEvents
<1> QED BY <1>5, <1>6, <1>7 DEF CartInv

\* A request leaves the order alone and no ordered line comes back.
LEMMA CartRequest ==
  ASSUME CartInv, NEW q \in Requests, Basket!Request(q)
  PROVE  CartInv'
<1>1. /\ IsFiniteSet(Requests) /\ CartEnded \in Nat
      /\ lineIds \in Nat /\ lineIds <= CartEnded
      /\ lines \subseteq 1..lineIds /\ ordered \subseteq 1..lineIds
  BY BackOfficeAssumption, EndedBounded DEF BackOfficeAssumption, CartEnded, CartInv, CartLines
<1>2. CartTypes /\ cartReq[q].step \in {"new", "ready"}
  BY DEF CartInv, Basket!Request, Basket!ReadLines, Basket!Refused, Basket!InsertLine,
     Basket!UpdateLine, Basket!DeleteLines
<1>3. UNCHANGED <<placed, ordered, orderEvent, orderClaim, orderSeen, orderLost, cartFaults>>
  BY DEF Basket!Request, Basket!ReadLines, Basket!Refused, Basket!InsertLine,
     Basket!UpdateLine, Basket!DeleteLines
<1>4. SUFFICES /\ cartReq' \in CartReqs' /\ orderSeen' \in [Basket!OrderEvents -> SUBSET (1..lineIds')]
               /\ CartLines' /\ OrderedLeft' \subseteq OrderedLeft
  <2>1. CartTypes'
    BY <1>2, <1>3, <1>4 DEF CartTypes
  <2>2. CartEvents'
    BY <1>3 DEF CartInv, CartEvents
  <2>3. CartClaims'
    BY <1>3, <1>4 DEF CartInv, CartClaims, CartClaim
  <2> QED BY <1>4, <2>1, <2>2, <2>3 DEF CartInv
<1>5. ASSUME Basket!End(q), lineIds' \in Nat, lineIds <= lineIds'
      PROVE  /\ CartEnded' = CartEnded + 1
             /\ cartReq' \in CartReqs'
             /\ orderSeen' \in [Basket!OrderEvents -> SUBSET (1..lineIds')]
  <2>1. 1..lineIds \subseteq 1..lineIds'
    BY <1>1, <1>5
  <2>2. SUBSET (1..lineIds) \subseteq SUBSET (1..lineIds')
    BY <2>1
  <2>3. /\ cartReq' \in CartReqs' /\ cartReq'[q].step = "end"
        /\ \A p \in Requests : p # q => cartReq'[p].step = cartReq[p].step
    BY <1>2, <1>5, <2>2 DEF CartTypes, CartReqs, Basket!End
  <2>4. orderSeen' \in [Basket!OrderEvents -> SUBSET (1..lineIds')]
    BY <1>2, <1>3, <2>2 DEF CartTypes
  <2>5. cartReq[q].step # "end"
    BY <1>2
  <2>6. CartEnded' = CartEnded + 1
    BY <1>1, <2>3, <2>5, OneMoreEnded DEF CartEnded
  <2> QED BY <2>3, <2>4, <2>6
<1>6. CASE Basket!ReadLines(q)
  <2>1. PICK rows \in SUBSET lines :
          cartReq' = [cartReq EXCEPT ![q].step = "ready", ![q].seen = rows]
    <3> DEFINE Choices == IF cartReq[q].op \in {"add", "clear"} THEN {lines}
                          ELSE {{i} : i \in lines}
    <3>1. Choices \subseteq SUBSET lines
      OBVIOUS
    <3>2. \E rows \in Choices :
            cartReq' = [cartReq EXCEPT ![q].step = "ready", ![q].seen = rows]
      BY <1>6 DEF Basket!ReadLines
    <3> HIDE DEF Choices
    <3> QED BY <3>1, <3>2
  <2>2. rows \in SUBSET (1..lineIds)
    BY <1>1, <2>1
  <2>3. UNCHANGED <<lines, lineIds>>
    BY <1>6 DEF Basket!ReadLines
  <2>4. /\ cartReq' \in CartReqs'
        /\ \A p \in Requests : cartReq'[p].step = "end" <=> cartReq[p].step = "end"
    BY <1>2, <1>6, <2>1, <2>2, <2>3 DEF CartTypes, CartReqs, Basket!ReadLines
  <2>5. CartEnded' = CartEnded
    BY <2>4 DEF CartEnded
  <2> QED BY <1>1, <1>2, <1>3, <2>3, <2>4, <2>5 DEF CartLines, CartTypes, OrderedLeft
<1>7. CASE Basket!Refused(q) \/ Basket!UpdateLine(q)
  <2>1. UNCHANGED <<lines, lineIds>> /\ Basket!End(q)
    BY <1>7 DEF Basket!Refused, Basket!UpdateLine
  <2> QED BY <1>1, <1>3, <1>5, <2>1 DEF CartLines, OrderedLeft
<1>8. CASE Basket!InsertLine(q)
  <2>1. /\ lines' = lines \cup {lineIds + 1} /\ lineIds' = lineIds + 1
        /\ Basket!End(q)
    BY <1>8 DEF Basket!InsertLine
  <2>2. lineIds + 1 \notin ordered /\ 1..lineIds \subseteq 1..lineIds' /\ lineIds + 1 \in 1..lineIds'
    BY <1>1, <2>1
  <2>3. /\ CartEnded' = CartEnded + 1 /\ cartReq' \in CartReqs'
        /\ orderSeen' \in [Basket!OrderEvents -> SUBSET (1..lineIds')]
    BY <1>1, <1>5, <2>1
  <2>4. lineIds' \in Nat /\ lineIds' <= CartEnded'
    BY <1>1, <2>1, <2>3
  <2>5. lines' \subseteq 1..lineIds' /\ ordered' \subseteq 1..lineIds'
    BY <1>1, <1>3, <2>1, <2>2
  <2>6. OrderedLeft' \subseteq OrderedLeft
    BY <1>3, <2>1, <2>2 DEF OrderedLeft
  <2> QED BY <2>3, <2>4, <2>5, <2>6 DEF CartLines
<1>9. CASE Basket!DeleteLines(q)
  <2>1. lines' \subseteq lines /\ lineIds' = lineIds /\ Basket!End(q)
    BY <1>9 DEF Basket!DeleteLines
  <2> QED BY <1>1, <1>3, <1>5, <2>1 DEF CartLines, OrderedLeft
<1> QED BY <1>6, <1>7, <1>8, <1>9 DEF Basket!Request

\* What every step of a handler gives, from the event it is about.
LEMMA CartHandler ==
  ASSUME CartInv, NEW e \in Basket!OrderEvents, Basket!Consumer(e)
  PROVE  CartInv'
<1>1. CartTypes /\ CartLines /\ CartEvents /\ CartClaims /\ MaxFaults \in Nat
  BY BackOfficeAssumption DEF BackOfficeAssumption, CartInv
<1>2. UNCHANGED <<lineIds, cartReq, placed, ordered>> /\ lines' \subseteq lines
  BY DEF Basket!Consumer, Basket!ClaimEvent, Basket!SelectLines, Basket!ClearCart,
     Basket!MarkEvent, Basket!HandlerRaises, Basket!ConsumerCrashes, Basket!Republished
<1>3. /\ CartReqs' = CartReqs /\ CartEnded' = CartEnded
      /\ CartLines' /\ OrderedLeft' \subseteq OrderedLeft
  BY <1>1, <1>2 DEF CartReqs, CartEnded, CartLines, OrderedLeft
<1>4. /\ \A f \in Basket!OrderEvents : f # e =>
           /\ orderEvent'[f] = orderEvent[f] /\ orderClaim'[f] = orderClaim[f]
           /\ orderSeen'[f] = orderSeen[f]
      /\ orderLost \subseteq orderLost'
      /\ orderEvent[e] # "none"
  BY <1>1 DEF CartTypes, Basket!Consumer, Basket!ClaimEvent, Basket!SelectLines,
     Basket!ClearCart, Basket!MarkEvent, Basket!HandlerRaises, Basket!ConsumerCrashes,
     Basket!Republished, Basket!Move, Basket!ClaimIs, Basket!LoseUncleared, Basket!Handling
<1>5. CartEvents'
  BY <1>1, <1>2, <1>4 DEF CartEvents, Basket!OrderEvents
<1>6. ASSUME NEW f \in Basket!OrderEvents, f # e
      PROVE  CartClaim(f)'
  BY <1>1, <1>3, <1>4, <1>6 DEF CartClaims, CartClaim
<1>7. SUFFICES CartTypes' /\ CartClaim(e)'
  BY <1>3, <1>5, <1>6, <1>7 DEF CartInv, CartClaims
<1>8. CartClaim(e)
  BY <1>1 DEF CartClaims
<1> USE <1>1, <1>2, <1>3, <1>8 DEF CartTypes, CartClaim, Basket!Move, Basket!ClaimIs
<1>9. CASE Basket!ClaimEvent(e)
  BY <1>9 DEF Basket!ClaimEvent
<1>10. CASE Basket!SelectLines(e)
  <2>1. orderSeen' \in [Basket!OrderEvents -> SUBSET (1..lineIds)] /\ orderSeen'[e] = lines
    BY <1>10 DEF Basket!SelectLines, CartLines
  <2> QED BY <1>10, <2>1 DEF Basket!SelectLines, OrderedLeft
<1>11. CASE Basket!ClearCart(e)
  BY <1>11 DEF Basket!ClearCart, OrderedLeft
<1>12. CASE Basket!MarkEvent(e)
  BY <1>12 DEF Basket!MarkEvent
<1>13. CASE Basket!HandlerRaises(e)
  BY <1>13 DEF Basket!HandlerRaises, Basket!Fault, Basket!LoseUncleared
<1>14. CASE Basket!ConsumerCrashes(e)
  BY <1>14 DEF Basket!ConsumerCrashes, Basket!Fault, Basket!LoseUncleared, Basket!Handling
<1>15. CASE Basket!Republished(e)
  BY <1>15 DEF Basket!Republished, Basket!Fault
<1> HIDE DEF CartTypes, CartClaim
<1> QED BY <1>9, <1>10, <1>11, <1>12, <1>13, <1>14, <1>15 DEF Basket!Consumer

\* The order's two events, when they are written.
LEMMA CartOrder ==
  ASSUME CartInv, Basket!CreateOrder \/ Basket!ConfirmOrder
  PROVE  CartInv'
<1>1. CartTypes /\ CartLines /\ CartEvents /\ CartClaims
  BY DEF CartInv
<1>2. UNCHANGED <<lines, lineIds, cartReq, orderClaim, orderSeen, orderLost, cartFaults>>
  BY DEF Basket!CreateOrder, Basket!ConfirmOrder
<1>3. CartReqs' = CartReqs /\ CartEnded' = CartEnded
  BY <1>2 DEF CartReqs, CartEnded
<1>4. CartLines'
  BY <1>1, <1>2, <1>3 DEF CartLines, Basket!CreateOrder, Basket!ConfirmOrder
<1>5. CartTypes'
  BY <1>1, <1>2, <1>3 DEF CartTypes, Basket!CreateOrder, Basket!ConfirmOrder, Basket!OrderEvents
<1>6. CartEvents'
  BY <1>1 DEF CartEvents, CartTypes, Basket!CreateOrder, Basket!ConfirmOrder, Basket!OrderEvents
<1>7. CartClaims'
  <2>1. CASE Basket!CreateOrder
    <3>1. /\ \A e \in Basket!OrderEvents : orderEvent[e] = "none" /\ orderClaim'[e] = "none"
          /\ \A e \in Basket!OrderEvents : orderEvent'[e] \in {"none", "queued"}
      BY <1>1, <1>2, <2>1 DEF CartTypes, CartEvents, CartClaims, CartClaim, Basket!CreateOrder
    <3> QED BY <3>1 DEF CartClaims, CartClaim
  <2>2. CASE Basket!ConfirmOrder
    <3>1. /\ orderEvent["order.confirmed"] = "none" /\ OrderedLeft' = OrderedLeft
          /\ orderEvent'["order.confirmed"] = "queued"
          /\ orderEvent'["order.created"] = orderEvent["order.created"]
      BY <1>1, <1>2, <2>2 DEF CartTypes, CartEvents, OrderedLeft, Basket!ConfirmOrder,
         Basket!OrderEvents
    <3> QED BY <1>1, <1>2, <3>1 DEF CartClaims, CartClaim, Basket!OrderEvents
  <2> QED BY <2>1, <2>2
<1> QED BY <1>4, <1>5, <1>6, <1>7 DEF CartInv

\* The cart's invariant holds while any part runs.
THEOREM CartInductive == Spec => []CartInv
<1>1. Init => CartInv
  BY CartStart DEF Init
<1>2. ASSUME CartInv, [Next]_allVars
      PROVE  CartInv'
  <2>1. CASE UNCHANGED cartVars
    BY <1>2, <2>1, CartStays
  <2>2. CASE Basket!Next
    BY <1>2, <2>2, CartRequest, CartHandler, CartOrder DEF Basket!Next
  <2> QED BY <1>2, <2>1, <2>2 DEF Next, Synchronise, Cache, Wishing, Shopping, Notify,
         Generate, Route, Operate, allVars
<1> QED BY <1>1, <1>2, PTL DEF Spec

\* However the customer's requests and the two handlers' reads and deletes
\* interleave, no ordered line outlives both events unless both were lost.
THEOREM OrderedLinesGone == Spec => []OrderedLinesLeaveCart
<1>1. CartInv => OrderedLinesLeaveCart
  <2> SUFFICES ASSUME CartInv, \A e \in Basket!OrderEvents : Basket!Settled(e),
                      orderLost # Basket!OrderEvents
               PROVE  lines \cap ordered = {}
    BY DEF OrderedLinesLeaveCart, Basket!OrderedLinesLeaveCart
  <2>1. PICK e \in Basket!OrderEvents : e \notin orderLost
    BY DEF CartInv, CartTypes
  <2> QED BY <2>1 DEF CartInv, CartClaims, CartClaim, OrderedLeft, Basket!Settled
<1> QED BY <1>1, CartInductive, PTL

-----------------------------------------------------------------------------
(* Notifications.                                                           *)

\* Emails of an event that went out or are waiting to.
Mails(e) == sent[e] + task[e]

NoticeTypes ==
  /\ type \in [Events -> Notice!Types]
  /\ message \in [Events -> {"none", "queued", "claimed", "mailed", "saved", "done", "dead"}]
  /\ noticeClaim \in [Events -> {"none", "processing", "processed"}]
  /\ task \in [Events -> Nat] /\ sent \in [Events -> Nat]
  /\ notices \in [Events -> [unread : Nat, read : Nat, gone : Nat]]
  /\ redone \subseteq Events /\ resent \subseteq Events /\ unsent \subseteq Events
  /\ noticeFaults \in 0..MaxFaults

\* A handler works under a claim, and on the path of its event's kind.
NoticePath(e) ==
  /\ message[e] = "none" => noticeClaim[e] = "none"
  /\ message[e] \in {"claimed", "mailed", "saved", "done"} => noticeClaim[e] # "none"
  /\ message[e] = "mailed" => Notice!Is(e, "mail")
  /\ message[e] = "saved" => Notice!Is(e, "mail") \/ Notice!Is(e, "record")
  /\ Notice!Is(e, "skip") \/ Notice!Is(e, "ignore") => Notice!Saved(e) = 0 /\ Mails(e) = 0

\* Each further email or notification cost a fault.
NoticeBound(e) ==
  /\ Notice!Saved(e) <= noticeFaults + 1 /\ Mails(e) <= noticeFaults + 1
  /\ noticeClaim[e] = "none" \/ message[e] = "claimed" =>
       Notice!Saved(e) <= noticeFaults /\ Mails(e) <= noticeFaults
  /\ message[e] = "mailed" => Notice!Saved(e) <= noticeFaults

\* Nothing is left by an event that may still be handled from the start, unless
\* it was handled again.
NoticeOnce(e) ==
  e \notin redone =>
    /\ Notice!Saved(e) <= 1 /\ (e \notin resent => Mails(e) <= 1)
    /\ message[e] = "claimed" \/ (noticeClaim[e] = "none" /\ message[e] # "dead") =>
         Notice!Saved(e) = 0 /\ Mails(e) = 0
    /\ message[e] = "mailed" => Notice!Saved(e) = 0

\* A handler that has got so far left what its event calls for, unless the
\* email's task raised.
NoticeSome(e) ==
  /\ message[e] = "saved" => Notice!Saved(e) >= 1
  /\ noticeClaim[e] = "processed" /\ (Notice!Is(e, "mail") \/ Notice!Is(e, "record")) =>
       Notice!Saved(e) >= 1
  /\ Notice!Is(e, "mail") /\ e \notin unsent
     /\ (message[e] \in {"mailed", "saved"} \/ noticeClaim[e] = "processed") => Mails(e) >= 1

NoticeEvent(e) == NoticePath(e) /\ NoticeBound(e) /\ NoticeOnce(e) /\ NoticeSome(e)

NoticeInv == NoticeTypes /\ \A e \in Events : NoticeEvent(e)

\* An event has one kind.
LEMMA OneKind ==
  ASSUME NEW e
  PROVE  /\ Notice!Is(e, "skip") \/ Notice!Is(e, "ignore") =>
              ~Notice!Is(e, "mail") /\ ~Notice!Is(e, "record")
         /\ ~(Notice!Is(e, "mail") /\ Notice!Is(e, "record"))
BY DEF Notice!Is, Notice!Of, Notice!UserTypes, Notice!OrderTypes, Notice!PaymentTypes

\* Notifications that are not touched keep their invariant.
LEMMA NoticeStays ==
  ASSUME NoticeInv, UNCHANGED noticeVars
  PROVE  NoticeInv'
BY DEF NoticeInv, NoticeTypes, NoticeEvent, NoticePath, NoticeBound, NoticeOnce, NoticeSome,
   Mails, Notice!Saved, Notice!Is, noticeVars

\* Nothing has been sent or saved before the first event.
LEMMA NoticeStart ==
  ASSUME Notice!Init
  PROVE  NoticeInv
<1>1. noticeFaults \in 0..MaxFaults
  BY BackOfficeAssumption DEF BackOfficeAssumption, Notice!Init
<1>2. notices \in [Events -> [unread : Nat, read : Nat, gone : Nat]]
  BY DEF Notice!Init
<1>3. NoticeTypes
  BY <1>1, <1>2 DEF Notice!Init, NoticeTypes
<1>4. ASSUME NEW e \in Events
      PROVE  NoticeEvent(e)
  <2>1. Notice!Saved(e) = 0 /\ Mails(e) = 0
    BY <1>4 DEF Notice!Init, Notice!Saved, Mails
  <2> QED BY <1>1, <1>4, <2>1 DEF Notice!Init, NoticeEvent, NoticePath, NoticeBound, NoticeOnce,
     NoticeSome
<1> QED BY <1>3, <1>4 DEF NoticeInv

\* A step about one event leaves the others as they are, and a fault only
\* loosens their bounds.
LEMMA NoticeOthers ==
  ASSUME NoticeInv, NEW e \in Events, NEW f \in Events, f # e, NoticeTypes',
         noticeFaults <= noticeFaults', type' = type,
         message'[f] = message[f], noticeClaim'[f] = noticeClaim[f], task'[f] = task[f],
         sent'[f] = sent[f], notices'[f] = notices[f],
         f \in redone' <=> f \in redone, f \in resent' <=> f \in resent,
         f \in unsent' <=> f \in unsent
  PROVE  NoticeEvent(f)'
<1>1. NoticeEvent(f) /\ noticeFaults \in Nat /\ noticeFaults' \in Nat
      /\ Notice!Saved(f) \in Nat /\ Mails(f) \in Nat
  BY BackOfficeAssumption DEF BackOfficeAssumption, NoticeInv, NoticeTypes, Notice!Saved, Mails
<1>2. /\ Notice!Saved(f)' = Notice!Saved(f) /\ Mails(f)' = Mails(f)
      /\ \A k : Notice!Is(f, k)' <=> Notice!Is(f, k)
  BY DEF Notice!Saved, Mails, Notice!Is
<1>3. NoticePath(f)'
  BY <1>1, <1>2 DEF NoticeEvent, NoticePath
<1>4. NoticeBound(f)'
  BY <1>1, <1>2 DEF NoticeEvent, NoticeBound
<1>5. NoticeOnce(f)'
  BY <1>1, <1>2 DEF NoticeEvent, NoticeOnce
<1>6. NoticeSome(f)'
  BY <1>1, <1>2 DEF NoticeEvent, NoticeSome
<1> QED BY <1>3, <1>4, <1>5, <1>6 DEF NoticeEvent

\* What a step has to show of its own event, in terms of the two counts.
LEMMA NoticeSelf ==
  ASSUME NoticeInv, NEW e \in Events, NoticeTypes', noticeFaults <= noticeFaults', type' = type,
         \A f \in Events : f # e =>
           /\ message'[f] = message[f] /\ noticeClaim'[f] = noticeClaim[f]
           /\ task'[f] = task[f] /\ sent'[f] = sent[f] /\ notices'[f] = notices[f]
           /\ f \in redone' <=> f \in redone
           /\ f \in resent' <=> f \in resent
           /\ f \in unsent' <=> f \in unsent,
         NoticeEvent(e)'
  PROVE  NoticeInv'
<1>1. ASSUME NEW f \in Events, f # e
      PROVE  NoticeEvent(f)'
  BY <1>1, NoticeOthers
<1> QED BY <1>1 DEF NoticeInv

\* The counts of an event and its kind.
LEMMA NoticeFacts ==
  ASSUME NoticeInv, NEW e \in Events
  PROVE  /\ NoticeTypes /\ NoticePath(e) /\ NoticeBound(e) /\ NoticeOnce(e) /\ NoticeSome(e)
         /\ noticeFaults \in Nat /\ MaxFaults \in Nat
         /\ Notice!Saved(e) \in Nat /\ Mails(e) \in Nat
BY BackOfficeAssumption
   DEF BackOfficeAssumption, NoticeInv, NoticeTypes, NoticeEvent, Notice!Saved, Mails

\* The handler's steps that neither send nor save.
LEMMA NoticeMoves ==
  ASSUME NoticeInv, NEW e \in Events,
         \/ Notice!Publish(e) \/ Notice!Claim(e) \/ Notice!IgnoreEvent(e)
         \/ Notice!MarkProcessed(e) \/ Notice!HandlerRaises(e) \/ Notice!ConsumerCrashes(e)
         \/ Notice!Republished(e)
  PROVE  NoticeInv'
<1>1. /\ NoticeTypes /\ NoticePath(e) /\ NoticeBound(e) /\ NoticeOnce(e) /\ NoticeSome(e)
      /\ noticeFaults \in Nat /\ MaxFaults \in Nat
      /\ Notice!Saved(e) \in Nat /\ Mails(e) \in Nat
  BY NoticeFacts
<1>2. UNCHANGED <<type, task, sent, notices, resent, unsent>>
  BY DEF Notice!Publish, Notice!Claim, Notice!IgnoreEvent, Notice!MarkProcessed,
     Notice!HandlerRaises, Notice!ConsumerCrashes, Notice!Republished
<1>3. /\ Notice!Saved(e)' = Notice!Saved(e) /\ Mails(e)' = Mails(e)
      /\ \A k : Notice!Is(e, k)' <=> Notice!Is(e, k)
  BY <1>2 DEF Notice!Saved, Mails, Notice!Is
<1>4. /\ NoticeTypes' /\ noticeFaults <= noticeFaults'
      /\ redone' \in {redone, redone \cup {e}}
      /\ \A f \in Events : f # e => message'[f] = message[f] /\ noticeClaim'[f] = noticeClaim[f]
  BY <1>1, <1>2 DEF NoticeTypes, Notice!Publish, Notice!Claim, Notice!IgnoreEvent,
     Notice!MarkProcessed, Notice!HandlerRaises, Notice!ConsumerCrashes, Notice!Republished,
     Notice!Move, Notice!ClaimIs, Notice!Fault, Notice!Redo
<1>5. SUFFICES NoticeEvent(e)'
  BY <1>2, <1>4, <1>5, NoticeSelf
<1> USE <1>1, <1>2, <1>3, <1>4 DEF NoticeTypes, NoticePath, NoticeBound, NoticeOnce,
        NoticeSome, Notice!Move, Notice!ClaimIs
<1>6. NoticePath(e)' /\ NoticeBound(e)'
  BY OneKind DEF Notice!Publish, Notice!Claim, Notice!IgnoreEvent, Notice!MarkProcessed,
     Notice!HandlerRaises, Notice!ConsumerCrashes, Notice!Republished, Notice!Fault,
     Notice!Handling
<1>7. NoticeOnce(e)'
  BY DEF Notice!Publish, Notice!Claim, Notice!IgnoreEvent, Notice!MarkProcessed,
     Notice!HandlerRaises, Notice!ConsumerCrashes, Notice!Republished, Notice!Redo,
     Notice!Handling
<1>8. NoticeSome(e)'
  BY OneKind DEF Notice!Publish, Notice!Claim, Notice!IgnoreEvent, Notice!MarkProcessed,
     Notice!HandlerRaises, Notice!ConsumerCrashes, Notice!Republished
<1> QED BY <1>6, <1>7, <1>8 DEF NoticeEvent

\* The handler's steps that send or save.
LEMMA NoticeLeft ==
  ASSUME NoticeInv, NEW e \in Events, Notice!QueueEmail(e) \/ Notice!SaveNotification(e)
  PROVE  NoticeInv'
<1>1. /\ NoticeTypes /\ NoticePath(e) /\ NoticeBound(e) /\ NoticeOnce(e) /\ NoticeSome(e)
      /\ noticeFaults \in Nat /\ MaxFaults \in Nat
      /\ Notice!Saved(e) \in Nat /\ Mails(e) \in Nat
  BY NoticeFacts
<1>2. UNCHANGED <<type, noticeClaim, sent, redone, resent, unsent, noticeFaults>>
  BY DEF Notice!QueueEmail, Notice!SaveNotification
<1>3. \A k : Notice!Is(e, k)' <=> Notice!Is(e, k)
  BY <1>2 DEF Notice!Is
<1>4. CASE Notice!QueueEmail(e)
  <2>1. /\ task' = [task EXCEPT ![e] = @ + 1] /\ message' = [message EXCEPT ![e] = "mailed"]
        /\ notices' = notices /\ message[e] = "claimed" /\ Notice!Is(e, "mail")
    BY <1>4 DEF Notice!QueueEmail, Notice!Move
  <2>2. NoticeTypes'
    BY <1>1, <1>2, <2>1 DEF NoticeTypes
  <2>3. Notice!Saved(e)' = Notice!Saved(e) /\ Mails(e)' = Mails(e) + 1
    BY <1>1, <1>2, <2>1 DEF Notice!Saved, Mails, NoticeTypes
  <2>4. message'[e] = "mailed"
    BY <1>1, <2>1 DEF NoticeTypes
  <2>5. NoticePath(e)'
    BY <1>1, <1>2, <1>3, <2>1, <2>3, <2>4, OneKind DEF NoticePath
  <2>6. NoticeBound(e)'
    BY <1>1, <1>2, <2>1, <2>3, <2>4 DEF NoticeBound, NoticePath
  <2>7. NoticeOnce(e)'
    BY <1>1, <1>2, <2>1, <2>3, <2>4 DEF NoticeOnce, NoticePath
  <2>8. \A f \in Events : f # e => message'[f] = message[f] /\ task'[f] = task[f]
    BY <1>1, <2>1 DEF NoticeTypes
  <2>9. NoticeSome(e)'
    BY <1>1, <1>2, <1>3, <2>1, <2>3, <2>4, OneKind DEF NoticeSome
  <2> QED BY <1>2, <2>1, <2>2, <2>5, <2>6, <2>7, <2>8, <2>9, <1>1, NoticeSelf DEF NoticeEvent
<1>5. CASE Notice!SaveNotification(e)
  <2>1. /\ notices' = [notices EXCEPT ![e].unread = @ + 1]
        /\ message' = [message EXCEPT ![e] = "saved"]
        /\ task' = task
        /\ message[e] = IF Notice!Is(e, "record") THEN "claimed" ELSE "mailed"
    BY <1>5 DEF Notice!SaveNotification, Notice!Move
  <2>2. NoticeTypes'
    BY <1>1, <1>2, <2>1 DEF NoticeTypes
  <2>3. Notice!Saved(e)' = Notice!Saved(e) + 1 /\ Mails(e)' = Mails(e)
    BY <1>1, <1>2, <2>1 DEF Notice!Saved, Mails, NoticeTypes
  <2>4. message'[e] = "saved"
    BY <1>1, <2>1 DEF NoticeTypes
  <2>5. NoticePath(e)'
    BY <1>1, <1>2, <1>3, <2>1, <2>3, <2>4, OneKind DEF NoticePath
  <2>6. NoticeBound(e)'
    BY <1>1, <1>2, <2>1, <2>3, <2>4 DEF NoticeBound, NoticePath
  <2>7. NoticeOnce(e)'
    BY <1>1, <1>2, <2>1, <2>3, <2>4 DEF NoticeOnce, NoticePath
  <2>8. \A f \in Events : f # e => message'[f] = message[f] /\ notices'[f] = notices[f]
    BY <1>1, <2>1 DEF NoticeTypes
  <2>9. NoticeSome(e)'
    BY <1>1, <1>2, <1>3, <2>1, <2>3, <2>4, OneKind DEF NoticeSome
  <2> QED BY <1>2, <2>1, <2>2, <2>5, <2>6, <2>7, <2>8, <2>9, <1>1, NoticeSelf DEF NoticeEvent
<1> QED BY <1>4, <1>5

\* The worker sends what is waiting; only its crash sends once more.
LEMMA NoticeWorker ==
  ASSUME NoticeInv, NEW e \in Events, Notice!Worker(e)
  PROVE  NoticeInv'
<1>1. /\ NoticeTypes /\ NoticePath(e) /\ NoticeBound(e) /\ NoticeOnce(e) /\ NoticeSome(e)
      /\ noticeFaults \in Nat /\ MaxFaults \in Nat
      /\ Notice!Saved(e) \in Nat /\ Mails(e) \in Nat
  BY NoticeFacts
<1>2. UNCHANGED <<type, message, noticeClaim, notices, redone>> /\ task[e] > 0
  BY DEF Notice!Worker, Notice!SendEmail, Notice!SendFails, Notice!WorkerCrashes
<1>3. Notice!Saved(e)' = Notice!Saved(e) /\ \A k : Notice!Is(e, k)' <=> Notice!Is(e, k)
  BY <1>2 DEF Notice!Is, Notice!Saved
<1>4. /\ NoticeTypes' /\ noticeFaults <= noticeFaults'
      /\ \A f \in Events : f # e => /\ task'[f] = task[f] /\ sent'[f] = sent[f]
                                    /\ f \in resent' <=> f \in resent
                                    /\ f \in unsent' <=> f \in unsent
  <2>1. CASE Notice!SendEmail(e)
    BY <1>1, <1>2, <2>1 DEF Notice!SendEmail, NoticeTypes
  <2>2. CASE Notice!SendFails(e)
    BY <1>1, <1>2, <2>2 DEF Notice!SendFails, Notice!Fault, NoticeTypes
  <2>3. CASE Notice!WorkerCrashes(e)
    BY <1>1, <1>2, <2>3 DEF Notice!WorkerCrashes, Notice!Fault, NoticeTypes
  <2> QED BY <2>1, <2>2, <2>3 DEF Notice!Worker
<1>5. /\ Mails(e)' \in Nat /\ Mails(e) > 0
      /\ \/ Mails(e)' = Mails(e) /\ UNCHANGED <<resent, unsent>>
         \/ Mails(e)' <= Mails(e) /\ resent' = resent /\ e \in unsent'
         \/ Mails(e)' = Mails(e) + 1 /\ noticeFaults' = noticeFaults + 1 /\ e \in resent' /\ unsent' = unsent
  <2>1. /\ task[e] \in Nat /\ sent[e] \in Nat /\ Mails(e) = sent[e] + task[e]
        /\ task \in [Events -> Nat] /\ sent \in [Events -> Nat]
    BY <1>1 DEF NoticeTypes, Mails
  <2>2. task[e] > 0
    BY <1>2
  <2>3. CASE Notice!SendEmail(e)
    <3>1. task'[e] = task[e] - 1 /\ sent'[e] = sent[e] + 1
      BY <2>1, <2>3 DEF Notice!SendEmail
    <3>2. UNCHANGED <<resent, unsent>>
      BY <2>3 DEF Notice!SendEmail
    <3> QED BY <2>1, <2>2, <3>1, <3>2 DEF Mails
  <2>4. CASE Notice!SendFails(e)
    <3>1. task'[e] = task[e] - 1 /\ sent'[e] = sent[e]
      BY <2>1, <2>4 DEF Notice!SendFails
    <3>2. resent' = resent /\ e \in unsent'
      BY <2>4 DEF Notice!SendFails
    <3> QED BY <2>1, <2>2, <3>1, <3>2 DEF Mails
  <2>5. CASE Notice!WorkerCrashes(e)
    <3>1. task'[e] = task[e] /\ sent'[e] = sent[e] + 1
      BY <2>1, <2>5 DEF Notice!WorkerCrashes
    <3>2. noticeFaults' = noticeFaults + 1 /\ e \in resent' /\ unsent' = unsent
      BY <2>5 DEF Notice!WorkerCrashes, Notice!Fault
    <3> QED BY <2>1, <2>2, <3>1, <3>2 DEF Mails
  <2> QED BY <2>3, <2>4, <2>5 DEF Notice!Worker
<1>6. noticeFaults' \in Nat
  BY <1>1, <1>4 DEF NoticeTypes
<1>7. NoticePath(e)'
  BY <1>1, <1>2, <1>3, <1>5 DEF NoticePath
<1>8. NoticeBound(e)'
  BY <1>1, <1>2, <1>3, <1>4, <1>5, <1>6 DEF NoticeBound
<1>9. NoticeOnce(e)'
  BY <1>1, <1>2, <1>3, <1>5 DEF NoticeOnce
<1>10. NoticeSome(e)'
  BY <1>1, <1>2, <1>3, <1>5 DEF NoticeSome
<1> QED BY <1>2, <1>4, <1>7, <1>8, <1>9, <1>10, NoticeSelf DEF NoticeEvent

\* The customer moves notifications about and never makes one.
LEMMA NoticeCustomer ==
  ASSUME NoticeInv, (\E e \in Events : Notice!Customer(e)) \/ Notice!MarkAllAsRead
  PROVE  NoticeInv'
<1>1. /\ NoticeTypes /\ \A e \in Events : NoticeEvent(e)
  BY DEF NoticeInv
<1>2. UNCHANGED <<type, message, noticeClaim, task, sent, redone, resent, unsent, noticeFaults>>
  BY DEF Notice!Customer, Notice!MarkAsRead, Notice!DeleteNotification, Notice!MarkAllAsRead
<1>3. /\ notices' \in [Events -> [unread : Nat, read : Nat, gone : Nat]]
      /\ \A f \in Events : Notice!Saved(f)' = Notice!Saved(f)
  <2>1. CASE Notice!MarkAllAsRead
    <3>1. notices' = [e \in Events |->
             [notices[e] EXCEPT !.unread = 0, !.read = @ + notices[e].unread]]
      BY <2>1 DEF Notice!MarkAllAsRead
    <3>2. ASSUME NEW f \in Events
          PROVE  /\ notices'[f] \in [unread : Nat, read : Nat, gone : Nat]
                 /\ Notice!Saved(f)' = Notice!Saved(f)
      <4>1. notices[f] \in [unread : Nat, read : Nat, gone : Nat]
        BY <1>1 DEF NoticeTypes
      <4>2. notices'[f] = [notices[f] EXCEPT !.unread = 0, !.read = @ + notices[f].unread]
        BY <3>1
      <4>3. /\ notices[f].unread \in Nat /\ notices[f].read \in Nat /\ notices[f].gone \in Nat
            /\ notices'[f].unread = 0 /\ notices'[f].gone = notices[f].gone
            /\ notices'[f].read = notices[f].read + notices[f].unread
        BY <4>1, <4>2
      <4>4. notices'[f] = [unread |-> 0, read |-> notices[f].read + notices[f].unread,
                           gone |-> notices[f].gone]
        BY <4>1, <4>2
      <4>5. notices'[f] \in [unread : Nat, read : Nat, gone : Nat]
        BY <4>3, <4>4
      <4> QED BY <4>3, <4>5 DEF Notice!Saved
    <3> QED BY <3>1, <3>2
  <2>2. CASE \E e \in Events : Notice!MarkAsRead(e)
    <3>1. PICK e \in Events :
            /\ notices[e].unread > 0
            /\ notices' = [notices EXCEPT ![e].unread = @ - 1, ![e].read = @ + 1]
      BY <2>2 DEF Notice!MarkAsRead
    <3> QED BY <1>1, <3>1 DEF NoticeTypes, Notice!Saved
  <2>3. CASE \E e \in Events : Notice!DeleteNotification(e)
    <3>1. PICK e \in Events : Notice!DeleteNotification(e)
      BY <2>3
    <3>2. CASE notices[e].unread > 0
               /\ notices' = [notices EXCEPT ![e].unread = @ - 1, ![e].gone = @ + 1]
      BY <1>1, <3>2 DEF NoticeTypes, Notice!Saved
    <3>3. CASE notices[e].read > 0
               /\ notices' = [notices EXCEPT ![e].read = @ - 1, ![e].gone = @ + 1]
      BY <1>1, <3>3 DEF NoticeTypes, Notice!Saved
    <3>4. PICK field \in {"unread", "read"} :
            /\ notices[e][field] > 0
            /\ notices' = [notices EXCEPT ![e][field] = @ - 1, ![e].gone = @ + 1]
      BY <3>1 DEF Notice!DeleteNotification
    <3>5. field = "unread" \/ field = "read"
      BY <3>4
    <3> QED BY <3>2, <3>3, <3>4, <3>5
  <2> QED BY <2>1, <2>2, <2>3 DEF Notice!Customer
<1>4. NoticeTypes'
  BY <1>1, <1>2, <1>3 DEF NoticeTypes
<1>5. ASSUME NEW f \in Events
      PROVE  NoticeEvent(f)'
  BY <1>1, <1>2, <1>3 DEF NoticeEvent, NoticePath, NoticeBound, NoticeOnce, NoticeSome, Notice!Is,
     Mails
<1> QED BY <1>4, <1>5 DEF NoticeInv

\* The notifications' invariant holds while any part runs.
THEOREM NoticeInductive == Spec => []NoticeInv
<1>1. Init => NoticeInv
  BY NoticeStart DEF Init
<1>2. ASSUME NoticeInv, [Next]_allVars
      PROVE  NoticeInv'
  <2>1. CASE UNCHANGED noticeVars
    BY <1>2, <2>1, NoticeStays
  <2>2. CASE Notice!Next
    <3>1. CASE (\E e \in Events : Notice!Customer(e)) \/ Notice!MarkAllAsRead
      BY <1>2, <3>1, NoticeCustomer
    <3>2. CASE \E e \in Events : Notice!Worker(e)
      BY <1>2, <3>2, NoticeWorker
    <3>3. CASE \E e \in Events : Notice!Handler(e)
      BY <1>2, <3>3, NoticeMoves, NoticeLeft DEF Notice!Handler
    <3> QED BY <2>2, <3>1, <3>2, <3>3 DEF Notice!Next
  <2> QED BY <1>2, <2>1, <2>2 DEF Next, Synchronise, Cache, Wishing, Shopping, Notify,
         Generate, Route, Operate, allVars
<1> QED BY <1>1, <1>2, PTL DEF Spec

\* Redelivered, crashed over and published twice, an event gives at most one
\* email and one notification, and one of each it calls for once it is done, or
\* its history says which handler, consumer or worker failed.
THEOREM NoticeOncePerEvent == Spec => []OneNoticePerEvent
<1>1. ASSUME NoticeInv, NEW e \in Events
      PROVE  /\ e \notin redone => /\ Notice!Saved(e) <= 1
                                   /\ (e \notin resent => sent[e] + task[e] <= 1)
             /\ message[e] = "done" /\ noticeClaim[e] # "processing" =>
                  /\ Notice!Is(e, "mail") \/ Notice!Is(e, "record") => Notice!Saved(e) >= 1
                  /\ Notice!Is(e, "mail") /\ e \notin unsent => sent[e] + task[e] >= 1
             /\ Notice!Is(e, "skip") \/ Notice!Is(e, "ignore") =>
                  Notice!Saved(e) + sent[e] + task[e] = 0
  <2>1. /\ NoticeTypes /\ NoticePath(e) /\ NoticeOnce(e) /\ NoticeSome(e)
        /\ Notice!Saved(e) \in Nat /\ Mails(e) \in Nat
    BY <1>1, NoticeFacts
  <2>2. message[e] = "done" /\ noticeClaim[e] # "processing" => noticeClaim[e] = "processed"
    BY <2>1 DEF NoticeTypes, NoticePath
  <2> QED BY <2>1, <2>2 DEF NoticeTypes, NoticePath, NoticeOnce, NoticeSome, Mails
<1>2. NoticeInv => OneNoticePerEvent
  BY <1>1 DEF OneNoticePerEvent, Notice!OneNoticePerEvent
<1> QED BY <1>2, NoticeInductive, PTL

-----------------------------------------------------------------------------
(* The gateway's cache.                                                     *)

GateCache ==
  /\ entry # Gate!Absent => entry <= version /\ Gate!Cacheable(page.path)
  /\ reader # Gate!Absent => reader <= version
  /\ write.db = "open" => version < MaxVersion
  /\ write # Gate!NoWrite => write.route.service \in Gate!Services

GateInv == Gate!TypeOK /\ GateCache /\ Gate!StaleIsExplained

\* The first segment of the map that occurs in a path decides.
LEMMA FirstHit ==
  ASSUME NEW path, NEW i \in 1..10, Gate!InvalidationMap[i][1] \in Gate!ToSet(path),
         \A j \in 1..10 : j < i => Gate!InvalidationMap[j][1] \notin Gate!ToSet(path)
  PROVE  Gate!Namespaces(path) = Gate!InvalidationMap[i][2]
<1> DEFINE hits == {j \in DOMAIN Gate!InvalidationMap :
                      Gate!InvalidationMap[j][1] \in Gate!ToSet(path)}
<1>1. DOMAIN Gate!InvalidationMap = 1..10
  BY DEF Gate!InvalidationMap
<1>2. i \in hits /\ \A j \in hits : i <= j
  BY <1>1
<1>3. ASSUME NEW k \in hits, \A j \in hits : k <= j
      PROVE  k = i
  BY <1>1, <1>2, <1>3
<1>4. (CHOOSE k \in hits : \A j \in hits : k <= j) = i
  <2> HIDE DEF hits
  <2> QED BY <1>2, <1>3
<1> QED BY <1>2, <1>4 DEF Gate!Namespaces

\* What the paths of the catalog and of the shipping methods clear.
LEMMA Clearing ==
  ASSUME NEW path
  PROVE  /\ "products" \in Gate!ToSet(path) => Gate!Namespaces(path) = {"products"}
         /\ "categories" \in Gate!ToSet(path) /\ "products" \notin Gate!ToSet(path) =>
              Gate!Namespaces(path) = {"categories", "products"}
         /\ "images" \in Gate!ToSet(path)
              /\ {"products", "categories"} \cap Gate!ToSet(path) = {} =>
              Gate!Namespaces(path) = {"images", "products"}
         /\ "shipping" \in Gate!ToSet(path)
              /\ {"products", "categories", "images", "reviews", "orders", "carts", "wishlists"}
                   \cap Gate!ToSet(path) = {} =>
              Gate!Namespaces(path) = {"shipping"}
<1> DEFINE M == Gate!InvalidationMap
<1>1. /\ M[1] = <<"products", {"products"}>>
      /\ M[2] = <<"categories", {"categories", "products"}>>
      /\ M[3] = <<"images", {"images", "products"}>>
      /\ M[4] = <<"reviews", {"reviews", "products"}>>
      /\ M[5] = <<"orders", {"orders"}>> /\ M[6] = <<"carts", {"carts"}>>
      /\ M[7] = <<"wishlists", {"wishlists"}>> /\ M[8] = <<"shipping", {"shipping"}>>
  BY DEF Gate!InvalidationMap
<1> HIDE DEF M
<1>2. ASSUME NEW i \in 1..10, M[i][1] \in Gate!ToSet(path),
             \A j \in 1..10 : j < i => M[j][1] \notin Gate!ToSet(path)
      PROVE  Gate!Namespaces(path) = M[i][2]
  BY <1>2, FirstHit DEF M
<1>3. /\ 1 \in 1..10 /\ 2 \in 1..10 /\ 3 \in 1..10 /\ 8 \in 1..10
      /\ \A j \in 1..10 : ~(j < 1)
      /\ \A j \in 1..10 : j < 2 => j = 1
      /\ \A j \in 1..10 : j < 3 => j = 1 \/ j = 2
      /\ \A j \in 1..10 : j < 8 => j \in {1, 2, 3, 4, 5, 6, 7}
  OBVIOUS
<1>4. "products" \in Gate!ToSet(path) => Gate!Namespaces(path) = {"products"}
  BY <1>1, <1>2, <1>3
<1>5. "categories" \in Gate!ToSet(path) /\ "products" \notin Gate!ToSet(path) =>
        Gate!Namespaces(path) = {"categories", "products"}
  BY <1>1, <1>2, <1>3
<1>6. "images" \in Gate!ToSet(path) /\ {"products", "categories"} \cap Gate!ToSet(path) = {} =>
        Gate!Namespaces(path) = {"images", "products"}
  BY <1>1, <1>2, <1>3
<1>7. ASSUME "shipping" \in Gate!ToSet(path),
             {"products", "categories", "images", "reviews", "orders", "carts", "wishlists"}
               \cap Gate!ToSet(path) = {}
      PROVE  Gate!Namespaces(path) = {"shipping"}
  <2>1. \A j \in 1..10 : j < 8 => M[j][1] \notin Gate!ToSet(path)
    BY <1>1, <1>3, <1>7
  <2> QED BY <1>1, <1>2, <1>3, <1>7, <2>1
<1> QED BY <1>4, <1>5, <1>6, <1>7

\* A cached page is one of the catalog or of the shipping methods.
LEMMA CachedPages ==
  ASSUME NEW p \in Gate!Pages, Gate!Cacheable(p.path)
  PROVE  \/ Head(p.path) = "products"
         \/ Head(p.path) = "categories" /\ p.shows = {"category"}
         \/ Head(p.path) = "shipping" /\ p.shows = {"method"}
<1>1. PICK s \in Gate!PublicGets : Gate!IsPrefix(s, p.path)
  BY DEF Gate!Cacheable, Gate!IsPublic
<1>2. \/ s = <<"products">> \/ s = <<"categories">> \/ s = <<"customization", "pricing">>
      \/ s = <<"images", "generations">> \/ s = <<"shipping", "methods">>
  BY DEF Gate!PublicGets
<1>3. ASSUME NEW t, Gate!IsPrefix(s, t)
      PROVE  /\ t # <<"images">> /\ t # <<"p", "images">> /\ t # <<"reviews">>
             /\ t # <<"users", "u", "reviews">>
  <2>1. CASE s = <<"products">>
    BY <1>3, <2>1 DEF Gate!IsPrefix
  <2>2. CASE s = <<"categories">>
    BY <1>3, <2>2 DEF Gate!IsPrefix
  <2>3. CASE s = <<"customization", "pricing">>
    BY <1>3, <2>3 DEF Gate!IsPrefix
  <2>4. CASE s = <<"images", "generations">>
    BY <1>3, <2>4 DEF Gate!IsPrefix
  <2>5. CASE s = <<"shipping", "methods">>
    BY <1>3, <2>5 DEF Gate!IsPrefix
  <2> QED BY <1>2, <2>1, <2>2, <2>3, <2>4, <2>5
<1>4. \/ p.path \in {<<"products">>, <<"products", "p">>, <<"products", "detailed">>,
                     <<"products", "p", "detailed">>, <<"products", "p", "reviews">>,
                     <<"products", "p", "users", "u", "reviews">>}
      \/ p.path \in {<<"categories">>, <<"categories", "c">>} /\ p.shows = {"category"}
      \/ p.path \in {<<"shipping", "methods">>, <<"shipping", "methods", "m">>}
           /\ p.shows = {"method"}
      \/ p.path \in {<<"images">>, <<"p", "images">>, <<"reviews">>,
                     <<"users", "u", "reviews">>}
  BY DEF Gate!Pages, Gate!ProductPages, Gate!ShippingPages, Gate!Page
<1>5. p.path \in {<<"products">>, <<"products", "p">>, <<"products", "detailed">>,
                 <<"products", "p", "detailed">>, <<"products", "p", "reviews">>,
                 <<"products", "p", "users", "u", "reviews">>} => Head(p.path) = "products"
  OBVIOUS
<1>6. p.path \in {<<"categories">>, <<"categories", "c">>} => Head(p.path) = "categories"
  OBVIOUS
<1>7. p.path \in {<<"shipping", "methods">>, <<"shipping", "methods", "m">>} =>
        Head(p.path) = "shipping"
  OBVIOUS
<1>8. p.path \notin {<<"images">>, <<"p", "images">>, <<"reviews">>, <<"users", "u", "reviews">>}
  BY <1>1, <1>3
<1> QED BY <1>4, <1>5, <1>6, <1>7, <1>8

\* Every route that changes what a cached page shows clears that page.
LEMMA WritesClear ==
  ASSUME NEW r \in Gate!Writes, NEW p \in Gate!Pages, Gate!Cacheable(p.path),
         r.changes \cap p.shows # {}
  PROVE  Gate!Clears(Gate!Namespaces(r.path), p.path)
<1> DEFINE Words == Gate!ToSet(r.path)
           Others == {"products", "categories", "images", "reviews", "orders", "carts",
                      "wishlists"}
<1>1. \/ r.path \in {<<"products">>, <<"products", "upload">>, <<"products", "p">>,
                     <<"products", "p", "upload">>,
                     <<"products", "p", "users", "u", "reviews">>}
           /\ r.changes \subseteq {"product", "image", "review"}
      \/ r.path \in {<<"categories">>, <<"categories", "c">>} /\ r.changes = {"category"}
      \/ r.path \in {<<"p", "images">>, <<"images", "i">>} /\ r.changes = {"image"}
      \/ r.path \in {<<"shipping", "methods">>, <<"shipping", "methods", "m">>}
           /\ r.changes = {"method"}
  <2>1. CASE r \in Gate!CatalogRoutes
    BY <2>1 DEF Gate!CatalogRoutes, Gate!Route, Gate!Deletion
  <2>2. CASE r \in Gate!CustomerRoutes
    BY <2>2 DEF Gate!CustomerRoutes, Gate!Route, Gate!Deletion
  <2>3. CASE r \in Gate!ShippingRoutes
    BY <2>3 DEF Gate!ShippingRoutes, Gate!Route
  <2>4. ASSUME r \in Gate!UserRoutes \/ r \in Gate!OrderRoutes \/ r \in Gate!PaymentRoutes
               \/ r \in Gate!CartRoutes \/ r \in Gate!WishlistRoutes
               \/ r \in Gate!NotificationRoutes \/ r \in Gate!SupplierRoutes
        PROVE  FALSE
    <3>1. r.changes = {}
      BY <2>4 DEF Gate!UserRoutes, Gate!OrderRoutes, Gate!PaymentRoutes, Gate!CartRoutes,
         Gate!WishlistRoutes, Gate!NotificationRoutes, Gate!SupplierRoutes, Gate!Route,
         Gate!Deletion
    <3> QED BY <3>1
  <2> QED BY <2>1, <2>2, <2>3, <2>4 DEF Gate!Writes
<1>2. \/ "products" \in Words /\ r.changes \subseteq {"product", "image", "review"}
      \/ "categories" \in Words /\ "products" \notin Words /\ r.changes = {"category"}
      \/ "images" \in Words /\ {"products", "categories"} \cap Words = {} /\ r.changes = {"image"}
      \/ "shipping" \in Words /\ Others \cap Words = {} /\ r.changes = {"method"}
  <2>1. ASSUME NEW t, t \in {<<"products">>, <<"products", "upload">>, <<"products", "p">>,
                             <<"products", "p", "upload">>,
                             <<"products", "p", "users", "u", "reviews">>}
        PROVE  "products" \in Gate!ToSet(t)
    BY <2>1 DEF Gate!ToSet
  <2>2. Gate!ToSet(<<"categories">>) = {"categories"}
        /\ Gate!ToSet(<<"categories", "c">>) = {"categories", "c"}
    BY DEF Gate!ToSet
  <2>3. Gate!ToSet(<<"p", "images">>) = {"p", "images"}
        /\ Gate!ToSet(<<"images", "i">>) = {"images", "i"}
    BY DEF Gate!ToSet
  <2>4. Gate!ToSet(<<"shipping", "methods">>) = {"shipping", "methods"}
        /\ Gate!ToSet(<<"shipping", "methods", "m">>) = {"shipping", "methods", "m"}
    BY DEF Gate!ToSet
  <2> QED BY <1>1, <2>1, <2>2, <2>3, <2>4
<1>3. \/ Head(p.path) = "products"
      \/ Head(p.path) = "categories" /\ p.shows = {"category"}
      \/ Head(p.path) = "shipping" /\ p.shows = {"method"}
  BY CachedPages
<1>4. Head(p.path) = "products" => r.changes # {"method"}
  <2>1. ASSUME Head(p.path) = "products"
        PROVE  "method" \notin p.shows
    BY <2>1 DEF Gate!Pages, Gate!ProductPages, Gate!ShippingPages, Gate!Page
  <2> QED BY <2>1
<1> HIDE DEF Words
<1>5. CASE "products" \in Words /\ r.changes \subseteq {"product", "image", "review"}
  BY <1>3, <1>5, Clearing DEF Gate!Clears, Words
<1>6. CASE "categories" \in Words /\ "products" \notin Words /\ r.changes = {"category"}
  BY <1>3, <1>6, Clearing DEF Gate!Clears, Words
<1>7. CASE "images" \in Words /\ {"products", "categories"} \cap Words = {}
           /\ r.changes = {"image"}
  BY <1>3, <1>7, Clearing DEF Gate!Clears, Words
<1>8. CASE "shipping" \in Words /\ Others \cap Words = {} /\ r.changes = {"method"}
  BY <1>3, <1>4, <1>8, Clearing DEF Gate!Clears, Words
<1> QED BY <1>2, <1>5, <1>6, <1>7, <1>8

\* A cache that is not touched keeps its invariant.
LEMMA GateStays ==
  ASSUME GateInv, UNCHANGED gatewayVars
  PROVE  GateInv'
<1> USE DEF GateInv, gatewayVars
<1>1. Gate!TypeOK'
  BY DEF Gate!TypeOK
<1>2. GateCache'
  BY DEF GateCache
<1>3. Gate!StaleIsExplained'
  BY DEF Gate!StaleIsExplained, Gate!Stale, Gate!ClearPending
<1> QED BY <1>1, <1>2, <1>3

\* An idle gateway has cached nothing.
LEMMA GateStart ==
  ASSUME Gate!Init
  PROVE  GateInv
<1>1. MaxVersion \in Nat /\ Gate!Absent = MaxVersion + 1
  BY BackOfficeAssumption DEF BackOfficeAssumption, Gate!Absent
<1>2. Gate!NoWrite.db = "idle"
  BY DEF Gate!NoWrite
<1>3. Gate!TypeOK
  BY <1>1 DEF Gate!Init, Gate!TypeOK
<1> QED BY <1>1, <1>2, <1>3 DEF Gate!Init, GateInv, GateCache, Gate!StaleIsExplained, Gate!Stale

\* What a write in progress is.
LEMMA GateFacts ==
  ASSUME GateInv
  PROVE  /\ MaxVersion \in Nat /\ Gate!Absent = MaxVersion + 1
         /\ version \in Nat /\ version <= MaxVersion /\ entry \in Nat /\ reader \in Nat
         /\ Gate!NoWrite.db = "idle" /\ Gate!NoWrite.gw = "idle"
         /\ page \in Gate!Pages
         /\ write # Gate!NoWrite =>
              write \in [route : Gate!Writes, db : {"open", "settled", "written"},
                         gw : {"waiting", "answered", "cleared", "lost"}]
BY BackOfficeAssumption
   DEF BackOfficeAssumption, GateInv, Gate!TypeOK, Gate!Absent, Gate!NoWrite

\* Reads.
LEMMA GateRead ==
  ASSUME GateInv, Gate!Read
  PROVE  GateInv'
<1>1. /\ MaxVersion \in Nat /\ Gate!Absent = MaxVersion + 1
      /\ version \in Nat /\ version <= MaxVersion /\ entry \in Nat /\ reader \in Nat
  BY GateFacts
<1>2. UNCHANGED <<page, version, write, consumer>>
  BY DEF Gate!Read, Gate!Miss, Gate!Fill, Gate!FillLost, Gate!Expire
<1>3. Gate!ClearPending' <=> Gate!ClearPending
  BY <1>2 DEF Gate!ClearPending
<1> USE DEF GateInv
<1>4. CASE Gate!Miss
  BY <1>1, <1>2, <1>3, <1>4
     DEF Gate!Miss, Gate!TypeOK, GateCache, Gate!StaleIsExplained, Gate!Stale
<1>5. CASE Gate!Fill
  <2>1. Gate!TypeOK'
    BY <1>1, <1>2, <1>5 DEF Gate!Fill, Gate!TypeOK
  <2>2. GateCache'
    BY <1>1, <1>2, <1>5 DEF Gate!Fill, GateCache
  <2>3. Gate!StaleIsExplained'
    BY <1>1, <1>2, <1>3, <1>5 DEF Gate!Fill, GateCache, Gate!StaleIsExplained, Gate!Stale
  <2> QED BY <2>1, <2>2, <2>3
<1>6. CASE Gate!FillLost
  BY <1>1, <1>2, <1>3, <1>6
     DEF Gate!FillLost, Gate!TypeOK, GateCache, Gate!StaleIsExplained, Gate!Stale
<1>7. CASE Gate!Expire
  BY <1>1, <1>2, <1>7
     DEF Gate!Expire, Gate!TypeOK, GateCache, Gate!StaleIsExplained, Gate!Stale
<1> QED BY <1>4, <1>5, <1>6, <1>7 DEF Gate!Read

\* Writes through the gateway.
LEMMA GateWrite ==
  ASSUME GateInv, (\E r \in Gate!Writes : Gate!Send(r)) \/ Gate!Forward
  PROVE  GateInv'
<1>1. /\ MaxVersion \in Nat /\ Gate!Absent = MaxVersion + 1
      /\ version \in Nat /\ version <= MaxVersion /\ entry \in Nat /\ reader \in Nat
      /\ Gate!NoWrite.db = "idle" /\ Gate!NoWrite.gw = "idle"
      /\ page \in Gate!Pages
      /\ write # Gate!NoWrite =>
           write \in [route : Gate!Writes, db : {"open", "settled", "written"},
                      gw : {"waiting", "answered", "cleared", "lost"}]
  BY GateFacts
<1>2. UNCHANGED <<page, reader>>
  BY DEF Gate!Send, Gate!Forward, Gate!Answer, Gate!AnswerLost, Gate!Commit, Gate!Rollback,
     Gate!Invalidate, Gate!InvalidateFails, Gate!Finish
<1> USE DEF GateInv
<1>3. CASE \E r \in Gate!Writes : Gate!Send(r)
  <2>1. PICK r \in Gate!Writes : Gate!Send(r)
    BY <1>3
  <2>2. /\ write' = [route |-> r, db |-> "open", gw |-> "waiting"]
        /\ write = Gate!NoWrite /\ version < MaxVersion /\ r.service \in Gate!Services
        /\ UNCHANGED <<version, entry, consumer, why>>
    BY <2>1 DEF Gate!Send
  <2>3. write' \in [route : Gate!Writes, db : {"open", "settled", "written"},
                    gw : {"waiting", "answered", "cleared", "lost"}]
    BY <2>2
  <2>4. Gate!TypeOK'
    BY <1>2, <2>2, <2>3 DEF Gate!TypeOK
  <2>5. GateCache'
    BY <1>2, <2>2 DEF GateCache
  <2>6. Gate!ClearPending => Gate!ClearPending'
    BY <1>1, <1>2, <2>2 DEF Gate!ClearPending
  <2> QED BY <1>2, <2>2, <2>4, <2>5, <2>6 DEF Gate!StaleIsExplained, Gate!Stale
<1>4. CASE Gate!Answer \/ Gate!AnswerLost \/ Gate!Rollback
  <2>1. PICK d \in {"open", "settled", "written"}, g \in {"waiting", "answered", "lost", "cleared"} :
          /\ write' = [write EXCEPT !.db = d, !.gw = g]
          /\ d \in {write.db, "settled"}
          /\ \/ g = write.gw /\ write.db = "open"
             \/ g \in {"answered", "lost"} /\ write.gw = "waiting"
    BY <1>1, <1>4 DEF Gate!Answer, Gate!AnswerLost, Gate!Rollback
  <2>2. UNCHANGED <<version, entry, consumer, why>> /\ write # Gate!NoWrite
    BY <1>1, <1>4 DEF Gate!Answer, Gate!AnswerLost, Gate!Rollback
  <2>3. /\ write' \in [route : Gate!Writes, db : {"open", "settled", "written"},
                       gw : {"waiting", "answered", "cleared", "lost"}]
        /\ write'.route = write.route /\ write'.db = d /\ write'.gw = g
    BY <1>1, <2>1, <2>2
  <2>4. Gate!TypeOK'
    BY <1>2, <2>2, <2>3 DEF Gate!TypeOK
  <2>5. GateCache'
    BY <1>2, <2>1, <2>2, <2>3 DEF GateCache
  <2>6. Gate!ClearPending => Gate!ClearPending'
    BY <1>1, <1>2, <2>1, <2>2, <2>3 DEF Gate!ClearPending
  <2> QED BY <1>2, <2>2, <2>4, <2>5, <2>6 DEF Gate!StaleIsExplained, Gate!Stale
<1>5. CASE Gate!Commit
  <2>1. write # Gate!NoWrite /\ UNCHANGED <<entry, consumer>> /\ version < MaxVersion
    BY <1>1, <1>5 DEF Gate!Commit, GateCache
  <2>2. CASE ~Gate!Changes(write.route.changes)
    <3>1. write' = [write EXCEPT !.db = "settled"] /\ UNCHANGED <<version, why>>
          /\ write.db = "open"
      BY <1>5, <2>2 DEF Gate!Commit
    <3>2. /\ write' \in [route : Gate!Writes, db : {"open", "settled", "written"},
                         gw : {"waiting", "answered", "cleared", "lost"}]
          /\ write'.route = write.route /\ write'.db = "settled"
      BY <1>1, <2>1, <3>1
    <3>3. Gate!TypeOK' /\ GateCache'
      BY <1>2, <2>1, <3>1, <3>2 DEF Gate!TypeOK, GateCache
    <3>4. Gate!ClearPending => Gate!ClearPending'
      BY <1>2, <2>1, <3>1 DEF Gate!ClearPending
    <3> QED BY <1>2, <2>1, <3>1, <3>3, <3>4 DEF Gate!StaleIsExplained, Gate!Stale
  <2>3. CASE Gate!Changes(write.route.changes)
    <3>1. /\ write' = [write EXCEPT !.db = "written"] /\ version' = version + 1
          /\ write.db = "open" /\ write.gw # "waiting"
          /\ why' = IF entry = Gate!Absent THEN why
                    ELSE IF write.gw = "cleared" THEN "early"
                    ELSE IF write.gw = "lost" THEN "lost" ELSE why
      BY <1>5, <2>3 DEF Gate!Commit
    <3>2. /\ write' \in [route : Gate!Writes, db : {"open", "settled", "written"},
                         gw : {"waiting", "answered", "cleared", "lost"}]
          /\ write'.route = write.route /\ write'.db = "written" /\ write'.gw = write.gw
      BY <1>1, <2>1, <3>1
    <3>3. Gate!TypeOK'
      BY <1>1, <1>2, <2>1, <3>1, <3>2 DEF Gate!TypeOK
    <3>4. GateCache'
      BY <1>1, <1>2, <2>1, <3>1, <3>2 DEF GateCache
    <3>5. ASSUME entry # Gate!Absent, why' = "none"
          PROVE  Gate!ClearPending'
      <4>1. write'.gw = "answered"
        BY <1>1, <2>1, <3>1, <3>2, <3>5
      <4>2. write.route \in Gate!Writes /\ Gate!Cacheable(page.path)
        BY <1>1, <2>1, <3>5 DEF GateCache
      <4>3. Gate!Clears(Gate!Namespaces(write.route.path), page.path)
        BY <1>1, <2>3, <4>2, WritesClear DEF Gate!Changes
      <4> QED BY <1>2, <3>2, <4>1, <4>3 DEF Gate!ClearPending
    <3> QED BY <2>1, <3>3, <3>4, <3>5 DEF Gate!StaleIsExplained, Gate!Stale
  <2> QED BY <2>2, <2>3
<1>6. CASE Gate!Invalidate
  <2>1. /\ write # Gate!NoWrite /\ UNCHANGED <<version, consumer>>
        /\ write' = [write EXCEPT !.gw = "cleared"]
        /\ Gate!Clear(Gate!Namespaces(write.route.path))
    BY <1>1, <1>6 DEF Gate!Invalidate
  <2>2. /\ write' \in [route : Gate!Writes, db : {"open", "settled", "written"},
                       gw : {"waiting", "answered", "cleared", "lost"}]
        /\ write'.route = write.route /\ write'.db = write.db
    BY <1>1, <2>1
  <2>3. CASE Gate!Clears(Gate!Namespaces(write.route.path), page.path)
    <3>1. entry' = Gate!Absent /\ why' = "none"
      BY <2>1, <2>3 DEF Gate!Clear
    <3>2. Gate!TypeOK' /\ GateCache'
      BY <1>1, <1>2, <2>1, <2>2, <3>1 DEF Gate!TypeOK, GateCache
    <3> QED BY <3>1, <3>2 DEF Gate!StaleIsExplained, Gate!Stale
  <2>4. CASE ~Gate!Clears(Gate!Namespaces(write.route.path), page.path)
    <3>1. UNCHANGED <<entry, why>>
      BY <2>1, <2>4 DEF Gate!Clear
    <3>2. Gate!TypeOK' /\ GateCache'
      BY <1>1, <1>2, <2>1, <2>2, <3>1 DEF Gate!TypeOK, GateCache
    <3>3. Gate!ClearPending => Gate!ClearPending'
      BY <1>2, <2>1, <2>4 DEF Gate!ClearPending
    <3> QED BY <2>1, <3>1, <3>2, <3>3 DEF Gate!StaleIsExplained, Gate!Stale
  <2> QED BY <2>3, <2>4
<1>7. CASE Gate!InvalidateFails
  <2>1. /\ write # Gate!NoWrite /\ UNCHANGED <<version, entry, consumer>>
        /\ write' = [write EXCEPT !.gw = "lost"]
        /\ why' = IF write.db = "written" /\ entry # Gate!Absent THEN "lost" ELSE why
    BY <1>1, <1>7 DEF Gate!InvalidateFails
  <2>2. /\ write' \in [route : Gate!Writes, db : {"open", "settled", "written"},
                       gw : {"waiting", "answered", "cleared", "lost"}]
        /\ write'.route = write.route /\ write'.db = write.db
    BY <1>1, <2>1
  <2>3. Gate!TypeOK' /\ GateCache'
    BY <1>2, <2>1, <2>2 DEF Gate!TypeOK, GateCache
  <2>4. Gate!ClearPending /\ why' = "none" /\ entry # Gate!Absent => Gate!ClearPending'
    BY <1>2, <2>1 DEF Gate!ClearPending
  <2>5. why' = "none" => why = "none"
    BY <2>1
  <2> QED BY <2>1, <2>3, <2>4, <2>5 DEF Gate!StaleIsExplained, Gate!Stale
<1>8. CASE Gate!Finish
  <2>1. write' = Gate!NoWrite /\ UNCHANGED <<version, entry, consumer, why>>
        /\ write.gw # "answered"
    BY <1>8 DEF Gate!Finish
  <2>2. Gate!TypeOK' /\ GateCache'
    BY <1>1, <1>2, <2>1 DEF Gate!TypeOK, GateCache
  <2>3. Gate!ClearPending => Gate!ClearPending'
    BY <1>2, <2>1 DEF Gate!ClearPending
  <2> QED BY <2>1, <2>2, <2>3 DEF Gate!StaleIsExplained, Gate!Stale
<1> HIDE DEF GateInv
<1> QED BY <1>3, <1>4, <1>5, <1>6, <1>7, <1>8 DEF Gate!Forward

\* Writes of the product service's consumer.
LEMMA GateConsume ==
  ASSUME GateInv, Gate!Consume
  PROVE  GateInv'
<1>1. /\ MaxVersion \in Nat /\ Gate!Absent = MaxVersion + 1
      /\ version \in Nat /\ version <= MaxVersion /\ entry \in Nat /\ reader \in Nat
  BY GateFacts
<1>2. UNCHANGED <<page, reader, write>>
  BY DEF Gate!Consume, Gate!ConsumerCommit, Gate!ConsumerClear, Gate!ConsumerClearFails
<1> USE DEF GateInv
<1>3. ASSUME NEW rows, Gate!ConsumerCommit(rows)
      PROVE  GateInv'
  <2>1. /\ consumer' = "committed" /\ version' = version + 1 /\ version < MaxVersion - 1
        /\ entry' = entry
        /\ why' = IF entry # Gate!Absent /\ ~Gate!Clears({"products"}, page.path)
                  THEN "imported" ELSE why
    BY <1>3 DEF Gate!ConsumerCommit
  <2>2. Gate!TypeOK' /\ GateCache'
    BY <1>1, <1>2, <2>1 DEF Gate!TypeOK, GateCache
  <2>3. entry # Gate!Absent /\ why' = "none" => Gate!ClearPending'
    BY <1>2, <2>1 DEF Gate!ClearPending
  <2> QED BY <2>1, <2>2, <2>3 DEF Gate!StaleIsExplained, Gate!Stale
<1>4. CASE Gate!ConsumerClear
  <2>1. consumer' = "idle" /\ version' = version /\ Gate!Clear({"products"})
    BY <1>4 DEF Gate!ConsumerClear
  <2>2. CASE Gate!Clears({"products"}, page.path)
    BY <1>1, <1>2, <2>1, <2>2
       DEF Gate!Clear, Gate!TypeOK, GateCache, Gate!StaleIsExplained, Gate!Stale
  <2>3. CASE ~Gate!Clears({"products"}, page.path)
    <3>1. UNCHANGED <<entry, why>>
      BY <2>1, <2>3 DEF Gate!Clear
    <3>2. Gate!TypeOK' /\ GateCache'
      BY <1>2, <2>1, <3>1 DEF Gate!TypeOK, GateCache
    <3>3. Gate!ClearPending => Gate!ClearPending'
      BY <1>2, <2>3 DEF Gate!ClearPending
    <3> QED BY <2>1, <3>1, <3>2, <3>3 DEF Gate!StaleIsExplained, Gate!Stale
  <2> QED BY <2>2, <2>3
<1>5. CASE Gate!ConsumerClearFails
  BY <1>1, <1>2, <1>5
     DEF Gate!ConsumerClearFails, Gate!TypeOK, GateCache, Gate!StaleIsExplained, Gate!Stale
<1> HIDE DEF GateInv
<1> QED BY <1>3, <1>4, <1>5 DEF Gate!Consume

\* The cache's invariant holds while any part runs.
THEOREM GateInductive == Spec => []GateInv
<1>1. Init => GateInv
  BY GateStart DEF Init
<1>2. ASSUME GateInv, [Next]_allVars
      PROVE  GateInv'
  <2>1. CASE UNCHANGED gatewayVars
    BY <1>2, <2>1, GateStays
  <2>2. CASE Gate!Next
    BY <1>2, <2>2, GateRead, GateWrite, GateConsume DEF Gate!Next
  <2> QED BY <1>2, <2>1, <2>2 DEF Next, Synchronise, Cache, Wishing, Shopping, Notify,
         Generate, Route, Operate, allVars
<1> QED BY <1>1, <1>2, PTL DEF Spec

\* For every page, route and interleaving of reads, commits and clearings: a
\* cached answer that is out of date is about to be cleared or has one of the
\* four named reasons.
THEOREM StaleExplained == Spec => []StaleIsExplained
<1>1. GateInv => StaleIsExplained
  BY DEF GateInv, StaleIsExplained
<1> QED BY <1>1, GateInductive, PTL

-----------------------------------------------------------------------------
(* Image jobs and their quota.                                              *)

Counted == {q \in Generations : request[q].step # "new"}

JobTypes ==
  /\ job \in [Generations -> {"none", "pending", "running"} \cup Images!Ended]
  /\ jobTask \in [Generations -> {"none", "queued", "running", "acked"}]
  /\ browser \in [Generations -> {"none", "polling", "image", "error", "timeout"}]
  /\ unwritten \subseteq Generations
  /\ jobFaults \in 0..LiveFaults

QuotaTypes ==
  /\ counter \in [count : Nat, ttl : {"none", "running"}, window : 1..MaxWindows + 1]
  /\ request \in [Generations -> [step : Images!Steps, count : Nat, window : 0..MaxWindows + 1]]
  /\ counter.count <= Cardinality(Counted)

\* The place a request took in its window: the counter has passed it, and those
\* that were let through took one of the first.
Place(q) ==
  /\ request[q].count <= Cardinality(Generations)
  /\ request[q].step # "new" =>
       /\ request[q].count >= 1 /\ request[q].window \in 1..counter.window
       /\ request[q].window = counter.window => request[q].count <= counter.count
  /\ request[q].step \in {"accepted", "stored", "answered"} => request[q].count <= Limit
  /\ Images!CountedIn(q) /\ request[q].window = counter.window => counter.ttl = "running"

\* No two requests took one place of a window.
Places ==
  \A p, q \in Counted :
    p # q /\ request[p].window = request[q].window => request[p].count # request[q].count

QuotaInv == QuotaTypes /\ (\A q \in Generations : Place(q)) /\ Places

ImagesInv == JobTypes /\ QuotaInv

\* Constants and cardinalities of the quota.
LEMMA QuotaFacts ==
  ASSUME NEW S \in SUBSET Generations
  PROVE  /\ Limit \in Nat /\ MaxWindows \in Nat /\ LiveFaults \in Nat
         /\ IsFiniteSet(S) /\ Cardinality(S) \in Nat
         /\ Cardinality(S) <= Cardinality(Generations) /\ Cardinality(Generations) \in Nat
BY BackOfficeAssumption, FS_Subset, FS_CardinalityType DEF BackOfficeAssumption

\* Jobs that are not touched keep their invariant.
LEMMA ImagesStay ==
  ASSUME ImagesInv, UNCHANGED imageVars
  PROVE  ImagesInv'
BY DEF ImagesInv, JobTypes, QuotaInv, QuotaTypes, Counted, Place, Places, Images!CountedIn,
   imageVars

\* No request has been counted yet.
LEMMA ImagesStart ==
  ASSUME Images!Init
  PROVE  ImagesInv
<1>1. /\ Limit \in Nat /\ MaxWindows \in Nat /\ LiveFaults \in Nat
      /\ Cardinality(Counted) \in Nat /\ Cardinality(Generations) \in Nat
  BY QuotaFacts DEF Counted
<1>2. JobTypes
  BY <1>1 DEF Images!Init, JobTypes
<1>3. /\ counter \in [count : Nat, ttl : {"none", "running"}, window : 1..MaxWindows + 1]
      /\ request \in [Generations -> [step : Images!Steps, count : Nat,
                                      window : 0..MaxWindows + 1]]
  BY <1>1 DEF Images!Init, Images!Steps
<1>4. \A q \in Generations : request[q].step = "new" /\ request[q].count = 0
  BY DEF Images!Init
<1>5. QuotaTypes
  BY <1>1, <1>3 DEF QuotaTypes, Images!Init
<1>6. \A q \in Generations : Place(q)
  BY <1>1, <1>4 DEF Place, Images!CountedIn
<1>7. Places
  BY <1>4 DEF Places, Counted
<1> QED BY <1>2, <1>5, <1>6, <1>7 DEF ImagesInv, QuotaInv

\* INCR gives the next place of the window to a request that had none.
LEMMA QuotaIncr ==
  ASSUME ImagesInv, NEW q \in Generations, Images!Incr(q)
  PROVE  ImagesInv'
<1>1. /\ Limit \in Nat /\ MaxWindows \in Nat /\ IsFiniteSet(Counted)
      /\ Cardinality(Counted) \in Nat /\ Cardinality(Generations) \in Nat
  BY QuotaFacts DEF Counted
<1>2. QuotaTypes /\ Places /\ \A p \in Generations : Place(p)
  BY DEF ImagesInv, QuotaInv
<1>3. /\ counter.count \in Nat /\ counter.window \in 1..MaxWindows + 1
      /\ counter.count <= Cardinality(Counted)
  BY <1>2 DEF QuotaTypes
<1>4. /\ request[q].step = "new" /\ counter' = [counter EXCEPT !.count = @ + 1]
      /\ request' = [request EXCEPT ![q] =
           [step |-> "counted", count |-> counter'.count, window |-> counter.window]]
      /\ UNCHANGED <<job, jobTask, browser, unwritten, jobFaults>>
  BY DEF Images!Incr
<1>5. /\ counter'.count = counter.count + 1 /\ counter'.window = counter.window
      /\ counter'.ttl = counter.ttl
      /\ counter' \in [count : Nat, ttl : {"none", "running"}, window : 1..MaxWindows + 1]
  BY <1>2, <1>3, <1>4 DEF QuotaTypes
<1>6. /\ request'[q].step = "counted" /\ request'[q].count = counter.count + 1
      /\ request'[q].window = counter.window
      /\ \A p \in Generations : p # q => request'[p] = request[p]
  BY <1>2, <1>4, <1>5 DEF QuotaTypes
<1>7. request' \in [Generations -> [step : Images!Steps, count : Nat,
                                    window : 0..MaxWindows + 1]]
  <2>1. [step |-> "counted", count |-> counter'.count, window |-> counter.window]
          \in [step : Images!Steps, count : Nat, window : 0..MaxWindows + 1]
    BY <1>1, <1>3, <1>5 DEF Images!Steps
  <2> QED BY <1>2, <1>4, <2>1 DEF QuotaTypes
<1>8. Counted' = Counted \cup {q} /\ q \notin Counted
  BY <1>4, <1>6 DEF Counted
<1>9. /\ Cardinality(Counted') = Cardinality(Counted) + 1
      /\ Cardinality(Counted') <= Cardinality(Generations)
  <2>1. Cardinality(Counted \cup {q}) = Cardinality(Counted) + 1
    BY <1>1, <1>8, FS_AddElement
  <2>2. Counted \cup {q} \in SUBSET Generations
    BY DEF Counted
  <2> QED BY <1>8, <2>1, <2>2, QuotaFacts
<1>10. QuotaTypes'
  BY <1>1, <1>3, <1>5, <1>7, <1>9 DEF QuotaTypes
<1>11. ASSUME NEW p \in Generations
       PROVE  Place(p)'
  <2>1. CASE p = q
    BY <1>1, <1>3, <1>5, <1>6, <1>9, <2>1 DEF Place, Images!CountedIn
  <2>2. CASE p # q
    <3>1. request[p].count \in Nat
      BY <1>2 DEF QuotaTypes
    <3> QED BY <1>2, <1>3, <1>5, <1>6, <2>2, <3>1 DEF Place, Images!CountedIn
  <2> QED BY <2>1, <2>2
<1>12. Places'
  <2>1. ASSUME NEW p \in Counted, request[p].window = counter.window
        PROVE  request[p].count # counter.count + 1
    <3>1. p \in Generations /\ request[p].step # "new" /\ request[p].count \in Nat
      BY <1>2 DEF Counted, QuotaTypes
    <3> QED BY <1>2, <1>3, <2>1, <3>1 DEF Place
  <2>2. \A p \in Counted : request'[p] = request[p]
    BY <1>6, <1>8 DEF Counted
  <2> QED BY <1>2, <1>6, <1>8, <2>1, <2>2 DEF Places
<1>13. JobTypes'
  BY <1>4 DEF ImagesInv, JobTypes
<1> QED BY <1>10, <1>11, <1>12, <1>13 DEF ImagesInv, QuotaInv

\* A later step of a request keeps its place; EXPIRE gives a window its end.
LEMMA QuotaStep ==
  ASSUME QuotaInv, NEW q \in Generations, request[q].step # "new", NEW to \in Images!Steps,
         request' = [request EXCEPT ![q].step = to], to # "new",
         \/ counter' = counter
         \/ counter' = [counter EXCEPT !.ttl = "running"],
         Images!CountedIn(q)' /\ request[q].window = counter.window =>
           Images!CountedIn(q) \/ counter'.ttl = "running",
         to \in {"accepted", "stored", "answered"} => request[q].count <= Limit
  PROVE  QuotaInv'
<1>1. QuotaTypes /\ Places /\ \A p \in Generations : Place(p)
  BY DEF QuotaInv
<1>2. /\ counter'.count = counter.count /\ counter'.window = counter.window
      /\ counter.ttl = "running" => counter'.ttl = "running"
      /\ counter' \in [count : Nat, ttl : {"none", "running"}, window : 1..MaxWindows + 1]
  BY <1>1 DEF QuotaTypes
<1>3. /\ request' \in [Generations -> [step : Images!Steps, count : Nat,
                                       window : 0..MaxWindows + 1]]
      /\ request'[q].step = to
      /\ \A p \in Generations : /\ request'[p].count = request[p].count
                                /\ request'[p].window = request[p].window
                                /\ p # q => request'[p].step = request[p].step
  BY <1>1 DEF QuotaTypes
<1>4. Counted' = Counted
  BY <1>3 DEF Counted
<1>5. QuotaTypes'
  BY <1>1, <1>2, <1>3, <1>4 DEF QuotaTypes
<1>6. ASSUME NEW p \in Generations
      PROVE  Place(p)'
  <2>1. CASE p = q
    BY <1>1, <1>2, <1>3, <2>1 DEF Place
  <2>2. CASE p # q
    BY <1>1, <1>2, <1>3, <2>2 DEF Place, Images!CountedIn
  <2> QED BY <2>1, <2>2
<1>7. Places'
  <2>1. \A p \in Counted : /\ request'[p].count = request[p].count
                           /\ request'[p].window = request[p].window
    BY <1>3 DEF Counted
  <2> QED BY <1>1, <1>4, <2>1 DEF Places
<1> QED BY <1>5, <1>6, <1>7 DEF QuotaInv

\* The steps of a request after its INCR.
LEMMA ImagesSubmit ==
  ASSUME ImagesInv, NEW q \in Generations, Images!Submit(q), ~Images!Incr(q)
  PROVE  ImagesInv'
<1>1. /\ QuotaInv /\ JobTypes /\ QuotaTypes /\ Place(q) /\ LiveFaults \in Nat
      /\ counter.ttl \in {"none", "running"} /\ counter.count \in Nat
      /\ request[q].count \in Nat /\ counter.window \in Nat
  BY QuotaFacts DEF ImagesInv, QuotaInv, QuotaTypes
<1>2. JobTypes'
  BY <1>1 DEF JobTypes, Images!Submit, Images!StartWindow, Images!Refuse, Images!Accept,
     Images!CreateJob, Images!QueueTask, Images!RequestLost, Images!Fault
<1>3. SUFFICES QuotaInv'
  BY <1>2, <1>3 DEF ImagesInv
<1>4. ASSUME NEW from, NEW to, Images!Step(q, from, to)
      PROVE  request[q].step = from /\ request' = [request EXCEPT ![q].step = to]
             /\ request'[q].step = to
  BY <1>1, <1>4 DEF Images!Step, QuotaTypes
<1>5. CASE Images!StartWindow(q)
  <2>1. /\ request[q].step = "counted" /\ request' = [request EXCEPT ![q].step = "repaired"]
        /\ counter' = IF counter.count > 0 /\ (request[q].count = 1 \/ counter.ttl = "none")
                      THEN [counter EXCEPT !.ttl = "running"] ELSE counter
    BY <1>4, <1>5 DEF Images!StartWindow
  <2>2. request[q].window = counter.window => counter'.ttl = "running"
    <3>1. request[q].window = counter.window => counter.count > 0
      BY <1>1, <2>1 DEF Place
    <3> QED BY <1>1, <2>1, <3>1 DEF QuotaTypes
  <2> QED BY <1>1, <2>1, <2>2, QuotaStep DEF Images!Steps
<1>6. CASE Images!Refuse(q)
  BY <1>1, <1>4, <1>6, QuotaStep DEF Images!Refuse, Images!Steps, Images!CountedIn
<1>7. CASE Images!Accept(q)
  BY <1>1, <1>4, <1>7, QuotaStep DEF Images!Accept, Images!Steps, Images!CountedIn
<1>8. CASE Images!CreateJob(q)
  BY <1>1, <1>4, <1>8, QuotaStep DEF Images!CreateJob, Images!Steps, Images!CountedIn, Place
<1>9. CASE Images!QueueTask(q)
  BY <1>1, <1>4, <1>9, QuotaStep DEF Images!QueueTask, Images!Steps, Images!CountedIn, Place
<1>10. CASE Images!RequestLost(q)
  <2>1. /\ request[q].step # "new" /\ counter' = counter
        /\ request' = [request EXCEPT ![q].step = "lost"] /\ request'[q].step = "lost"
    BY <1>1, <1>10 DEF Images!RequestLost, QuotaTypes
  <2> QED BY <1>1, <2>1, QuotaStep DEF Images!Steps, Images!CountedIn
<1> QED BY <1>5, <1>6, <1>7, <1>8, <1>9, <1>10 DEF Images!Submit

\* The worker and the browser leave the quota alone.
LEMMA ImagesWork ==
  ASSUME ImagesInv, NEW q \in Generations, Images!Worker(q) \/ Images!Browser(q)
  PROVE  ImagesInv'
<1>1. JobTypes /\ QuotaInv /\ LiveFaults \in Nat
  BY QuotaFacts DEF ImagesInv
<1>2. UNCHANGED <<counter, request>>
  BY DEF Images!Worker, Images!StartJob, Images!EndJob, Images!WriteFails,
     Images!WorkerCrashes, Images!JobExpires, Images!Browser, Images!Poll, Images!GiveUp
<1>3. QuotaInv'
  BY <1>1, <1>2 DEF QuotaInv, QuotaTypes, Counted, Place, Places, Images!CountedIn
<1>4. JobTypes'
  <2> USE <1>1 DEF JobTypes, Images!Ended, Images!Fault
  <2>1. CASE Images!StartJob(q)
    BY <2>1 DEF Images!StartJob
  <2>2. CASE Images!EndJob(q)
    BY <2>2 DEF Images!EndJob
  <2>3. CASE Images!WriteFails(q)
    BY <2>3 DEF Images!WriteFails
  <2>4. CASE Images!WorkerCrashes(q)
    BY <2>4 DEF Images!WorkerCrashes
  <2>5. CASE Images!JobExpires(q)
    BY <2>5 DEF Images!JobExpires
  <2>6. CASE Images!Browser(q)
    BY <2>6 DEF Images!Browser, Images!Poll, Images!GiveUp
  <2> QED BY <2>1, <2>2, <2>3, <2>4, <2>5, <2>6 DEF Images!Worker
<1> QED BY <1>3, <1>4 DEF ImagesInv

\* A new window has admitted nobody.
LEMMA ImagesWindow ==
  ASSUME ImagesInv, Images!WindowEnds
  PROVE  ImagesInv'
<1>1. QuotaTypes /\ Places /\ (\A p \in Generations : Place(p)) /\ MaxWindows \in Nat
      /\ Cardinality(Counted) \in Nat
  BY QuotaFacts DEF ImagesInv, QuotaInv, Counted
<1>2. /\ counter' = [count |-> 0, ttl |-> "none", window |-> counter.window + 1]
      /\ counter.window <= MaxWindows
      /\ UNCHANGED <<request, job, jobTask, browser, unwritten, jobFaults>>
  BY DEF Images!WindowEnds
<1>3. counter.window \in 1..MaxWindows + 1
  BY <1>1 DEF QuotaTypes
<1>4. /\ counter'.window = counter.window + 1 /\ counter'.count = 0
      /\ counter' \in [count : Nat, ttl : {"none", "running"}, window : 1..MaxWindows + 1]
  BY <1>1, <1>2, <1>3
<1>5. QuotaTypes'
  BY <1>1, <1>2, <1>4 DEF QuotaTypes, Counted
<1>6. ASSUME NEW p \in Generations
      PROVE  Place(p)'
  BY <1>1, <1>2, <1>3, <1>4 DEF Place, Images!CountedIn
<1>7. Places' /\ JobTypes'
  BY <1>1, <1>2 DEF Places, Counted, ImagesInv, JobTypes
<1> QED BY <1>5, <1>6, <1>7 DEF ImagesInv, QuotaInv

\* The quota's invariant holds while any part runs.
THEOREM ImagesInductive == Spec => []ImagesInv
<1>1. Init => ImagesInv
  BY ImagesStart DEF Init
<1>2. ASSUME ImagesInv, [Next]_allVars
      PROVE  ImagesInv'
  <2>1. CASE UNCHANGED imageVars
    BY <1>2, <2>1, ImagesStay
  <2>2. CASE Images!Next
    <3>1. ASSUME NEW q \in Generations, Images!Submit(q)
          PROVE  ImagesInv'
      BY <1>2, <3>1, QuotaIncr, ImagesSubmit
    <3>2. ASSUME NEW q \in Generations, Images!Worker(q) \/ Images!Browser(q)
          PROVE  ImagesInv'
      BY <1>2, <3>2, ImagesWork
    <3> QED BY <1>2, <2>2, <3>1, <3>2, ImagesWindow DEF Images!Next
  <2> QED BY <1>2, <2>1, <2>2 DEF Next, Synchronise, Cache, Wishing, Shopping, Notify,
         Generate, Route, Operate, allVars
<1> QED BY <1>1, <1>2, PTL DEF Spec

\* A part's instance of FiniteSets defines the same cardinality.
LEMMA SameCardinality ==
  ASSUME NEW S
  PROVE  /\ Images!Cardinality(S) = Cardinality(S) /\ Wish!Cardinality(S) = Cardinality(S)
         /\ Basket!Cardinality(S) = Cardinality(S) /\ Wires!Cardinality(S) = Cardinality(S)
         /\ Sync!Cardinality(S) = Cardinality(S)
BY DEF Images!Cardinality, Wish!Cardinality, Basket!Cardinality, Wires!Cardinality,
   Sync!Cardinality, Cardinality

\* The admitted requests of a window took different places, each among the
\* first Limit: there are no more of them than Limit, and the window they were
\* counted in has its expiry.
THEOREM QuotaAlwaysHolds == Spec => []QuotaHolds
<1>1. ASSUME ImagesInv, NEW w \in 1..MaxWindows + 1
      PROVE  Cardinality({q \in Generations :
                request[q].step \in {"accepted", "stored", "answered"} /\ request[q].window = w})
               <= Limit
  <2> DEFINE Admitted == {q \in Generations :
                request[q].step \in {"accepted", "stored", "answered"} /\ request[q].window = w}
  <2>1. Admitted \in SUBSET Generations /\ Admitted \subseteq Counted
    BY DEF Counted
  <2>2. \A q \in Admitted : request[q].count \in 1..Limit
    BY <1>1, QuotaFacts DEF ImagesInv, QuotaInv, QuotaTypes, Place
  <2>3. \A p, q \in Admitted : p # q => request[p].count # request[q].count
    BY <1>1, <2>1 DEF ImagesInv, QuotaInv, Places
  <2> HIDE DEF Admitted
  <2>4. /\ IsFiniteSet(Admitted) /\ Cardinality(Admitted) \in Nat /\ Limit \in Nat
    BY <2>1, QuotaFacts
  <2>5. IsFiniteSet(1..Limit) /\ Cardinality(1..Limit) = Limit
    BY <2>4, BackOfficeAssumption, FS_Interval DEF BackOfficeAssumption
  <2>6. ASSUME Limit < Cardinality(Admitted)
        PROVE  FALSE
    <3> DEFINE place == [q \in Admitted |-> request[q].count]
    <3>1. place \in [Admitted -> 1..Limit]
      BY <2>2
    <3>2. \A q \in Admitted : place[q] = request[q].count
      OBVIOUS
    <3> HIDE DEF place
    <3>3. \E p, q \in Admitted : p # q /\ place[p] = place[q]
      BY <2>4, <2>5, <2>6, <3>1, FS_PigeonHole
    <3> QED BY <2>3, <3>2, <3>3
  <2>7. Cardinality(Admitted) <= Limit
    BY <2>4, <2>6
  <2> QED BY <2>7 DEF Admitted
<1>2. ASSUME ImagesInv, NEW q \in Generations, Images!CountedIn(q),
             request[q].window = counter.window
      PROVE  counter.ttl = "running"
  BY <1>2 DEF ImagesInv, QuotaInv, Place
<1>3. ImagesInv => QuotaHolds
  <2> SUFFICES ASSUME ImagesInv
               PROVE  Images!QuotaHolds
    BY DEF QuotaHolds
  <2>1. \A w \in 1..MaxWindows + 1 :
          Cardinality({q \in Generations :
            request[q].step \in {"accepted", "stored", "answered"} /\ request[q].window = w})
          <= Limit
    BY <1>1
  <2>2. (\E q \in Generations : Images!CountedIn(q) /\ request[q].window = counter.window)
          => counter.ttl = "running"
    BY <1>2
  <2> QED BY <2>1, <2>2, SameCardinality DEF Images!QuotaHolds
<1> QED BY <1>3, ImagesInductive, PTL

-----------------------------------------------------------------------------
(* The supplier synchronisation.                                            *)

Inserting(s) == starter[s].step = "insert"
Fetching(s) == starter[s].step = "fetch"

\* A start time is given out once: to a call that is about to insert its run,
\* then to the run.
RunTimes ==
  /\ \A r \in 1..Len(runs) : runs[r].at \in 1..clock
  /\ \A r, q \in 1..Len(runs) : r # q => runs[r].at # runs[q].at
  /\ \A s \in Starters : Inserting(s) => /\ starter[s].at \in 1..clock
                                         /\ \A r \in 1..Len(runs) : runs[r].at # starter[s].at
  /\ \A s, t \in Starters : s # t /\ Inserting(s) /\ Inserting(t) =>
                              starter[s].at # starter[t].at

\* A call that fetches has a run of its own, still without batches.
RunFetches ==
  /\ \A s \in Starters : Fetching(s) =>
       /\ starter[s].run \in 1..Len(runs)
       /\ runs[starter[s].run].total = 0 /\ runs[starter[s].run].status = "running"
  /\ \A s, t \in Starters : s # t /\ Fetching(s) /\ Fetching(t) =>
                              starter[s].run # starter[t].run

\* The batches of a run are those its fetch announced.
RunBatches ==
  \A r \in Sync!RunIds, b \in Sync!Batches :
    /\ batch[r][b] # "none" <=> r \in 1..Len(runs) /\ b <= runs[r].total
    /\ report[r][b] # "none" => batch[r][b] = "imported"

\* A run counts each imported batch once.
RunCount(r) ==
  /\ \A b \in runs[r].acked : batch[r][b] = "imported"
  /\ runs[r].processed = Cardinality(runs[r].acked)
  /\ runs[r].status = "completed" => runs[r].processed >= runs[r].total

RunCounts == \A r \in 1..Len(runs) : RunCount(r)

SyncInv == Sync!TypeOK /\ RunTimes /\ RunFetches /\ RunBatches /\ RunCounts

\* A synchronisation that is not touched keeps its invariant.
LEMMA SyncStays ==
  ASSUME SyncInv, UNCHANGED syncVars
  PROVE  SyncInv'
<1> USE DEF syncVars, SyncInv
<1>1. Sync!TypeOK'
  BY DEF Sync!TypeOK
<1>2. RunTimes' /\ RunFetches'
  BY DEF RunTimes, RunFetches, Inserting, Fetching
<1>3. RunBatches' /\ RunCounts'
  BY DEF RunBatches, RunCounts, RunCount
<1> QED BY <1>1, <1>2, <1>3

\* Nothing has been run yet.
LEMMA SyncStart ==
  ASSUME Sync!Init
  PROVE  SyncInv
<1>1. MaxRuns \in Nat /\ MaxBatches \in Nat /\ LiveFaults \in Nat
  BY BackOfficeAssumption DEF BackOfficeAssumption
<1>2. Len(runs) = 0 /\ \A s \in Starters : starter[s].step = "idle"
  BY DEF Sync!Init, Sync!Resting
<1>3. /\ starter \in [Starters -> [step : {"idle", "insert", "fetch"}, at : 0..MaxRuns,
                                   run : 0..MaxRuns]]
  BY <1>1 DEF Sync!Init, Sync!Resting
<1>4. Sync!TypeOK
  BY <1>1, <1>3 DEF Sync!Init, Sync!TypeOK
<1>5. RunTimes /\ RunFetches
  BY <1>2 DEF RunTimes, RunFetches, Inserting, Fetching
<1>6. RunBatches /\ RunCounts
  BY <1>2 DEF RunBatches, RunCounts, Sync!Init
<1> QED BY <1>4, <1>5, <1>6 DEF SyncInv

\* What the types say of the runs and of the batches.
LEMMA SyncFacts ==
  ASSUME SyncInv
  PROVE  /\ MaxRuns \in Nat /\ MaxBatches \in Nat /\ LiveFaults \in Nat
         /\ runs \in Seq(Sync!Rows) /\ Len(runs) \in Nat /\ Len(runs) <= MaxRuns
         /\ DOMAIN runs = 1..Len(runs)
         /\ clock \in Nat /\ clock <= MaxRuns /\ syncFaults \in 0..LiveFaults
         /\ \A r \in 1..Len(runs) :
              /\ r \in Sync!RunIds /\ runs[r] \in Sync!Rows
              /\ runs[r].total \in Nat /\ runs[r].total <= MaxBatches
              /\ runs[r].processed \in Nat
              /\ runs[r].acked \in SUBSET Sync!Batches
         /\ Sync!RunIds = 1..MaxRuns /\ Sync!Batches = 1..MaxBatches
<1>1. MaxRuns \in Nat /\ MaxBatches \in Nat /\ LiveFaults \in Nat
  BY BackOfficeAssumption DEF BackOfficeAssumption
<1>2. runs \in Seq(Sync!Rows) /\ Len(runs) <= MaxRuns /\ clock \in 0..MaxRuns
      /\ syncFaults \in 0..LiveFaults
  BY DEF SyncInv, Sync!TypeOK
<1>3. Len(runs) \in Nat /\ DOMAIN runs = 1..Len(runs)
      /\ \A r \in 1..Len(runs) : runs[r] \in Sync!Rows
  BY <1>2, LenProperties, ElementOfSeq
<1>4. ASSUME NEW r \in 1..Len(runs)
      PROVE  /\ r \in Sync!RunIds
             /\ runs[r].total \in Nat /\ runs[r].total <= MaxBatches
             /\ runs[r].processed \in Nat
             /\ runs[r].acked \in SUBSET Sync!Batches
  BY <1>1, <1>2, <1>3 DEF Sync!Rows, Sync!RunIds
<1> QED BY <1>1, <1>2, <1>3, <1>4 DEF Sync!RunIds, Sync!Batches

\* A call that passed the first check takes the time.
LEMMA SyncCheck ==
  ASSUME SyncInv, NEW s \in Starters, Sync!Check(s)
  PROVE  SyncInv'
<1>1. /\ MaxRuns \in Nat /\ clock \in Nat /\ clock <= MaxRuns /\ Len(runs) \in Nat
  BY SyncFacts
<1>2. /\ Sync!TypeOK /\ RunTimes /\ RunFetches /\ RunBatches /\ RunCounts
  BY DEF SyncInv
<1> DEFINE Started == [Sync!Resting EXCEPT !.step = "insert", !.at = clock']
<1>3. /\ clock < MaxRuns /\ clock' = clock + 1
      /\ starter' = [starter EXCEPT ![s] = Started]
      /\ UNCHANGED <<runs, batch, report, stuck, syncFaults>>
  BY DEF Sync!Check
<1>4. /\ starter' \in [Starters -> [step : {"idle", "insert", "fetch"}, at : 0..MaxRuns,
                                    run : 0..MaxRuns]]
      /\ starter'[s].step = "insert" /\ starter'[s].at = clock + 1
      /\ \A t \in Starters : t # s => starter'[t] = starter[t]
  <2>1. Sync!Resting \in [step : {"idle", "insert", "fetch"}, at : 0..MaxRuns, run : 0..MaxRuns]
    BY <1>1 DEF Sync!Resting
  <2>2. clock' \in 0..MaxRuns
    BY <1>1, <1>3
  <2>3. /\ Started \in [step : {"idle", "insert", "fetch"}, at : 0..MaxRuns, run : 0..MaxRuns]
        /\ Started.step = "insert" /\ Started.at = clock'
    BY <2>1, <2>2
  <2> HIDE DEF Started
  <2> QED BY <1>2, <1>3, <2>3 DEF Sync!TypeOK
<1>5. Sync!TypeOK'
  BY <1>1, <1>2, <1>3, <1>4 DEF Sync!TypeOK
<1>6. RunTimes'
  <2>1. \A n \in 1..clock : n \in 1..clock' /\ n # clock + 1
    BY <1>1, <1>3
  <2>2. clock + 1 \in 1..clock'
    BY <1>1, <1>3
  <2>3. /\ starter'[s].at = clock + 1
        /\ \A t \in Starters : t # s => starter'[t].at = starter[t].at
                                        /\ (Inserting(t)' <=> Inserting(t))
    BY <1>4 DEF Inserting
  <2>4. \A r \in 1..Len(runs') : runs'[r].at \in 1..clock'
    BY <1>2, <1>3, <2>1 DEF RunTimes
  <2>5. \A r, q \in 1..Len(runs') : r # q => runs'[r].at # runs'[q].at
    BY <1>2, <1>3 DEF RunTimes
  <2>6. ASSUME NEW t \in Starters, Inserting(t)'
        PROVE  starter'[t].at \in 1..clock' /\ \A r \in 1..Len(runs') : runs'[r].at # starter'[t].at
    BY <1>2, <1>3, <2>1, <2>2, <2>3, <2>6 DEF RunTimes
  <2>7. ASSUME NEW t \in Starters, NEW u \in Starters, t # u, Inserting(t)', Inserting(u)'
        PROVE  starter'[t].at # starter'[u].at
    BY <1>2, <1>3, <2>1, <2>3, <2>7 DEF RunTimes
  <2> QED BY <2>4, <2>5, <2>6, <2>7 DEF RunTimes
<1>7. RunFetches'
  <2>1. ~Fetching(s)' /\ \A t \in Starters : t # s => starter'[t].run = starter[t].run
                                                      /\ (Fetching(t)' <=> Fetching(t))
    BY <1>4 DEF Fetching
  <2> QED BY <1>2, <1>3, <2>1 DEF RunFetches
<1>8. RunBatches' /\ RunCounts'
  BY <1>2, <1>3 DEF RunBatches, RunCounts, RunCount
<1> QED BY <1>5, <1>6, <1>7, <1>8 DEF SyncInv

\* A call that is over, its run and its batches left as they were.
LEMMA SyncOver ==
  ASSUME SyncInv, NEW s \in Starters, starter' = [starter EXCEPT ![s] = Sync!Resting],
         UNCHANGED <<runs, clock, batch, report>>,
         stuck' \subseteq Sync!RunIds, syncFaults' \in 0..LiveFaults
  PROVE  SyncInv'
<1>1. Sync!TypeOK /\ RunTimes /\ RunFetches /\ RunBatches /\ RunCounts /\ MaxRuns \in Nat
  BY SyncFacts DEF SyncInv
<1>2. /\ starter' \in [Starters -> [step : {"idle", "insert", "fetch"}, at : 0..MaxRuns,
                                    run : 0..MaxRuns]]
      /\ ~Inserting(s)' /\ ~Fetching(s)'
      /\ \A t \in Starters : t # s => starter'[t] = starter[t]
  BY <1>1 DEF Sync!TypeOK, Sync!Resting, Inserting, Fetching
<1>3. \A t \in Starters : /\ Inserting(t)' => Inserting(t) /\ starter'[t].at = starter[t].at
                          /\ Fetching(t)' => Fetching(t) /\ starter'[t].run = starter[t].run
  BY <1>2 DEF Inserting, Fetching
<1>4. Sync!TypeOK'
  BY <1>1, <1>2 DEF Sync!TypeOK
<1>5. RunTimes' /\ RunFetches'
  BY <1>1, <1>3 DEF RunTimes, RunFetches
<1>6. RunBatches' /\ RunCounts'
  BY <1>1 DEF RunBatches, RunCounts, RunCount
<1> QED BY <1>4, <1>5, <1>6 DEF SyncInv

\* The numbers up to k are k.
LEMMA UpTo ==
  ASSUME NEW k \in Nat
  PROVE  IsFiniteSet(1..k) /\ Cardinality(1..k) = k
BY FS_Interval

\* A function on the numbers up to k is a sequence of that length.
LEMMA FunctionIsSeq ==
  ASSUME NEW S, NEW k \in Nat, NEW f \in [1..k -> S]
  PROVE  f \in Seq(S) /\ Len(f) = k
<1>1. f \in Seq(S)
  BY SeqDef
<1>2. Len(f) \in Nat /\ DOMAIN f = 1..Len(f) /\ DOMAIN f = 1..k
  BY <1>1, LenProperties
<1> QED BY <1>1, <1>2

\* A run is inserted with its call's time; there are no more runs than times.
LEMMA SyncInsert ==
  ASSUME SyncInv, NEW s \in Starters, Sync!InsertRun(s)
  PROVE  SyncInv'
<1>1. /\ MaxRuns \in Nat /\ clock \in Nat /\ clock <= MaxRuns /\ Len(runs) \in Nat
      /\ Len(runs) <= MaxRuns
      /\ runs \in Seq(Sync!Rows) /\ DOMAIN runs = 1..Len(runs)
      /\ Sync!RunIds = 1..MaxRuns /\ Sync!Batches = 1..MaxBatches /\ MaxBatches \in Nat
      /\ LiveFaults \in Nat
  BY SyncFacts
<1>2. /\ Sync!TypeOK /\ RunTimes /\ RunFetches /\ RunBatches /\ RunCounts
  BY DEF SyncInv
<1>3. CASE starter' = [starter EXCEPT ![s] = Sync!Resting] /\ UNCHANGED runs
  <2>1. UNCHANGED <<clock, batch, report, stuck, syncFaults>>
    BY DEF Sync!InsertRun
  <2> QED BY <1>2, <1>3, <2>1, SyncOver DEF Sync!TypeOK
<1>4. CASE /\ runs' = Append(runs, Sync!NewRun(s))
           /\ starter' = [starter EXCEPT ![s].step = "fetch", ![s].run = Len(runs')]
  <2>0. PICK n \in Nat : n = Len(runs) + 1
    BY <1>1
  <2>1. /\ UNCHANGED <<clock, batch, report, stuck, syncFaults>> /\ Inserting(s)
    BY DEF Sync!InsertRun, Inserting
  <2>2. /\ starter[s].at \in 1..clock
        /\ \A r \in 1..Len(runs) : runs[r].at # starter[s].at
    BY <1>2, <2>1 DEF RunTimes
  <2>3. /\ Sync!NewRun(s) \in Sync!Rows
        /\ Sync!NewRun(s).at = starter[s].at /\ Sync!NewRun(s).total = 0
        /\ Sync!NewRun(s).status = "running" /\ Sync!NewRun(s).processed = 0
        /\ Sync!NewRun(s).acked = {}
    BY <1>1, <2>2 DEF Sync!NewRun, Sync!Rows, Sync!ACTIVE_STATUSES
  <2>4. /\ runs' \in Seq(Sync!Rows) /\ Len(runs') = n
        /\ runs'[n] = Sync!NewRun(s)
        /\ \A r \in 1..Len(runs) : runs'[r] = runs[r]
    BY <1>1, <1>4, <2>0, <2>3, AppendProperties
  <2>5. \A r \in 1..n : r \in 1..Len(runs) \/ r = n
    BY <1>1, <2>0
  <2>6. /\ n \in 1..n /\ n \notin 1..Len(runs) /\ \A r \in 1..Len(runs) : r \in 1..n
    BY <1>1, <2>0
  <2>7. n <= clock
    <3>1. \A r \in 1..n : runs'[r].at \in 1..clock
      BY <1>2, <2>2, <2>3, <2>4, <2>5 DEF RunTimes
    <3>2. \A r, q \in 1..n : r # q => runs'[r].at # runs'[q].at
      BY <1>2, <2>2, <2>3, <2>4, <2>5 DEF RunTimes
    <3> DEFINE time == [r \in 1..n |-> runs'[r].at]
    <3>3. time \in [1..n -> 1..clock] /\ \A r \in 1..n : time[r] = runs'[r].at
      BY <3>1
    <3> HIDE DEF time
    <3>4. /\ IsFiniteSet(1..n) /\ Cardinality(1..n) = n
          /\ IsFiniteSet(1..clock) /\ Cardinality(1..clock) = clock
      BY <1>1, UpTo
    <3>5. ASSUME clock < n
          PROVE  FALSE
      <4>0. Cardinality(1..clock) < Cardinality(1..n)
        BY <3>4, <3>5
      <4>1. PICK at : at = time
        OBVIOUS
      <4>2. at \in [1..n -> 1..clock]
        BY <3>3, <4>1
      <4>3. \E r, q \in 1..n : r # q /\ at[r] = at[q]
        BY ONLY <3>4, <4>0, <4>2, FS_PigeonHole
      <4> QED BY <3>2, <3>3, <4>1, <4>3
    <3> QED BY <1>1, <3>5
  <2>8. n \in 0..MaxRuns /\ n \in Sync!RunIds /\ n <= MaxRuns
    BY <1>1, <2>0, <2>7
  <2>9. /\ starter' \in [Starters -> [step : {"idle", "insert", "fetch"}, at : 0..MaxRuns,
                                      run : 0..MaxRuns]]
        /\ starter'[s].step = "fetch" /\ starter'[s].run = n
        /\ \A t \in Starters : t # s => starter'[t] = starter[t]
    BY <1>2, <1>4, <2>4, <2>8 DEF Sync!TypeOK
  <2>10. Sync!TypeOK'
    BY <1>2, <2>1, <2>4, <2>8, <2>9 DEF Sync!TypeOK
  <2>11. \A t \in Starters : t # s => /\ starter'[t] = starter[t]
                                      /\ Inserting(t)' <=> Inserting(t)
                                      /\ Fetching(t)' <=> Fetching(t)
    BY <2>9 DEF Inserting, Fetching
  <2>12. ~Inserting(s)'
    BY <2>9 DEF Inserting
  <2>13. RunTimes'
    <3>1. \A r \in 1..Len(runs') : runs'[r].at \in 1..clock'
      BY <1>2, <2>1, <2>2, <2>3, <2>4, <2>5 DEF RunTimes
    <3>2. \A r, q \in 1..Len(runs') : r # q => runs'[r].at # runs'[q].at
      BY <1>2, <2>2, <2>3, <2>4, <2>5 DEF RunTimes
    <3>3. ASSUME NEW t \in Starters, Inserting(t)'
          PROVE  /\ starter'[t].at \in 1..clock'
                 /\ \A r \in 1..Len(runs') : runs'[r].at # starter'[t].at
      <4>1. t # s /\ Inserting(t) /\ starter'[t] = starter[t]
        BY <2>11, <2>12, <3>3
      <4>2. starter[t].at # starter[s].at
        BY <1>2, <2>1, <4>1 DEF RunTimes
      <4> QED BY <1>2, <2>1, <2>3, <2>4, <2>5, <4>1, <4>2 DEF RunTimes
    <3>4. \A t, u \in Starters : t # u /\ Inserting(t)' /\ Inserting(u)' =>
                                   starter'[t].at # starter'[u].at
      BY <1>2, <2>11, <2>12 DEF RunTimes
    <3> QED BY <3>1, <3>2, <3>3, <3>4 DEF RunTimes
  <2>14. RunFetches'
    <3>1. ASSUME NEW t \in Starters, Fetching(t)'
          PROVE  /\ starter'[t].run \in 1..Len(runs')
                 /\ runs'[starter'[t].run].total = 0
                 /\ runs'[starter'[t].run].status = "running"
      BY <1>2, <2>3, <2>4, <2>6, <2>9, <2>11, <3>1 DEF RunFetches
    <3>2. \A t, u \in Starters : t # u /\ Fetching(t)' /\ Fetching(u)' =>
                                   starter'[t].run # starter'[u].run
      BY <1>2, <2>6, <2>9, <2>11 DEF RunFetches
    <3> QED BY <3>1, <3>2 DEF RunFetches
  <2>15. RunBatches'
    <3>1. \A b \in Sync!Batches : ~(b <= 0)
      BY <1>1
    <3> QED BY <1>2, <2>1, <2>3, <2>4, <2>5, <2>6, <3>1 DEF RunBatches
  <2>16. RunCounts'
    <3>1. ASSUME NEW r \in 1..Len(runs)
          PROVE  RunCount(r)'
      BY <1>2, <2>1, <2>4, <3>1 DEF RunCounts, RunCount
    <3>2. RunCount(n)'
      BY <2>3, <2>4, FS_EmptySet DEF RunCount
    <3> QED BY <2>4, <2>5, <3>1, <3>2 DEF RunCounts
  <2> QED BY <2>10, <2>13, <2>14, <2>15, <2>16 DEF SyncInv
<1> QED BY <1>3, <1>4 DEF Sync!InsertRun

\* A row whose fetch ended.
Fetched(old, n) == [old EXCEPT !.status = "awaiting_import", !.total = n]
Failed(old) == [old EXCEPT !.status = "failed"]

\* What the end of a fetch changes in its row.
LEMMA FetchedFacts ==
  ASSUME NEW x \in Sync!Rows
  PROVE  /\ \A n \in 0..MaxBatches :
              /\ Fetched(x, n) \in Sync!Rows
              /\ Fetched(x, n).status = "awaiting_import" /\ Fetched(x, n).total = n
              /\ Fetched(x, n).at = x.at /\ Fetched(x, n).processed = x.processed
              /\ Fetched(x, n).acked = x.acked
         /\ Failed(x) \in Sync!Rows
         /\ Failed(x).status = "failed" /\ Failed(x).total = x.total
         /\ Failed(x).at = x.at /\ Failed(x).processed = x.processed
         /\ Failed(x).acked = x.acked
BY DEF Fetched, Failed, Sync!Rows, Sync!ACTIVE_STATUSES

\* A fetch ends: its run, which no other call works on, leaves "running".
LEMMA SyncFetch ==
  ASSUME SyncInv, NEW s \in Starters, Sync!FetchSucceeds(s) \/ Sync!FetchFails(s)
  PROVE  SyncInv'
<1>1. /\ MaxRuns \in Nat /\ Len(runs) \in Nat /\ MaxBatches \in Nat
      /\ runs \in Seq(Sync!Rows) /\ Len(runs) <= MaxRuns
      /\ Sync!RunIds = 1..MaxRuns /\ Sync!Batches = 1..MaxBatches
      /\ \A q \in 1..Len(runs) : q \in Sync!RunIds /\ runs[q] \in Sync!Rows
      /\ runs \in [1..Len(runs) -> Sync!Rows]
  BY SyncFacts, LenProperties
<1>2. /\ Sync!TypeOK /\ RunTimes /\ RunFetches /\ RunBatches /\ RunCounts
  BY DEF SyncInv
<1>3. /\ Fetching(s) /\ starter' = [starter EXCEPT ![s] = Sync!Resting]
      /\ UNCHANGED <<clock, report, stuck, syncFaults>>
  BY DEF Sync!FetchSucceeds, Sync!FetchFails, Fetching
<1>4. PICK r \in 1..Len(runs) :
        /\ r = starter[s].run /\ runs[r].total = 0 /\ runs[r].status = "running"
        /\ \A t \in Starters : t # s /\ Fetching(t) => starter[t].run # r
  BY <1>2, <1>3 DEF RunFetches
<1>5. /\ batch \in [Sync!RunIds -> [Sync!Batches -> {"none", "queued", "imported", "dead"}]]
      /\ \A b \in Sync!Batches : batch[r][b] = "none" /\ report[r][b] = "none" /\ ~(b <= 0)
  BY <1>1, <1>2, <1>4 DEF RunBatches, Sync!TypeOK
<1>6. PICK n \in 0..MaxBatches, status \in {"awaiting_import", "failed"} :
        /\ runs' \in [1..Len(runs) -> Sync!Rows]
        /\ runs'[r].status = status /\ runs'[r].total = n
        /\ runs'[r].at = runs[r].at /\ runs'[r].processed = runs[r].processed
        /\ runs'[r].acked = runs[r].acked
        /\ \A q \in 1..Len(runs) : q # r => runs'[q] = runs[q]
        /\ batch' \in [Sync!RunIds -> [Sync!Batches -> {"none", "queued", "imported", "dead"}]]
        /\ \A b \in Sync!Batches : batch'[r][b] = IF b <= n THEN "queued" ELSE "none"
        /\ \A q \in Sync!RunIds : q # r => batch'[q] = batch[q]
  <2>1. CASE Sync!FetchSucceeds(s)
    <3>1. PICK n \in Sync!Batches :
            /\ runs' = [runs EXCEPT ![r].status = "awaiting_import", ![r].total = n]
            /\ batch' = [batch EXCEPT ![r] =
                 [b \in Sync!Batches |-> IF b <= n THEN "queued" ELSE "none"]]
      BY <1>4, <2>1 DEF Sync!FetchSucceeds
    <3>2. n \in 0..MaxBatches
      BY <1>1
    <3>3. /\ runs' \in [1..Len(runs) -> Sync!Rows]
          /\ runs'[r].status = "awaiting_import" /\ runs'[r].total = n
          /\ runs'[r].at = runs[r].at /\ runs'[r].processed = runs[r].processed
          /\ runs'[r].acked = runs[r].acked
          /\ \A q \in 1..Len(runs) : q # r => runs'[q] = runs[q]
      <4>1. runs' = [runs EXCEPT ![r] = Fetched(runs[r], n)]
        BY <1>1, <3>1 DEF Fetched
      <4>2. /\ Fetched(runs[r], n) \in Sync!Rows
            /\ Fetched(runs[r], n).status = "awaiting_import"
            /\ Fetched(runs[r], n).total = n /\ Fetched(runs[r], n).at = runs[r].at
            /\ Fetched(runs[r], n).processed = runs[r].processed
            /\ Fetched(runs[r], n).acked = runs[r].acked
        <5>1. runs[r] \in Sync!Rows
          BY <1>1, <1>4
        <5> QED BY <3>2, <5>1, FetchedFacts
      <4> QED BY <1>1, <1>4, <4>1, <4>2
    <3>4. /\ batch' \in [Sync!RunIds -> [Sync!Batches -> {"none", "queued", "imported", "dead"}]]
          /\ \A b \in Sync!Batches : batch'[r][b] = IF b <= n THEN "queued" ELSE "none"
          /\ \A q \in Sync!RunIds : q # r => batch'[q] = batch[q]
      BY <1>1, <1>4, <1>5, <3>1
    <3> QED BY <3>2, <3>3, <3>4
  <2>2. CASE Sync!FetchFails(s)
    <3>1. runs' = [runs EXCEPT ![r].status = "failed"] /\ batch' = batch
      BY <1>4, <2>2 DEF Sync!FetchFails, Sync!SetStatus
    <3>2. /\ runs' \in [1..Len(runs) -> Sync!Rows]
          /\ runs'[r].status = "failed" /\ runs'[r].total = 0
          /\ runs'[r].at = runs[r].at /\ runs'[r].processed = runs[r].processed
          /\ runs'[r].acked = runs[r].acked
          /\ \A q \in 1..Len(runs) : q # r => runs'[q] = runs[q]
      <4>1. runs' = [runs EXCEPT ![r] = Failed(runs[r])]
        BY <1>1, <3>1 DEF Failed
      <4> QED BY <1>1, <1>4, <4>1, FetchedFacts
    <3> QED BY <1>1, <1>5, <3>1, <3>2
  <2> QED BY <2>1, <2>2
<1>8. runs' \in Seq(Sync!Rows) /\ Len(runs') = Len(runs)
  BY <1>1, <1>6, FunctionIsSeq
<1>10. /\ starter' \in [Starters -> [step : {"idle", "insert", "fetch"}, at : 0..MaxRuns,
                                     run : 0..MaxRuns]]
       /\ ~Inserting(s)' /\ ~Fetching(s)'
       /\ \A t \in Starters : t # s => starter'[t] = starter[t]
  BY <1>1, <1>2, <1>3 DEF Sync!TypeOK, Sync!Resting, Inserting, Fetching
<1>11. \A t \in Starters : /\ Inserting(t)' => Inserting(t) /\ starter'[t].at = starter[t].at
                           /\ Fetching(t)' => t # s /\ Fetching(t) /\ starter'[t].run = starter[t].run
  BY <1>10 DEF Inserting, Fetching
<1>12. Sync!TypeOK'
  BY <1>1, <1>2, <1>3, <1>6, <1>8, <1>10 DEF Sync!TypeOK
<1>13. \A q \in 1..Len(runs) : runs'[q].at = runs[q].at
  BY <1>6
<1>14. RunTimes'
  BY <1>2, <1>3, <1>8, <1>11, <1>13 DEF RunTimes
<1>15. RunFetches'
  BY <1>2, <1>4, <1>6, <1>8, <1>11 DEF RunFetches
<1>17. RunBatches'
  <2>1. ASSUME NEW b \in Sync!Batches
        PROVE  /\ batch'[r][b] # "none" <=> r \in 1..Len(runs') /\ b <= runs'[r].total
               /\ report'[r][b] # "none" => batch'[r][b] = "imported"
    BY <1>3, <1>4, <1>5, <1>6, <1>8
  <2>2. ASSUME NEW q \in Sync!RunIds, q # r, NEW b \in Sync!Batches
        PROVE  /\ batch'[q][b] # "none" <=> q \in 1..Len(runs') /\ b <= runs'[q].total
               /\ report'[q][b] # "none" => batch'[q][b] = "imported"
    BY <1>2, <1>3, <1>6, <1>8, <2>2 DEF RunBatches
  <2> QED BY <2>1, <2>2 DEF RunBatches
<1>18. RunCounts'
  <2>1. RunCount(r)'
    <3>1. runs[r].acked = {}
      <4>1. \A b \in runs[r].acked : b \in Sync!Batches /\ batch[r][b] = "imported"
        BY <1>1, <1>2, <1>4, SyncFacts DEF RunCounts, RunCount
      <4> QED BY <1>5, <4>1
    <3>2. runs[r].processed = Cardinality(runs[r].acked)
      BY <1>2, <1>4 DEF RunCounts, RunCount
    <3>3. status # "completed"
      OBVIOUS
    <3> QED BY <1>6, <3>1, <3>2, <3>3 DEF RunCount
  <2>2. ASSUME NEW q \in 1..Len(runs), q # r
        PROVE  RunCount(q)'
    BY <1>1, <1>2, <1>6, <2>2 DEF RunCounts, RunCount
  <2> QED BY <1>8, <2>1, <2>2 DEF RunCounts
<1> QED BY <1>12, <1>14, <1>15, <1>17, <1>18 DEF SyncInv

\* A batch is imported, or refused: its report is new.
LEMMA SyncImport ==
  ASSUME SyncInv, NEW r \in Sync!RunIds, NEW b \in Sync!Batches, Sync!Import(r, b)
  PROVE  SyncInv'
<1>1. /\ MaxRuns \in Nat /\ LiveFaults \in Nat /\ syncFaults \in 0..LiveFaults
      /\ \A q \in 1..Len(runs) : q \in Sync!RunIds /\ runs[q].acked \in SUBSET Sync!Batches
  BY SyncFacts
<1>2. /\ Sync!TypeOK /\ RunTimes /\ RunFetches /\ RunBatches /\ RunCounts
  BY DEF SyncInv
<1>3. /\ UNCHANGED <<runs, starter, clock>> /\ batch[r][b] = "queued"
      /\ stuck' \subseteq Sync!RunIds /\ syncFaults' \in 0..LiveFaults
  BY <1>1, <1>2 DEF Sync!Import, Sync!ImportBatch, Sync!ImportRaises, Sync!Fault, Sync!TypeOK
<1>4. /\ batch' \in [Sync!RunIds -> [Sync!Batches -> {"none", "queued", "imported", "dead"}]]
      /\ report' \in [Sync!RunIds -> [Sync!Batches ->
           {"none", "queued", "claimed", "recorded", "done", "dead"}]]
      /\ batch'[r][b] # "none"
      /\ report'[r][b] # "none" => batch'[r][b] = "imported"
      /\ \A q \in Sync!RunIds, c \in Sync!Batches : q # r \/ c # b =>
           batch'[q][c] = batch[q][c] /\ report'[q][c] = report[q][c]
  <2>1. report[r][b] = "none"
    BY <1>2, <1>3 DEF RunBatches
  <2>2. CASE Sync!ImportBatch(r, b)
    BY <1>2, <2>1, <2>2 DEF Sync!ImportBatch, Sync!TypeOK
  <2>3. CASE Sync!ImportRaises(r, b)
    BY <1>2, <2>1, <2>3 DEF Sync!ImportRaises, Sync!TypeOK
  <2> QED BY <2>2, <2>3 DEF Sync!Import
<1>5. Sync!TypeOK'
  BY <1>2, <1>3, <1>4 DEF Sync!TypeOK
<1>6. RunTimes' /\ RunFetches'
  BY <1>2, <1>3 DEF RunTimes, RunFetches, Inserting, Fetching
<1>7. RunBatches'
  BY <1>2, <1>3, <1>4 DEF RunBatches
<1>8. ASSUME NEW q \in 1..Len(runs)
      PROVE  RunCount(q)'
  <2>1. ASSUME NEW c \in runs[q].acked
        PROVE  batch'[q][c] = "imported"
    <3>1. batch[q][c] = "imported" /\ c \in Sync!Batches /\ q \in Sync!RunIds
      BY <1>1, <1>2 DEF RunCounts, RunCount
    <3>2. q # r \/ c # b
      BY <1>3, <3>1
    <3> QED BY <1>4, <3>1, <3>2
  <2> QED BY <1>2, <1>3, <2>1 DEF RunCounts, RunCount
<1>9. RunCounts'
  BY <1>3, <1>8 DEF RunCounts
<1> QED BY <1>5, <1>6, <1>7, <1>9 DEF SyncInv

\* A row that counts one more of its batches.
LEMMA CountedFacts ==
  ASSUME NEW x \in Sync!Rows, NEW b \in Sync!Batches, b \notin x.acked,
         x.processed = Cardinality(x.acked)
  PROVE  /\ Sync!Counted(x, b) \in Sync!Rows
         /\ Sync!Counted(x, b).acked = x.acked \cup {b}
         /\ Sync!Counted(x, b).processed = Cardinality(x.acked \cup {b})
         /\ Sync!Counted(x, b).total = x.total /\ Sync!Counted(x, b).at = x.at
         /\ Sync!Counted(x, b).status = "completed" =>
              Sync!Counted(x, b).processed >= x.total
<1>1. MaxBatches \in Nat /\ Sync!Batches = 1..MaxBatches
  BY BackOfficeAssumption DEF BackOfficeAssumption, Sync!Batches
<1>2. /\ x.acked \in SUBSET Sync!Batches /\ x.total \in 0..MaxBatches
      /\ x.processed \in 0..MaxBatches
  BY DEF Sync!Rows
<1>3. IsFiniteSet(Sync!Batches) /\ Cardinality(Sync!Batches) = MaxBatches
  BY <1>1, UpTo
<1>4. IsFiniteSet(x.acked) /\ x.acked \cup {b} \in SUBSET Sync!Batches
  BY <1>2, <1>3, FS_Subset
<1>5. Cardinality(x.acked \cup {b}) = x.processed + 1
  BY <1>4, FS_AddElement
<1>6. Cardinality(x.acked \cup {b}) <= MaxBatches
  BY <1>3, <1>4, FS_Subset
<1>7. x.processed + 1 \in 0..MaxBatches
  BY <1>1, <1>2, <1>5, <1>6
<1> QED BY <1>2, <1>4, <1>5, <1>7 DEF Sync!Counted, Sync!Rows, Sync!ACTIVE_STATUSES

\* A report is delivered, counted, marked, lost or repeated: a batch that has a
\* report has been imported.
LEMMA SyncFeedback ==
  ASSUME SyncInv, NEW r \in Sync!RunIds, NEW b \in Sync!Batches, Sync!Feedback(r, b)
  PROVE  SyncInv'
<1>1. /\ MaxRuns \in Nat /\ MaxBatches \in Nat /\ Len(runs) \in Nat
      /\ LiveFaults \in Nat /\ syncFaults \in 0..LiveFaults
      /\ runs \in Seq(Sync!Rows) /\ Len(runs) <= MaxRuns
      /\ \A q \in 1..Len(runs) : runs[q] \in Sync!Rows
      /\ runs \in [1..Len(runs) -> Sync!Rows]
      /\ Sync!Batches = 1..MaxBatches
  BY SyncFacts, LenProperties
<1>2. /\ Sync!TypeOK /\ RunTimes /\ RunFetches /\ RunBatches /\ RunCounts
  BY DEF SyncInv
<1>3. /\ UNCHANGED <<starter, clock, batch>>
      /\ stuck' \subseteq Sync!RunIds /\ syncFaults' \in 0..LiveFaults
  BY <1>1, <1>2 DEF Sync!Feedback, Sync!ClaimReport, Sync!RecordReport, Sync!MarkReport,
       Sync!ReportRaises, Sync!ReportDropped, Sync!ReportRepeated, Sync!Fault, Sync!TypeOK
<1>4. PICK to \in {"queued", "claimed", "recorded", "done", "dead"} :
        report' = [report EXCEPT ![r][b] = to]
  BY DEF Sync!Feedback, Sync!ClaimReport, Sync!RecordReport, Sync!MarkReport,
         Sync!ReportRaises, Sync!ReportDropped, Sync!ReportRepeated, Sync!MoveReport
<1>5. report[r][b] # "none"
  BY DEF Sync!Feedback, Sync!ClaimReport, Sync!RecordReport, Sync!MarkReport,
         Sync!ReportRaises, Sync!ReportDropped, Sync!ReportRepeated
<1>6. batch[r][b] = "imported" /\ r \in 1..Len(runs) /\ b <= runs[r].total
  BY <1>2, <1>5 DEF RunBatches
<1>7. /\ runs' \in Seq(Sync!Rows) /\ Len(runs') = Len(runs)
      /\ \A q \in 1..Len(runs) : runs'[q] # runs[q] =>
           /\ q = r /\ runs'[q] = Sync!Counted(runs[q], b) /\ b \notin runs[q].acked
  <2>1. CASE UNCHANGED runs
    BY <1>1, <2>1
  <2>2. CASE b \notin runs[r].acked /\ runs' = [runs EXCEPT ![r] = Sync!Counted(@, b)]
    <3>1. runs[r] \in Sync!Rows /\ runs[r].processed = Cardinality(runs[r].acked)
      BY <1>1, <1>2, <1>6 DEF RunCounts, RunCount
    <3>2. Sync!Counted(runs[r], b) \in Sync!Rows
      BY <2>2, <3>1, CountedFacts
    <3>3. runs' \in [1..Len(runs) -> Sync!Rows]
      BY <1>1, <2>2, <3>2
    <3>4. runs' \in Seq(Sync!Rows) /\ Len(runs') = Len(runs)
      BY <1>1, <3>3, FunctionIsSeq
    <3> QED BY <1>1, <2>2, <3>4
  <2>3. UNCHANGED runs \/ (b \notin runs[r].acked /\ runs' = [runs EXCEPT ![r] = Sync!Counted(@, b)])
    BY DEF Sync!Feedback, Sync!ClaimReport, Sync!RecordReport, Sync!MarkReport,
           Sync!ReportRaises, Sync!ReportDropped, Sync!ReportRepeated
  <2> QED BY <2>1, <2>2, <2>3
<1>8. \A q \in 1..Len(runs) :
        /\ runs'[q].at = runs[q].at /\ runs'[q].total = runs[q].total
        /\ RunCount(q)'
  <2>1. ASSUME NEW q \in 1..Len(runs), runs'[q] = runs[q]
        PROVE  RunCount(q)'
    BY <1>2, <1>3, <2>1 DEF RunCounts, RunCount
  <2>2. ASSUME NEW q \in 1..Len(runs), runs'[q] # runs[q]
        PROVE  /\ runs'[q].at = runs[q].at /\ runs'[q].total = runs[q].total
               /\ RunCount(q)'
    <3>1. /\ q = r /\ runs'[q] = Sync!Counted(runs[q], b) /\ b \notin runs[q].acked
          /\ runs[q] \in Sync!Rows /\ runs[q].processed = Cardinality(runs[q].acked)
          /\ \A c \in runs[q].acked : batch[q][c] = "imported"
      BY <1>1, <1>2, <1>7, <2>2 DEF RunCounts, RunCount
    <3>2. /\ runs'[q].acked = runs[q].acked \cup {b}
          /\ runs'[q].processed = Cardinality(runs[q].acked \cup {b})
          /\ runs'[q].total = runs[q].total /\ runs'[q].at = runs[q].at
          /\ runs'[q].status = "completed" => runs'[q].processed >= runs[q].total
      BY <3>1, CountedFacts
    <3> QED BY <1>3, <1>6, <3>1, <3>2 DEF RunCount
  <2> QED BY <2>1, <2>2
<1>9. \A s \in Starters : Fetching(s) => starter[s].run # r
  <2>1. b > 0 /\ b \in Nat
    BY <1>1
  <2> QED BY <1>1, <1>2, <1>6, <2>1 DEF RunFetches
<1>10. Sync!TypeOK'
  <2>1. report' \in [Sync!RunIds -> [Sync!Batches ->
          {"none", "queued", "claimed", "recorded", "done", "dead"}]]
    BY <1>2, <1>4 DEF Sync!TypeOK
  <2> QED BY <1>1, <1>2, <1>3, <1>7, <2>1 DEF Sync!TypeOK
<1>11. RunTimes'
  BY <1>2, <1>3, <1>7, <1>8 DEF RunTimes, Inserting
<1>12. RunFetches'
  <2>1. ASSUME NEW s \in Starters, Fetching(s)'
        PROVE  /\ starter'[s].run \in 1..Len(runs')
               /\ runs'[starter'[s].run].total = 0
               /\ runs'[starter'[s].run].status = "running"
    <3>1. Fetching(s) /\ starter' = starter /\ starter[s].run \in 1..Len(runs)
          /\ starter[s].run # r
      BY <1>2, <1>3, <1>9, <2>1 DEF Fetching, RunFetches
    <3> QED BY <1>2, <1>7, <3>1 DEF RunFetches
  <2>2. \A s, t \in Starters : s # t /\ Fetching(s)' /\ Fetching(t)' =>
                                 starter'[s].run # starter'[t].run
    BY <1>2, <1>3 DEF RunFetches, Fetching
  <2> QED BY <2>1, <2>2 DEF RunFetches
<1>13. RunBatches'
  <2>1. \A q \in Sync!RunIds, c \in Sync!Batches :
          q # r \/ c # b => report'[q][c] = report[q][c]
    BY <1>2, <1>4 DEF Sync!TypeOK
  <2>2. ASSUME NEW q \in Sync!RunIds, NEW c \in Sync!Batches
        PROVE  /\ batch'[q][c] # "none" <=> q \in 1..Len(runs') /\ c <= runs'[q].total
               /\ report'[q][c] # "none" => batch'[q][c] = "imported"
    BY <1>2, <1>3, <1>6, <1>7, <1>8, <2>1 DEF RunBatches
  <2> QED BY <2>2 DEF RunBatches
<1>14. RunCounts'
  BY <1>7, <1>8 DEF RunCounts
<1> QED BY <1>10, <1>11, <1>12, <1>13, <1>14 DEF SyncInv

\* The synchronisation's invariant holds while any part runs.
THEOREM SyncInductive == Spec => []SyncInv
<1>1. Init => SyncInv
  BY SyncStart DEF Init
<1>2. ASSUME SyncInv, [Next]_allVars
      PROVE  SyncInv'
  <2>1. CASE UNCHANGED syncVars
    BY <1>2, <2>1, SyncStays
  <2>2. CASE Sync!Next
    <3>1. ASSUME NEW s \in Starters, Sync!Run(s)
          PROVE  SyncInv'
      <4>1. CASE Sync!CallLost(s)
        <5>1. /\ MaxRuns \in Nat /\ LiveFaults \in Nat /\ syncFaults \in 0..LiveFaults
              /\ starter \in [Starters ->
                   [step : {"idle", "insert", "fetch"}, at : 0..MaxRuns, run : 0..MaxRuns]]
              /\ stuck \subseteq Sync!RunIds
          BY <1>2, SyncFacts DEF SyncInv, Sync!TypeOK
        <5>2. starter[s].run \in Sync!RunIds
          BY <1>2, <4>1, SyncFacts DEF Sync!CallLost, SyncInv, RunFetches, Fetching
        <5>3. stuck' \subseteq Sync!RunIds /\ syncFaults' \in 0..LiveFaults
          BY <4>1, <5>1, <5>2 DEF Sync!CallLost, Sync!Fault
        <5> QED BY <1>2, <4>1, <5>3, SyncOver DEF Sync!CallLost
      <4> QED BY <1>2, <3>1, <4>1, SyncCheck, SyncInsert, SyncFetch DEF Sync!Run
    <3>2. ASSUME NEW r \in Sync!RunIds, NEW b \in Sync!Batches,
                 Sync!Import(r, b) \/ Sync!Feedback(r, b)
          PROVE  SyncInv'
      BY <1>2, <3>2, SyncImport, SyncFeedback
    <3> QED BY <2>2, <3>1, <3>2 DEF Sync!Next
  <2> QED BY <1>2, <2>1, <2>2 DEF Next, Synchronise, Cache, Wishing, Shopping, Notify,
         Generate, Route, Operate, allVars
<1> QED BY <1>1, <1>2, PTL DEF Spec

\* Each batch a run counted has been imported, and each was counted once: a run
\* that counted as many as it has counted them all, however often a report came.
THEOREM CompletedRunsSawAll == Spec => []CompletedSawEveryBatch
<1>1. ASSUME SyncInv, NEW r \in 1..Len(runs), runs[r].status = "completed",
             NEW b \in 1..runs[r].total
      PROVE  batch[r][b] = "imported"
  <2>1. /\ MaxBatches \in Nat /\ Sync!Batches = 1..MaxBatches /\ r \in Sync!RunIds
        /\ runs[r].total \in Nat /\ runs[r].total <= MaxBatches
        /\ runs[r].processed \in Nat /\ runs[r].acked \in SUBSET Sync!Batches
    BY <1>1, SyncFacts
  <2>2. /\ \A c \in runs[r].acked : batch[r][c] = "imported"
        /\ runs[r].processed = Cardinality(runs[r].acked)
        /\ runs[r].processed >= runs[r].total
    BY <1>1 DEF SyncInv, RunCounts, RunCount
  <2>3. \A c \in runs[r].acked : c <= runs[r].total
    BY <1>1, <2>1, <2>2 DEF SyncInv, RunBatches
  <2>4. runs[r].acked \in SUBSET (1..runs[r].total)
    BY <2>1, <2>3
  <2>5. IsFiniteSet(1..runs[r].total) /\ Cardinality(1..runs[r].total) = runs[r].total
    BY <2>1, UpTo
  <2>6. /\ Cardinality(runs[r].acked) <= Cardinality(1..runs[r].total)
        /\ Cardinality(runs[r].acked) = Cardinality(1..runs[r].total) =>
             runs[r].acked = 1..runs[r].total
    BY <2>4, <2>5, FS_Subset
  <2>7. runs[r].acked = 1..runs[r].total
    BY <2>1, <2>2, <2>5, <2>6
  <2> QED BY <2>2, <2>7
<1>2. SyncInv => CompletedSawEveryBatch
  BY <1>1, SyncFacts DEF CompletedSawEveryBatch, Sync!CompletedSawEveryBatch
<1> QED BY <1>2, SyncInductive, PTL

-----------------------------------------------------------------------------
(* The processes.                                                           *)

\* The message and the claim of a process that a handler overtakes.
LEMMA ClaimStep ==
  ASSUME Proc!ShutdownSettlesClaims, Proc!Next
  PROVE  Proc!ShutdownSettlesClaims'
<1>1. CASE Proc!Lifecycle
  <2>1. CASE Proc!Exit
    BY <2>1 DEF Proc!Exit, Proc!ShutdownSettlesClaims
  <2>2. CASE UNCHANGED <<delivery, deliveryClaim, cut>>
    BY <2>2 DEF Proc!ShutdownSettlesClaims
  <2> QED BY <1>1, <2>1, <2>2 DEF Proc!Lifecycle, Proc!StartNext, Proc!StartFails, Proc!Serve,
         Proc!InitialiseFails, Proc!Stop, Proc!CloseNext, Proc!CloseRaises, Proc!HookEnds
<1>2. CASE Proc!Handler
  BY <1>2 DEF Proc!Handler, Proc!Take, Proc!TakeRefused, Proc!ClaimEvent, Proc!ClaimRaises,
       Proc!OpenTransaction, Proc!CommitWork, Proc!HandlerRaises, Proc!ReleaseFails, Proc!MarkEvent,
       Proc!ShutdownSettlesClaims
<1> QED BY <1>1, <1>2 DEF Proc!Next

\* A claim is held by a running handler, unless the end of its process or a
\* failure of Redis cut it off: the handler that merely finds its clients closed
\* releases it all the same.
THEOREM ClaimsSettle == Spec => []ShutdownSettlesClaims
<1>1. Init => ShutdownSettlesClaims
  BY DEF Init, Proc!Init, ShutdownSettlesClaims, Proc!ShutdownSettlesClaims
<1>2. ASSUME ShutdownSettlesClaims, [Next]_allVars
      PROVE  ShutdownSettlesClaims'
  <2>1. CASE UNCHANGED processVars
    BY <1>2, <2>1 DEF processVars, ShutdownSettlesClaims, Proc!ShutdownSettlesClaims
  <2>2. CASE Proc!Next
    BY <1>2, <2>2, ClaimStep DEF ShutdownSettlesClaims
  <2> QED BY <1>2, <2>1, <2>2 DEF Next, Synchronise, Cache, Wishing, Shopping, Notify,
         Generate, Route, Operate, allVars
<1> QED BY <1>1, <1>2, PTL DEF Spec

\* The elements of a sequence, of its head and tail and of its reverse.
LEMMA ElementsOf ==
  ASSUME NEW S, NEW s \in Seq(S)
  PROVE  /\ Proc!ToSet(s) = {s[i] : i \in 1..Len(s)} /\ Proc!ToSet(s) \in SUBSET S
         /\ s \in Seq(Proc!ToSet(s))
         /\ s # <<>> => /\ Head(s) \in S /\ Tail(s) \in Seq(S)
                        /\ Proc!ToSet(s) \subseteq {Head(s)} \cup Proc!ToSet(Tail(s))
         /\ Proc!Reverse(s) \in Seq(S) /\ Proc!ToSet(Proc!Reverse(s)) = Proc!ToSet(s)
<1>1. Len(s) \in Nat /\ DOMAIN s = 1..Len(s) /\ \A i \in 1..Len(s) : s[i] \in S
  BY LenProperties, ElementOfSeq
<1>2. Proc!ToSet(s) = {s[i] : i \in 1..Len(s)} /\ Proc!ToSet(s) \in SUBSET S
  BY <1>1 DEF Proc!ToSet
<1>3. s \in Seq(Proc!ToSet(s))
  <2>1. s \in [1..Len(s) -> Proc!ToSet(s)]
    BY <1>1, <1>2, LenProperties
  <2> QED BY <1>1, <2>1, FunctionIsSeq
<1>4. ASSUME s # <<>>
      PROVE  /\ Head(s) \in S /\ Tail(s) \in Seq(S)
             /\ Proc!ToSet(s) \subseteq {Head(s)} \cup Proc!ToSet(Tail(s))
  <2>1. /\ Head(s) \in S /\ Tail(s) \in Seq(S) /\ Len(Tail(s)) = Len(s) - 1
        /\ \A i \in 1..Len(Tail(s)) : Tail(s)[i] = s[i + 1]
    BY <1>4, HeadTailProperties
  <2>2. Head(s) = s[1]
    BY <1>4
  <2>3. DOMAIN Tail(s) = 1..Len(Tail(s))
    BY <2>1, LenProperties
  <2>4. ASSUME NEW i \in 1..Len(s), i # 1
        PROVE  s[i] \in Proc!ToSet(Tail(s))
    <3>1. i - 1 \in 1..Len(Tail(s)) /\ (i - 1) + 1 = i
      BY <1>1, <2>1, <2>4
    <3>2. Tail(s)[i - 1] = s[i]
      BY <2>1, <3>1
    <3> QED BY <2>3, <3>1, <3>2 DEF Proc!ToSet
  <2> QED BY <1>2, <2>1, <2>2, <2>4
<1>5. Proc!Reverse(s) \in Seq(S) /\ Proc!ToSet(Proc!Reverse(s)) = Proc!ToSet(s)
  <2>1. \A i \in 1..Len(s) : (Len(s) - i) + 1 \in 1..Len(s)
                             /\ (Len(s) - ((Len(s) - i) + 1)) + 1 = i
    BY <1>1
  <2>2. /\ Proc!Reverse(s) \in [1..Len(s) -> S]
        /\ \A i \in 1..Len(s) : Proc!Reverse(s)[i] = s[(Len(s) - i) + 1]
    BY <1>1, <2>1 DEF Proc!Reverse
  <2>3. Proc!Reverse(s) \in Seq(S) /\ DOMAIN Proc!Reverse(s) = 1..Len(s)
    BY <1>1, <2>2, FunctionIsSeq
  <2>4. Proc!ToSet(Proc!Reverse(s)) = {Proc!Reverse(s)[i] : i \in 1..Len(s)}
    BY <2>3 DEF Proc!ToSet
  <2>5. \A i \in 1..Len(s) : \E j \in 1..Len(s) : s[i] = Proc!Reverse(s)[j]
    BY <2>1, <2>2
  <2>6. \A i \in 1..Len(s) : \E j \in 1..Len(s) : Proc!Reverse(s)[i] = s[j]
    BY <2>1, <2>2
  <2> QED BY <1>2, <2>3, <2>4, <2>5, <2>6
<1> QED BY <1>2, <1>3, <1>4, <1>5

\* A process closes all it owns, in one order or another; a consumer owns its
\* Redis client.
Complete(p) ==
  /\ p.starts \in Seq(Proc!Owned(p)) /\ p.closes \in Seq(Proc!Owned(p))
  /\ Proc!Owned(p) \subseteq Proc!ToSet(p.closes)
  /\ p.role = "consumer" => "idempotency" \in Proc!Owned(p)
  /\ p.stack => p.role # "consumer" /\ Proc!ToSet(p.starts) = Proc!Owned(p)

\* A stack leaves what it entered, all of it.
LEMMA StackComplete ==
  ASSUME NEW S, NEW starts \in Seq(S), NEW role, role # "consumer",
         NEW p, p = [role |-> role, stack |-> TRUE, late |-> FALSE, starts |-> starts,
                     closes |-> Proc!Reverse(starts)]
  PROVE  Complete(p)
<1>1. Proc!ToSet(Proc!Reverse(starts)) = Proc!ToSet(starts)
  BY ElementsOf
<1>2. starts \in Seq(Proc!ToSet(starts))
  BY ElementsOf
<1>3. Proc!Reverse(starts) \in Seq(Proc!ToSet(starts))
  BY <1>2, ElementsOf
<1>4. Proc!Owned(p) = Proc!ToSet(starts)
  BY <1>1 DEF Proc!Owned
<1> QED BY <1>1, <1>2, <1>3, <1>4 DEF Complete

\* A graph closes what its close method names.
LEMMA GraphComplete ==
  ASSUME NEW S, NEW starts \in Seq(S), NEW closes \in Seq(S), NEW role,
         Proc!ToSet(starts) \subseteq Proc!ToSet(closes),
         role = "consumer" => "idempotency" \in Proc!ToSet(closes), NEW late,
         NEW p, p = [role |-> role, stack |-> FALSE, late |-> late,
                     starts |-> starts, closes |-> closes]
  PROVE  Complete(p)
<1>1. starts \in Seq(Proc!ToSet(starts)) /\ closes \in Seq(Proc!ToSet(closes))
  BY ElementsOf
<1>2. Proc!Owned(p) = Proc!ToSet(closes)
  BY DEF Proc!Owned
<1>3. starts \in Seq(Proc!ToSet(closes))
  BY <1>1, SeqMonotonic
<1> QED BY <1>1, <1>2, <1>3 DEF Complete

\* All the resources there are.
Resources ==
  {"cache", "limiter", "client", "database", "google", "session", "taskiq", "catalog",
   "idempotency", "cj", "publisher", "products"}

\* The short sequences of resources the code writes down.
LEMMA ShortSequences ==
  /\ \A a \in Resources : <<a>> \in Seq(Resources)
  /\ \A a, b \in Resources : <<a, b>> \in Seq(Resources)
  /\ \A a, b, c \in Resources : <<a, b, c>> \in Seq(Resources)
  /\ \A a, b, c, d \in Resources : <<a, b, c, d>> \in Seq(Resources)
<1> DEFINE R == Resources
<1>1. \A a \in R : <<a>> \in [1..1 -> R]
  OBVIOUS
<1>2. \A a, b \in R : <<a, b>> \in [1..2 -> R]
  OBVIOUS
<1>3. \A a, b, c \in R : <<a, b, c>> \in [1..3 -> R]
  OBVIOUS
<1>4. \A a, b, c, d \in R : <<a, b, c, d>> \in [1..4 -> R]
  OBVIOUS
<1> HIDE DEF R
<1>5. \A n \in Nat : [1..n -> R] \subseteq Seq(R)
  BY SeqDef
<1> QED BY <1>1, <1>2, <1>3, <1>4, <1>5 DEF R

\* Every process of the system closes all it owns.
LEMMA ProcessFacts ==
  ASSUME NEW p \in Proc!Processes
  PROVE  Complete(p)
<1>1. Resources # {} /\ {"cache", "limiter", "client", "database", "google", "session", "taskiq",
        "catalog", "idempotency", "cj", "publisher", "products"} \subseteq Resources
  BY DEF Resources
<1>2. ASSUME NEW starts \in Seq(Resources), p = Proc!Stack(starts)
      PROVE  Complete(p)
  BY <1>2, StackComplete DEF Proc!Stack
<1>3. ASSUME p = Proc!Relay
      PROVE  Complete(p)
  <2>1. <<"publisher">> \in Seq(Resources) /\ <<"publisher", "database">> \in Seq(Resources)
    BY <1>1, ShortSequences
  <2>2. Proc!ToSet(<<"publisher">>) \subseteq Proc!ToSet(<<"publisher", "database">>)
    BY DEF Proc!ToSet
  <2> QED BY <1>3, <2>1, <2>2, GraphComplete DEF Proc!Relay, Proc!Graph
<1>4. ASSUME p = Proc!ShippingRelay
      PROVE  Complete(p)
  <2>1. <<"database", "publisher">> \in Seq(Resources)
    BY <1>1, ShortSequences
  <2>2. p = [role |-> "relay", stack |-> TRUE, late |-> FALSE,
             starts |-> <<"database", "publisher">>,
             closes |-> Proc!Reverse(<<"database", "publisher">>)]
    BY <1>4 DEF Proc!ShippingRelay, Proc!Stack
  <2> QED BY <2>1, <2>2, StackComplete
<1>5. ASSUME p = Proc!Consumer(<<"idempotency">>, <<"idempotency", "database">>)
             \/ p = Proc!LateConsumer
      PROVE  Complete(p)
  <2>1. <<"idempotency">> \in Seq(Resources) /\ <<"idempotency", "database">> \in Seq(Resources)
    BY <1>1, ShortSequences
  <2>2. /\ Proc!ToSet(<<"idempotency">>) \subseteq Proc!ToSet(<<"idempotency", "database">>)
        /\ "idempotency" \in Proc!ToSet(<<"idempotency", "database">>)
    BY DEF Proc!ToSet
  <2>3. PICK late \in BOOLEAN :
          p = [role |-> "consumer", stack |-> FALSE, late |-> late,
               starts |-> <<"idempotency">>, closes |-> <<"idempotency", "database">>]
    BY <1>5 DEF Proc!LateConsumer, Proc!Consumer, Proc!Graph
  <2> QED BY <2>1, <2>2, <2>3, GraphComplete
<1>6. ASSUME p = Proc!ProductConsumer
      PROVE  Complete(p)
  <2> DEFINE starts == <<"idempotency", "cache">>
             closes == <<"cache", "idempotency", "database">>
  <2>1. starts \in Seq(Resources) /\ closes \in Seq(Resources)
    BY <1>1, ShortSequences
  <2>2. Proc!ToSet(starts) \subseteq Proc!ToSet(closes) /\ "idempotency" \in Proc!ToSet(closes)
    BY DEF Proc!ToSet
  <2> QED BY <1>6, <2>1, <2>2, GraphComplete DEF Proc!ProductConsumer, Proc!Consumer, Proc!Graph
<1>7. ASSUME p = Proc!SupplierConsumer
      PROVE  Complete(p)
  <2> DEFINE starts == <<"idempotency", "cj", "products">>
             closes == <<"products", "cj", "idempotency", "database">>
  <2>1. starts \in Seq(Resources) /\ closes \in Seq(Resources)
    BY <1>1, ShortSequences
  <2>2. Proc!ToSet(starts) \subseteq Proc!ToSet(closes) /\ "idempotency" \in Proc!ToSet(closes)
    BY DEF Proc!ToSet
  <2> QED BY <1>7, <2>1, <2>2, GraphComplete DEF Proc!SupplierConsumer, Proc!Consumer, Proc!Graph
<1>8. ASSUME p = Proc!NotificationConsumer
      PROVE  Complete(p)
  <2> DEFINE starts == <<"idempotency", "taskiq">>
             closes == <<"taskiq", "idempotency", "database">>
  <2>1. starts \in Seq(Resources) /\ closes \in Seq(Resources)
    BY <1>1, ShortSequences
  <2>2. Proc!ToSet(starts) \subseteq Proc!ToSet(closes) /\ "idempotency" \in Proc!ToSet(closes)
    BY DEF Proc!ToSet
  <2> QED BY <1>8, <2>1, <2>2, GraphComplete DEF Proc!NotificationConsumer, Proc!Consumer,
         Proc!Graph
<1>9. CASE p \in {Proc!GatewayApi, Proc!UserApi, Proc!ProductApi, Proc!OrderApi, Proc!PaymentApi,
                  Proc!SupplierApi, Proc!ShippingApi, Proc!CartApi, Proc!WishlistApi,
                  Proc!NotificationApi}
  <2>1. PICK starts : /\ p = Proc!Stack(starts)
          /\ starts \in {<<"cache", "limiter", "client">>,
               <<"database", "cache", "limiter", "google">>,
               <<"database", "cache", "session", "taskiq">>, <<"database", "catalog">>,
               <<"database", "idempotency">>, <<"database", "cj">>, <<"database", "publisher">>,
               <<"database">>, <<"database", "session">>}
    BY <1>9 DEF Proc!GatewayApi, Proc!UserApi, Proc!ProductApi, Proc!OrderApi, Proc!PaymentApi,
         Proc!SupplierApi, Proc!ShippingApi, Proc!CartApi, Proc!WishlistApi, Proc!NotificationApi
  <2>2. starts \in Seq(Resources)
    <3>1. <<"database">> \in Seq(Resources)
      BY <1>1, ShortSequences
    <3>2. /\ <<"database", "catalog">> \in Seq(Resources)
          /\ <<"database", "idempotency">> \in Seq(Resources)
          /\ <<"database", "cj">> \in Seq(Resources)
          /\ <<"database", "publisher">> \in Seq(Resources)
          /\ <<"database", "session">> \in Seq(Resources)
      BY <1>1, ShortSequences
    <3>3. <<"cache", "limiter", "client">> \in Seq(Resources)
      BY <1>1, ShortSequences
    <3>4. <<"database", "cache", "limiter", "google">> \in Seq(Resources)
      BY <1>1, ShortSequences
    <3>5. <<"database", "cache", "session", "taskiq">> \in Seq(Resources)
      BY <1>1, ShortSequences
    <3> QED BY <2>1, <3>1, <3>2, <3>3, <3>4, <3>5
  <2> QED BY <1>2, <2>1, <2>2
<1>10. CASE p \in {Proc!UserRelay, Proc!ProductRelay, Proc!OrderRelay, Proc!PaymentRelay,
                   Proc!SupplierRelay, Proc!ShippingRelay, Proc!SagaTimeoutWorker}
  BY <1>3, <1>4, <1>10 DEF Proc!UserRelay, Proc!ProductRelay, Proc!OrderRelay, Proc!PaymentRelay,
       Proc!SupplierRelay, Proc!SagaTimeoutWorker
<1>11. CASE p \in {Proc!OrderConsumer, Proc!PaymentConsumer, Proc!ShippingConsumer,
                   Proc!CartConsumer, Proc!WishlistConsumer, Proc!ProductConsumer,
                   Proc!SupplierConsumer, Proc!NotificationConsumer}
  BY <1>5, <1>6, <1>7, <1>8, <1>11 DEF Proc!OrderConsumer, Proc!PaymentConsumer,
       Proc!ShippingConsumer, Proc!CartConsumer, Proc!WishlistConsumer
<1> QED BY <1>9, <1>10, <1>11 DEF Proc!Processes

\* What a process holds open, phase by phase.
ProcInv ==
  /\ Proc!TypeOK
  /\ phase = "starting" =>
       /\ delivery = "queued" /\ excused = {}
       /\ opened \subseteq Proc!Constructed(process) \cup {process.starts[i] : i \in 1..started}
  /\ phase = "closing" => opened \subseteq excused \cup Proc!ToSet(closing)
  /\ phase \in {"draining", "ended"} => opened \subseteq excused
  /\ delivery \notin {"queued", "dead"} => process.role = "consumer"

\* A process that is not touched keeps its invariant.
LEMMA ProcStays ==
  ASSUME ProcInv, UNCHANGED processVars
  PROVE  ProcInv'
BY DEF ProcInv, processVars, Proc!TypeOK

\* What is known of the process and its start.
LEMMA ProcFacts ==
  ASSUME ProcInv
  PROVE  /\ process \in Proc!Processes /\ Complete(process)
         /\ Len(process.starts) \in Nat /\ started \in 0..Len(process.starts)
         /\ started < Len(process.starts) => Proc!Starting \in Proc!Owned(process)
         /\ closing \in Seq(Proc!Owned(process))
         /\ opened \subseteq Proc!Owned(process) /\ excused \subseteq Proc!Owned(process)
         /\ MaxFaults \in Nat /\ processFaults \in 0..MaxFaults
<1>1. process \in Proc!Processes /\ started \in 0..Len(process.starts)
      /\ closing \in Seq(Proc!Owned(process))
      /\ opened \subseteq Proc!Owned(process) /\ excused \subseteq Proc!Owned(process)
      /\ processFaults \in 0..MaxFaults
  BY DEF ProcInv, Proc!TypeOK
<1>2. Complete(process) /\ MaxFaults \in Nat
  BY <1>1, ProcessFacts, BackOfficeAssumption DEF BackOfficeAssumption
<1>3. process.starts \in Seq(Proc!Owned(process))
  BY <1>2 DEF Complete
<1>4. /\ Len(process.starts) \in Nat
      /\ \A i \in 1..Len(process.starts) : process.starts[i] \in Proc!Owned(process)
  BY <1>3, LenProperties, ElementOfSeq
<1>5. started < Len(process.starts) => started + 1 \in 1..Len(process.starts)
  BY <1>1, <1>4
<1> QED BY <1>1, <1>2, <1>4, <1>5 DEF Proc!Starting

\* A process starts with what its constructors opened.
LEMMA ProcStart ==
  ASSUME Proc!Init
  PROVE  ProcInv
<1>1. process \in Proc!Processes /\ Complete(process)
  BY ProcessFacts DEF Proc!Init
<1>2. Len(process.starts) \in Nat
  BY <1>1, LenProperties DEF Complete
<1>3. MaxFaults \in Nat
  BY BackOfficeAssumption DEF BackOfficeAssumption
<1>4. <<>> \in Seq(Proc!Owned(process)) /\ Proc!Constructed(process) \subseteq Proc!Owned(process)
  BY EmptySeq DEF Proc!Constructed
<1>5. Proc!TypeOK
  <2>1. 0 \in 0..Len(process.starts) /\ 0 \in 0..MaxFaults
    BY <1>2, <1>3
  <2>2. /\ phase = "starting" /\ started = 0 /\ opened = Proc!Constructed(process)
        /\ closing = <<>> /\ excused = {} /\ delivery = "queued" /\ deliveryClaim = "none"
        /\ cut = FALSE /\ processFaults = 0
    BY DEF Proc!Init
  <2>3. started \in 0..Len(process.starts) /\ processFaults \in 0..MaxFaults
    BY <2>1, <2>2
  <2>4. opened \subseteq Proc!Owned(process) /\ closing \in Seq(Proc!Owned(process))
    BY <1>4, <2>2
  <2> QED BY <1>1, <2>2, <2>3, <2>4 DEF Proc!TypeOK
<1> QED BY <1>5 DEF Proc!Init, ProcInv

\* A step that opens its resource, and one that begins to serve.
LEMMA ProcOpens ==
  ASSUME ProcInv, Proc!StartNext \/ Proc!Serve
  PROVE  ProcInv'
<1>1. /\ Proc!TypeOK /\ phase = "starting" /\ excused = {}
      /\ opened \subseteq Proc!Constructed(process) \cup {process.starts[i] : i \in 1..started}
      /\ UNCHANGED <<process, closing, excused, delivery, deliveryClaim, cut, processFaults>>
  BY DEF ProcInv, Proc!StartNext, Proc!Serve
<1>2. CASE Proc!StartNext
  <2>1. /\ started' = started + 1 /\ started < Len(process.starts) /\ UNCHANGED phase
        /\ opened' = opened \cup {process.starts[started + 1]}
        /\ process.starts[started + 1] \in Proc!Owned(process)
    BY <1>2, ProcFacts DEF Proc!StartNext, Proc!Starting
  <2>2. /\ started' \in 0..Len(process.starts) /\ started + 1 \in 1..started'
        /\ \A i \in 1..started : i \in 1..started'
    BY <2>1, ProcFacts
  <2>3. Proc!TypeOK'
    BY <1>1, <2>1, <2>2 DEF Proc!TypeOK
  <2>4. opened' \subseteq Proc!Constructed(process)' \cup {process.starts[i] : i \in 1..started'}
    BY <1>1, <2>1, <2>2 DEF Proc!Constructed, Proc!Owned
  <2> QED BY <1>1, <2>1, <2>3, <2>4 DEF ProcInv
<1>3. CASE Proc!Serve
  <2>1. phase' = "serving" /\ UNCHANGED <<started, opened>>
    BY <1>3 DEF Proc!Serve
  <2> QED BY <1>1, <2>1 DEF ProcInv, Proc!TypeOK
<1> QED BY <1>2, <1>3

\* A stop, or a start that fails: what is open is to be closed or excused.
LEMMA ProcCloses ==
  ASSUME ProcInv, Proc!StartFails \/ Proc!InitialiseFails \/ Proc!Stop
  PROVE  ProcInv'
<1>1. /\ Proc!TypeOK /\ Complete(process) /\ phase' = "closing"
      /\ UNCHANGED <<process, started, delivery, deliveryClaim, cut>>
      /\ processFaults' \in 0..MaxFaults
  BY ProcFacts DEF ProcInv, Proc!StartFails, Proc!InitialiseFails, Proc!Stop, Proc!Fault
<1>2. /\ closing' \in Seq(Proc!Owned(process))
      /\ opened' \subseteq Proc!Owned(process) /\ excused' \subseteq Proc!Owned(process)
      /\ opened' \subseteq excused' \cup Proc!ToSet(closing')
  <2>1. CASE Proc!InitialiseFails \/ Proc!Stop
    BY <1>1, <2>1, ProcFacts DEF Proc!InitialiseFails, Proc!Stop, Complete
  <2>2. CASE Proc!StartFails /\ ~process.stack
    <3>1. /\ closing' = process.closes /\ UNCHANGED excused
          /\ opened' \subseteq opened \cup {Proc!Starting}
      BY <2>2 DEF Proc!StartFails
    <3>2. Proc!Starting \in Proc!Owned(process)
      BY <2>2, ProcFacts DEF Proc!StartFails
    <3> QED BY <1>1, <3>1, <3>2, ProcFacts DEF Complete
  <2>3. CASE Proc!StartFails /\ process.stack
    <3> DEFINE entered == SubSeq(process.starts, 1, started)
    <3>1. /\ closing' = Proc!Reverse(entered)
          /\ excused' = Proc!Constructed(process) \ Proc!ToSet(closing') /\ UNCHANGED opened
          /\ opened \subseteq Proc!Constructed(process) \cup {process.starts[i] : i \in 1..started}
      BY <2>3 DEF Proc!StartFails, ProcInv
    <3>2. process.starts \in Seq(Proc!Owned(process))
      BY <1>1 DEF Complete
    <3>3. /\ started \in Nat /\ started <= Len(process.starts) /\ Len(process.starts) \in Nat
          /\ \A i \in 1..started : process.starts[i] \in Proc!Owned(process)
      BY <3>2, ProcFacts, ElementOfSeq
    <3>4. /\ entered \in Seq(Proc!Owned(process)) /\ Len(entered) = started
          /\ \A i \in 1..started : entered[i] = process.starts[i]
      BY <3>3, SubSeqProperties
    <3> HIDE DEF entered
    <3>5. /\ closing' \in Seq(Proc!Owned(process)) /\ Proc!ToSet(closing') = Proc!ToSet(entered)
          /\ Proc!ToSet(entered) = {entered[i] : i \in 1..Len(entered)}
      BY <3>1, <3>4, ElementsOf
    <3>6. {process.starts[i] : i \in 1..started} \subseteq Proc!ToSet(closing')
      BY <3>4, <3>5
    <3> QED BY <3>1, <3>5, <3>6, ProcFacts DEF Proc!Constructed
  <2> QED BY <2>1, <2>2, <2>3
<1>3. Proc!TypeOK'
  BY <1>1, <1>2 DEF Proc!TypeOK, Proc!Owned
<1> QED BY <1>1, <1>2, <1>3 DEF ProcInv

\* The hook closes one resource after the other, whatever each of them raises.
LEMMA ProcHook ==
  ASSUME ProcInv, Proc!CloseNext \/ Proc!CloseRaises \/ Proc!HookEnds \/ Proc!Exit
  PROVE  ProcInv'
<1>1. Proc!TypeOK /\ UNCHANGED <<process, started>>
  BY DEF ProcInv, Proc!CloseNext, Proc!CloseRaises, Proc!HookEnds, Proc!Exit
<1>2. CASE Proc!CloseNext \/ Proc!CloseRaises
  <2>1. /\ phase = "closing" /\ closing # <<>> /\ closing' = Tail(closing)
        /\ UNCHANGED <<phase, delivery, deliveryClaim, cut>> /\ processFaults' \in 0..MaxFaults
        /\ opened \subseteq excused \cup Proc!ToSet(closing)
        /\ \/ opened' = opened \ {Head(closing)} /\ UNCHANGED excused
           \/ opened' = opened /\ excused' = excused \cup {Head(closing)}
    BY <1>2, ProcFacts DEF ProcInv, Proc!CloseNext, Proc!CloseRaises, Proc!Fault
  <2>2. /\ Head(closing) \in Proc!Owned(process) /\ Tail(closing) \in Seq(Proc!Owned(process))
        /\ Proc!ToSet(closing) \subseteq {Head(closing)} \cup Proc!ToSet(Tail(closing))
    BY <2>1, ProcFacts, ElementsOf
  <2>3. opened' \subseteq excused' \cup Proc!ToSet(closing')
    BY <2>1, <2>2
  <2>4. Proc!TypeOK'
    BY <1>1, <2>1, <2>2, ProcFacts DEF Proc!TypeOK, Proc!Owned
  <2> QED BY <1>1, <2>1, <2>3, <2>4 DEF ProcInv
<1>3. CASE Proc!HookEnds
  <2>1. Proc!ToSet(<<>>) = {}
    BY DEF Proc!ToSet
  <2>2. /\ phase = "closing" /\ closing = <<>> /\ phase' \in {"draining", "ended"}
        /\ UNCHANGED <<process, started, opened, closing, excused, delivery, deliveryClaim, cut,
                       processFaults>>
    BY <1>3 DEF Proc!HookEnds
  <2> QED BY <2>1, <2>2 DEF ProcInv, Proc!TypeOK
<1>4. CASE Proc!Exit
  <2>1. /\ phase = "draining" /\ phase' = "ended" /\ cut' \in BOOLEAN
        /\ delivery' \in {"done", "dead", "queued"}
        /\ delivery' \notin {"queued", "dead"} => delivery' = delivery
        /\ UNCHANGED <<process, started, opened, closing, excused, deliveryClaim, processFaults>>
    BY <1>4 DEF Proc!Exit
  <2> QED BY <2>1 DEF ProcInv, Proc!TypeOK
<1> QED BY <1>2, <1>3, <1>4

\* A handler opens at most a Redis client, which is then excused.
LEMMA ProcHandles ==
  ASSUME ProcInv, Proc!Handler
  PROVE  ProcInv'
<1>1. /\ Proc!TypeOK /\ process.role = "consumer" /\ phase # "ended"
      /\ UNCHANGED <<process, phase, started, closing>> /\ cut' \in BOOLEAN
      /\ processFaults' \in 0..MaxFaults
      /\ deliveryClaim' \in {"none", "processing", "processed"}
      /\ delivery' \in {"queued", "taken", "claimed", "open", "committed", "done", "dead"}
  <2>1. /\ Proc!TypeOK /\ cut \in BOOLEAN /\ processFaults \in 0..MaxFaults
        /\ deliveryClaim \in {"none", "processing", "processed"}
    BY DEF ProcInv, Proc!TypeOK
  <2>2. Proc!Fault => processFaults' \in 0..MaxFaults
    BY ProcFacts DEF Proc!Fault
  <2>3. CASE Proc!Take \/ Proc!TakeRefused \/ Proc!OpenTransaction \/ Proc!CommitWork
    BY <2>1, <2>3 DEF Proc!Take, Proc!TakeRefused, Proc!OpenTransaction, Proc!CommitWork,
       Proc!Running
  <2>4. CASE Proc!ClaimEvent \/ Proc!MarkEvent
    BY <2>1, <2>4 DEF Proc!ClaimEvent, Proc!MarkEvent, Proc!Running
  <2>5. CASE Proc!ClaimRaises \/ Proc!ReleaseFails
    BY <2>1, <2>2, <2>5 DEF Proc!ClaimRaises, Proc!ReleaseFails, Proc!Running
  <2>6. CASE Proc!HandlerRaises
    BY <2>1, <2>2, <2>6 DEF Proc!HandlerRaises, Proc!Running
  <2> QED BY <2>3, <2>4, <2>5, <2>6 DEF Proc!Handler
<1>2. \/ UNCHANGED <<opened, excused>>
      \/ Proc!TouchRedis
  BY DEF Proc!Handler, Proc!Take, Proc!TakeRefused, Proc!ClaimEvent,
     Proc!ClaimRaises, Proc!OpenTransaction, Proc!CommitWork, Proc!HandlerRaises,
     Proc!ReleaseFails, Proc!MarkEvent
<1>3. phase = "starting" => FALSE
  BY DEF ProcInv, Proc!Handler, Proc!Take, Proc!TakeRefused, Proc!ClaimEvent,
     Proc!ClaimRaises, Proc!OpenTransaction, Proc!CommitWork, Proc!HandlerRaises,
     Proc!ReleaseFails, Proc!MarkEvent
<1>4. "idempotency" \in Proc!Owned(process)
  BY <1>1, ProcFacts DEF Complete
<1>5. /\ opened' \subseteq Proc!Owned(process) /\ excused' \subseteq Proc!Owned(process)
      /\ \A set : opened \subseteq excused \cup set => opened' \subseteq excused' \cup set
  BY <1>1, <1>2, <1>4 DEF Proc!TypeOK, Proc!TouchRedis
<1>6. Proc!TypeOK'
  BY <1>1, <1>5 DEF Proc!TypeOK, Proc!Owned
<1>7. phase' \in {"closing", "draining", "ended"} => opened' \subseteq excused' \cup
        (IF phase = "closing" THEN Proc!ToSet(closing) ELSE {})
  BY <1>1, <1>5 DEF ProcInv
<1> QED BY <1>1, <1>3, <1>6, <1>7 DEF ProcInv

\* The processes' invariant holds while any part runs.
THEOREM ProcInductive == Spec => []ProcInv
<1>1. Init => ProcInv
  BY ProcStart DEF Init
<1>2. ASSUME ProcInv, [Next]_allVars
      PROVE  ProcInv'
  <2>1. CASE UNCHANGED processVars
    BY <1>2, <2>1, ProcStays
  <2>2. CASE Proc!Next
    BY <1>2, <2>2, ProcOpens, ProcCloses, ProcHook, ProcHandles DEF Proc!Next, Proc!Lifecycle
  <2> QED BY <1>2, <2>1, <2>2 DEF Next, Synchronise, Cache, Wishing, Shopping, Notify,
         Generate, Route, Operate, allVars
<1> QED BY <1>1, <1>2, PTL DEF Spec

\* A process that has ended holds nothing open but what refused to close, was
\* never entered, or was opened again by a handler after the shutdown: the
\* close list of each process names all it owns.
THEOREM ProcessesCloseAll == Spec => []NothingLeaks
<1>1. ProcInv => NothingLeaks
  BY DEF ProcInv, NothingLeaks, Proc!NothingLeaks
<1> QED BY <1>1, ProcInductive, PTL

-----------------------------------------------------------------------------
(* The wiring of the events.                                                *)

\* The exchange a row's event goes to, by the first word of its type.
LEMMA RowExchange ==
  ASSUME row \in Wires!Rows
  PROVE  /\ Head(row.type) = "order" => Wires!Exchange(row) = "order"
         /\ Head(row.type) = "cj" => Wires!Exchange(row) = "order"
         /\ Head(row.type) = "inventory" => Wires!Exchange(row) = "inventory"
         /\ Head(row.type) = "payment" => Wires!Exchange(row) = "payment"
         /\ Head(row.type) = "supplier" => Wires!Exchange(row) = "supplier"
         /\ Head(row.type) = "user" => Wires!Exchange(row) = "user"
<1>1. /\ \A t \in Wires!OrderTypes : Head(t) \in {"order", "inventory"}
      /\ \A t \in Wires!PaymentTypes : Head(t) = "payment"
      /\ \A t \in Wires!ProductTypes : Head(t) \in {"inventory", "supplier"}
      /\ \A t \in Wires!SupplierTypes : Head(t) \in {"supplier", "cj"}
      /\ \A t \in Wires!ShippingTypes : Head(t) = "shipment"
      /\ \A t \in Wires!UserTypes : Head(t) = "user"
  <2>1. \A t \in Wires!OrderTypes : Head(t) \in {"order", "inventory"}
    BY DEF Wires!OrderTypes, Wires!Types
  <2>2. \A t \in Wires!PaymentTypes : Head(t) = "payment"
    BY DEF Wires!PaymentTypes, Wires!Types
  <2>3. \A t \in Wires!ProductTypes : Head(t) \in {"inventory", "supplier"}
    BY DEF Wires!ProductTypes
  <2>4. \A t \in Wires!SupplierTypes : Head(t) \in {"supplier", "cj"}
    BY DEF Wires!SupplierTypes
  <2>5. \A t \in Wires!ShippingTypes : Head(t) = "shipment"
    BY DEF Wires!ShippingTypes, Wires!Types
  <2>6. \A t \in Wires!UserTypes : Head(t) = "user"
    BY DEF Wires!UserTypes, Wires!Types
  <2> QED BY <2>1, <2>2, <2>3, <2>4, <2>5, <2>6
<1>2. \/ row.service = "order" /\ row.type \in Wires!OrderTypes
      \/ row.service = "payment" /\ row.type \in Wires!PaymentTypes
      \/ row.service = "product" /\ row.type \in Wires!ProductTypes
      \/ row.service = "supplier" /\ row.type \in Wires!SupplierTypes
      \/ row.service = "shipping" /\ row.type \in Wires!ShippingTypes
      \/ row.service = "user" /\ row.type \in Wires!UserTypes
  BY DEF Wires!Rows
<1> QED BY <1>1, <1>2 DEF Wires!Exchange, Wires!OrderExchange, Wires!PaymentExchange,
       Wires!ProductExchange, Wires!SupplierExchange, Wires!ShippingExchange, Wires!UserExchange

\* A copy of the row's event comes to a queue whose subscriber takes its body.
Reached(q) == Wires!Bound(q) /\ Wires!Accepts(q)

\* The queues of a service that the row reaches, among those with a branch for
\* its type, are one queue.
ReachedOnce(queues) ==
  \E q \in queues :
    /\ row.type \in q.branches /\ Reached(q)
    /\ \A p \in queues : row.type \in p.branches /\ Reached(p) => p = q

\* The order service: four queues whose branches differ in the first word.
LEMMA OrderReached ==
  ASSUME row \in Wires!Rows, NEW q \in Wires!OrderQueues, q.exchange # "shipping",
         row.type \in q.branches
  PROVE  ReachedOnce(Wires!OrderQueues)
<1>1. \A t \in Wires!OrderInventoryBranches :
        Head(t) = "inventory" /\ Wires!Matches(<<"inventory", "reserve", "*">>, t)
  BY DEF Wires!OrderInventoryBranches, Wires!Types, Wires!Matches, Wires!Last
<1>2. \A t \in Wires!OrderPaymentBranches :
        Head(t) = "payment" /\ Wires!Matches(<<"payment", "*">>, t)
  BY DEF Wires!OrderPaymentBranches, Wires!Types, Wires!Matches, Wires!Last
<1>3. \A t \in Wires!OrderCJBranches :
        Head(t) = "cj" /\ Wires!Matches(<<"cj", "order", "*">>, t)
  BY DEF Wires!OrderCJBranches, Wires!Types, Wires!Matches, Wires!Last
<1>4. \A t \in Wires!OrderShippingBranches : Head(t) = "shipment"
  BY DEF Wires!OrderShippingBranches, Wires!Types
<1>5. \A p \in Wires!OrderQueues :
        /\ p.body = "dict"
        /\ \/ /\ p.exchange = "inventory" /\ p.pattern = <<"inventory", "reserve", "*">>
              /\ p.branches = Wires!OrderInventoryBranches
           \/ /\ p.exchange = "payment" /\ p.pattern = <<"payment", "*">>
              /\ p.branches = Wires!OrderPaymentBranches
           \/ /\ p.exchange = "order" /\ p.pattern = <<"cj", "order", "*">>
              /\ p.branches = Wires!OrderCJBranches
           \/ p.exchange = "shipping" /\ p.branches = Wires!OrderShippingBranches
        /\ \A r \in Wires!OrderQueues : p.exchange = r.exchange => p = r
  BY DEF Wires!OrderQueues, Wires!Queue
<1>6. Reached(q)
  BY <1>1, <1>2, <1>3, <1>5, RowExchange DEF Reached, Wires!Bound, Wires!Accepts
<1>7. ASSUME NEW p \in Wires!OrderQueues, row.type \in p.branches
      PROVE  p.exchange = q.exchange
  BY <1>1, <1>2, <1>3, <1>4, <1>5, <1>7
<1> QED BY <1>5, <1>6, <1>7 DEF ReachedOnce

\* The product service: what is asked of its stock, and what a supplier sends.
LEMMA ProductReached ==
  ASSUME row \in Wires!Rows, NEW q \in Wires!ProductQueues, row.type \in q.branches
  PROVE  ReachedOnce(Wires!ProductQueues)
<1>1. \A t \in Wires!ProductInventoryBranches :
        Head(t) = "inventory" /\ Wires!Matches(<<"inventory", "*", "requested">>, t)
  BY DEF Wires!ProductInventoryBranches, Wires!Types, Wires!Matches, Wires!Last
<1>2. \A t \in Wires!ProductImportBranches :
        Head(t) = "supplier" /\ Wires!Matches(<<"supplier", "products", "fetched">>, t)
  BY DEF Wires!ProductImportBranches, Wires!Matches, Wires!Last
<1>3. \A p \in Wires!ProductQueues :
        /\ p.body = "dict"
        /\ \/ /\ p.exchange = "inventory" /\ p.pattern = <<"inventory", "*", "requested">>
              /\ p.branches = Wires!ProductInventoryBranches
           \/ /\ p.exchange = "supplier" /\ p.pattern = <<"supplier", "products", "fetched">>
              /\ p.branches = Wires!ProductImportBranches
        /\ \A r \in Wires!ProductQueues : p.exchange = r.exchange => p = r
  BY DEF Wires!ProductQueues, Wires!Queue
<1>4. Reached(q)
  BY <1>1, <1>2, <1>3, RowExchange DEF Reached, Wires!Bound, Wires!Accepts
<1>5. ASSUME NEW p \in Wires!ProductQueues, row.type \in p.branches
      PROVE  p.exchange = q.exchange
  BY <1>1, <1>2, <1>3, <1>5
<1> QED BY <1>3, <1>4, <1>5 DEF ReachedOnce

\* The supplier service: both its order queues lead to one consumer, and the
\* pattern of each lets one type through.
LEMMA SupplierReached ==
  ASSUME row \in Wires!Rows, NEW q \in Wires!SupplierQueues, row.type \in q.branches
  PROVE  ReachedOnce(Wires!SupplierQueues)
<1>1. \A t \in Wires!SupplierFeedbackBranches :
        /\ Head(t) = "supplier" /\ t # <<"order", "confirmed">> /\ t # <<"order", "cancelled">>
        /\ Wires!Matches(<<"supplier", "product", "import", "*">>, t)
  BY DEF Wires!SupplierFeedbackBranches, Wires!Types, Wires!Matches, Wires!Last
<1>2. /\ Wires!SupplierOrderBranches = {<<"order", "confirmed">>, <<"order", "cancelled">>}
      /\ \A t \in Wires!SupplierOrderBranches : Head(t) = "order"
  BY DEF Wires!SupplierOrderBranches, Wires!Types
<1>3. \A t \in {<<"order", "confirmed">>, <<"order", "cancelled">>},
         u \in {<<"order", "confirmed">>, <<"order", "cancelled">>} :
        Wires!Matches(t, u) <=> t = u
  BY DEF Wires!Matches, Wires!Last
<1>4. \A p \in Wires!SupplierQueues :
        /\ p.body = "dict"
        /\ \/ /\ p.exchange = "supplier"
              /\ p.pattern = <<"supplier", "product", "import", "*">>
              /\ p.branches = Wires!SupplierFeedbackBranches
           \/ /\ p.exchange = "order"
              /\ p.pattern \in {<<"order", "confirmed">>, <<"order", "cancelled">>}
              /\ p.branches = Wires!SupplierOrderBranches
        /\ \A r \in Wires!SupplierQueues : p.exchange = r.exchange /\ p.pattern = r.pattern => p = r
  BY DEF Wires!SupplierQueues, Wires!Queue
<1>5. \A t \in {<<"order", "confirmed">>, <<"order", "cancelled">>} :
        \E p \in Wires!SupplierQueues : p.exchange = "order" /\ p.pattern = t
  BY DEF Wires!SupplierQueues, Wires!Queue
<1>6. CASE q.exchange = "supplier"
  <2>1. Head(row.type) = "supplier" /\ Reached(q)
    BY <1>1, <1>4, <1>6, RowExchange DEF Reached, Wires!Bound, Wires!Accepts
  <2>2. ASSUME NEW p \in Wires!SupplierQueues, row.type \in p.branches
        PROVE  p = q
    BY <1>2, <1>4, <1>6, <2>1, <2>2
  <2> QED BY <2>1, <2>2 DEF ReachedOnce
<1>7. CASE q.exchange = "order"
  <2>1. Head(row.type) = "order" /\ row.type \in {<<"order", "confirmed">>, <<"order", "cancelled">>}
    BY <1>2, <1>4, <1>7
  <2>2. PICK p \in Wires!SupplierQueues : p.exchange = "order" /\ p.pattern = row.type
    BY <1>5, <2>1
  <2>3. row.type \in p.branches /\ Reached(p)
    BY <1>2, <1>3, <1>4, <2>1, <2>2, RowExchange DEF Reached, Wires!Bound, Wires!Accepts
  <2>4. ASSUME NEW r \in Wires!SupplierQueues, row.type \in r.branches, Reached(r)
        PROVE  r = p
    <3>1. r.exchange = "order" /\ Wires!Matches(r.pattern, row.type)
      BY <1>1, <1>4, <2>1, <2>4 DEF Reached, Wires!Bound
    <3> QED BY <1>3, <1>4, <2>1, <2>2, <3>1
  <2> QED BY <2>3, <2>4 DEF ReachedOnce
<1> QED BY <1>4, <1>6, <1>7

\* The notification service: three queues bound by their first word.
LEMMA NotificationReached ==
  ASSUME row \in Wires!Rows, NEW q \in Wires!NotificationQueues, row.type \in q.branches
  PROVE  ReachedOnce(Wires!NotificationQueues)
<1>1. \A t \in Wires!NotificationUserBranches :
        Head(t) = "user" /\ Wires!Matches(<<"user", "#">>, t)
  BY DEF Wires!NotificationUserBranches, Wires!UserTypes, Wires!Types, Wires!Matches, Wires!Last,
     Wires!Front, Wires!IsPrefix
<1>2. \A t \in Wires!NotificationOrderBranches :
        Head(t) = "order" /\ Wires!Matches(<<"order", "#">>, t)
  BY DEF Wires!NotificationOrderBranches, Wires!Types, Wires!Matches, Wires!Last,
     Wires!Front, Wires!IsPrefix
<1>3. \A t \in Wires!NotificationPaymentBranches :
        Head(t) = "payment" /\ Wires!Matches(<<"payment", "#">>, t)
  BY DEF Wires!NotificationPaymentBranches, Wires!PaymentTypes, Wires!Types, Wires!Matches,
     Wires!Last, Wires!Front, Wires!IsPrefix
<1>4. \A p \in Wires!NotificationQueues :
        /\ p.body = "dict"
        /\ \/ /\ p.exchange = "user" /\ p.pattern = <<"user", "#">>
              /\ p.branches = Wires!NotificationUserBranches
           \/ /\ p.exchange = "order" /\ p.pattern = <<"order", "#">>
              /\ p.branches = Wires!NotificationOrderBranches
           \/ /\ p.exchange = "payment" /\ p.pattern = <<"payment", "#">>
              /\ p.branches = Wires!NotificationPaymentBranches
        /\ \A r \in Wires!NotificationQueues : p.exchange = r.exchange => p = r
  BY DEF Wires!NotificationQueues, Wires!Queue
<1>5. Reached(q)
  BY <1>1, <1>2, <1>3, <1>4, RowExchange DEF Reached, Wires!Bound, Wires!Accepts
<1>6. ASSUME NEW p \in Wires!NotificationQueues, row.type \in p.branches
      PROVE  p.exchange = q.exchange
  BY <1>1, <1>2, <1>3, <1>4, <1>6
<1> QED BY <1>4, <1>5, <1>6 DEF ReachedOnce

\* The shipping, cart and wishlist services: one queue each.
LEMMA OneQueueReached ==
  ASSUME row \in Wires!Rows,
         NEW queues \in {Wires!ShippingQueues, Wires!CartQueues, Wires!WishlistQueues},
         NEW q \in queues, row.type \in q.branches
  PROVE  ReachedOnce(queues)
<1>1. \A t \in Wires!ShippingBranches \cup Wires!CartBranches :
        Head(t) = "order" /\ Wires!Matches(<<"order", "*">>, t)
  BY DEF Wires!ShippingBranches, Wires!CartBranches, Wires!Types, Wires!Matches, Wires!Last
<1>2. \A t \in Wires!WishlistBranches :
        Head(t) = "user" /\ Wires!Matches(<<"user", "deleted">>, t)
  BY DEF Wires!WishlistBranches, Wires!Matches, Wires!Last
<1>3. /\ queues = {q} /\ q.body = "dict"
      /\ \/ /\ q.exchange = "order" /\ q.pattern = <<"order", "*">>
            /\ q.branches \in {Wires!ShippingBranches, Wires!CartBranches}
         \/ /\ q.exchange = "user" /\ q.pattern = <<"user", "deleted">>
            /\ q.branches = Wires!WishlistBranches
  BY DEF Wires!ShippingQueues, Wires!CartQueues, Wires!WishlistQueues, Wires!Queue
<1>4. Reached(q)
  BY <1>1, <1>2, <1>3, RowExchange DEF Reached, Wires!Bound, Wires!Accepts
<1> QED BY <1>3, <1>4 DEF ReachedOnce

\* A row that a service listens for, through a queue that can hear at all,
\* reaches one queue of that service.
LEMMA ListenersReached ==
  ASSUME row \in Wires!Rows, NEW s, NEW q \in Wires!Listeners(s) \ Wires!Deaf
  PROVE  ReachedOnce(Wires!Listeners(s))
<1>1. /\ \A p \in Wires!OrderQueues : p.service = "order"
      /\ \A p \in Wires!PaymentQueues : p.service = "payment"
      /\ \A p \in Wires!ProductQueues : p.service = "product"
      /\ \A p \in Wires!SupplierQueues : p.service = "supplier"
      /\ \A p \in Wires!ShippingQueues : p.service = "shipping"
      /\ \A p \in Wires!CartQueues : p.service = "cart"
      /\ \A p \in Wires!WishlistQueues : p.service = "wishlist"
      /\ \A p \in Wires!NotificationQueues : p.service = "notification"
  <2>1. \A p \in Wires!OrderQueues : p.service = "order"
    BY DEF Wires!OrderQueues, Wires!Queue
  <2>2. \A p \in Wires!PaymentQueues : p.service = "payment"
    BY DEF Wires!PaymentQueues, Wires!Queue
  <2>3. \A p \in Wires!ProductQueues : p.service = "product"
    BY DEF Wires!ProductQueues, Wires!Queue
  <2>4. \A p \in Wires!SupplierQueues : p.service = "supplier"
    BY DEF Wires!SupplierQueues, Wires!Queue
  <2>5. \A p \in Wires!ShippingQueues : p.service = "shipping"
    BY DEF Wires!ShippingQueues, Wires!Queue
  <2>6. \A p \in Wires!CartQueues : p.service = "cart"
    BY DEF Wires!CartQueues, Wires!Queue
  <2>7. \A p \in Wires!WishlistQueues : p.service = "wishlist"
    BY DEF Wires!WishlistQueues, Wires!Queue
  <2>8. \A p \in Wires!NotificationQueues : p.service = "notification"
    BY DEF Wires!NotificationQueues, Wires!Queue
  <2> QED BY <2>1, <2>2, <2>3, <2>4, <2>5, <2>6, <2>7, <2>8
<1>2. PICK queues \in {Wires!OrderQueues, Wires!PaymentQueues, Wires!ProductQueues,
                       Wires!SupplierQueues, Wires!ShippingQueues, Wires!CartQueues,
                       Wires!WishlistQueues, Wires!NotificationQueues} : q \in queues
  BY DEF Wires!Listeners, Wires!Queues
<1>3. /\ q.service = s /\ row.type \in q.branches
      /\ \A p : p \in Wires!Listeners(s) <=> p \in queues /\ row.type \in p.branches
  BY <1>1, <1>2 DEF Wires!Listeners, Wires!Queues
<1>4. ReachedOnce(queues)
  <2>1. queues # Wires!PaymentQueues
    BY <1>2 DEF Wires!Deaf
  <2>2. queues = Wires!OrderQueues => q.exchange # "shipping"
    BY <1>2 DEF Wires!Deaf
  <2> QED BY <1>2, <1>3, <2>1, <2>2, OrderReached, ProductReached, SupplierReached,
             NotificationReached, OneQueueReached
<1> QED BY <1>3, <1>4 DEF ReachedOnce

\* What a deaf consumer has branches for never reaches it: the one declares a
\* body that no message has, the other's queue is bound by another word.
LEMMA DeafUnreached ==
  ASSUME NEW q \in Wires!Deaf, row.type \in q.branches
  PROVE  q \in Wires!Queues /\ ~Reached(q)
<1>1. \A t \in Wires!OrderShippingBranches : ~Wires!Matches(<<"shipping", "*">>, t)
  BY DEF Wires!OrderShippingBranches, Wires!Types, Wires!Matches, Wires!Last
<1>2. \A p \in Wires!OrderQueues : p.exchange = "shipping" =>
        p.pattern = <<"shipping", "*">> /\ p.branches = Wires!OrderShippingBranches
  BY DEF Wires!OrderQueues, Wires!Queue
<1>3. \A p \in Wires!PaymentQueues : p.body = "str"
  BY DEF Wires!PaymentQueues, Wires!Queue
<1>4. q \in Wires!PaymentQueues \/ (q \in Wires!OrderQueues /\ q.exchange = "shipping")
  BY DEF Wires!Deaf
<1>5. ~Reached(q)
  BY <1>1, <1>2, <1>3, <1>4 DEF Reached, Wires!Bound, Wires!Accepts
<1> QED BY <1>4, <1>5 DEF Wires!Queues

\* The services that consume.
Consumers == {q.service : q \in Wires!Queues}

\* Every copy is waiting, was heard, dead-lettered or dropped.
CopyCounts ==
  /\ processed => copies > 0
  /\ \A q \in Wires!Queues : heard[q] + dead[q] + Cardinality(waiting[q]) <= copies

\* All copies of an event that is not reissued have one id, which its consumers
\* claim once.
OneId ==
  ~Wires!Reissued(row) =>
    /\ \A q \in Wires!Queues : waiting[q] \subseteq {0} /\ heard[q] <= 1
    /\ \A s \in Consumers : claims[s] \subseteq {0}

\* A queue holds and hears only what reaches it; what reached a listener is in
\* the queue or claimed, and a claim was heard.
Heard(q) ==
  /\ waiting[q] # {} => Wires!Bound(q)
  /\ heard[q] > 0 => Reached(q) /\ row.type \in q.branches /\ claims[q.service] # {}
  /\ copies > 0 /\ Reached(q) /\ row.type \in q.branches =>
       waiting[q] # {} \/ claims[q.service] # {}

HeardByQueues ==
  /\ \A q \in Wires!Queues : Heard(q)
  /\ \A s \in Consumers : claims[s] # {} =>
       \E q \in Wires!Queues : q.service = s /\ heard[q] > 0

WireInv == Wires!TypeOK /\ CopyCounts /\ OneId /\ HeardByQueues

\* A wiring that is not touched keeps its invariant.
LEMMA WireStays ==
  ASSUME WireInv, UNCHANGED messagingVars
  PROVE  WireInv'
<1> USE DEF messagingVars, WireInv
<1>1. Wires!TypeOK'
  BY DEF Wires!TypeOK
<1>2. CopyCounts' /\ OneId'
  BY DEF CopyCounts, OneId, Wires!Reissued
<1>3. HeardByQueues'
  BY DEF HeardByQueues, Heard, Reached, Wires!Bound, Wires!Accepts
<1> QED BY <1>1, <1>2, <1>3

\* Nothing has been published.
LEMMA WireStart ==
  ASSUME Wires!Init
  PROVE  WireInv
<1>1. MaxCopies \in Nat \ {0}
  BY BackOfficeAssumption DEF BackOfficeAssumption
<1>2. /\ row \in Wires!Rows /\ processed = FALSE /\ copies = 0
      /\ waiting = [q \in Wires!Queues |-> {}] /\ claims = [s \in Consumers |-> {}]
      /\ heard = [q \in Wires!Queues |-> 0] /\ dead = [q \in Wires!Queues |-> 0]
  BY DEF Wires!Init, Consumers
<1>3. Wires!TypeOK
  <2>1. 0 \in 0..MaxCopies
    BY <1>1
  <2>2. /\ heard \in [Wires!Queues -> 0..MaxCopies] /\ dead \in [Wires!Queues -> 0..MaxCopies]
        /\ waiting \in [Wires!Queues -> SUBSET Wires!Ids]
        /\ claims \in [Consumers -> SUBSET Wires!Ids]
    BY <1>2, <2>1
  <2> QED BY <1>2, <2>1, <2>2 DEF Wires!TypeOK, Consumers
<1>4. CopyCounts
  BY <1>2, FS_EmptySet DEF CopyCounts
<1>5. OneId /\ HeardByQueues
  BY <1>2 DEF OneId, HeardByQueues, Heard
<1> QED BY <1>3, <1>4, <1>5 DEF WireInv

\* What the types say.
LEMMA WireFacts ==
  ASSUME WireInv
  PROVE  /\ MaxCopies \in Nat /\ copies \in Nat /\ copies <= MaxCopies /\ row \in Wires!Rows
         /\ waiting \in [Wires!Queues -> SUBSET Wires!Ids]
         /\ claims \in [Consumers -> SUBSET Wires!Ids]
         /\ heard \in [Wires!Queues -> 0..MaxCopies] /\ dead \in [Wires!Queues -> 0..MaxCopies]
         /\ Wires!Ids = 0..MaxCopies
         /\ \A q \in Wires!Queues : /\ q.service \in Consumers
                                    /\ heard[q] \in Nat /\ dead[q] \in Nat
                                    /\ IsFiniteSet(waiting[q])
                                    /\ Cardinality(waiting[q]) \in Nat
<1>1. MaxCopies \in Nat \ {0}
  BY BackOfficeAssumption DEF BackOfficeAssumption
<1>2. /\ copies \in Nat /\ copies <= MaxCopies /\ row \in Wires!Rows
      /\ waiting \in [Wires!Queues -> SUBSET Wires!Ids]
      /\ claims \in [Consumers -> SUBSET Wires!Ids]
      /\ heard \in [Wires!Queues -> 0..MaxCopies] /\ dead \in [Wires!Queues -> 0..MaxCopies]
      /\ Wires!Ids = 0..MaxCopies
  BY <1>1 DEF WireInv, Wires!TypeOK, Consumers, Wires!Ids
<1>3. IsFiniteSet(Wires!Ids)
  BY <1>1, <1>2, FS_Interval
<1>4. ASSUME NEW q \in Wires!Queues
      PROVE  /\ q.service \in Consumers /\ heard[q] \in Nat /\ dead[q] \in Nat
             /\ IsFiniteSet(waiting[q]) /\ Cardinality(waiting[q]) \in Nat
  <2>1. waiting[q] \in SUBSET Wires!Ids /\ heard[q] \in Nat /\ dead[q] \in Nat
    BY <1>1, <1>2
  <2>2. IsFiniteSet(waiting[q])
    BY <1>3, <2>1, FS_Subset
  <2> QED BY <2>1, <2>2, FS_CardinalityType DEF Consumers
<1> QED BY <1>1, <1>2, <1>4

\* The relay publishes the row once more, or marks it.
LEMMA WireRelay ==
  ASSUME WireInv, Wires!Relay
  PROVE  WireInv'
<1>1. Wires!TypeOK /\ CopyCounts /\ OneId /\ HeardByQueues
  BY DEF WireInv
<1>2. CASE Wires!Publish
  <2> DEFINE Id == IF Wires!Reissued(row) THEN copies' ELSE 0
  <2>1. /\ copies < MaxCopies /\ copies' = copies + 1 /\ ~processed
        /\ waiting' = [q \in Wires!Queues |->
             IF Wires!Bound(q) THEN waiting[q] \cup {Id} ELSE waiting[q]]
        /\ UNCHANGED <<row, processed, claims, heard, dead>>
    BY <1>2 DEF Wires!Publish
  <2>2. Id \in Wires!Ids /\ (~Wires!Reissued(row) => Id = 0)
    BY <2>1, WireFacts
  <2> HIDE DEF Id
  <2>3. /\ waiting' \in [Wires!Queues -> SUBSET Wires!Ids] /\ copies' \in 0..MaxCopies
        /\ \A q \in Wires!Queues :
             /\ waiting'[q] = IF Wires!Bound(q) THEN waiting[q] \cup {Id} ELSE waiting[q]
             /\ Reached(q)' <=> Reached(q)
             /\ Wires!Bound(q)' <=> Wires!Bound(q)
    BY <2>1, <2>2, WireFacts DEF Reached, Wires!Bound, Wires!Accepts
  <2>4. Wires!TypeOK'
    BY <1>1, <2>1, <2>3 DEF Wires!TypeOK
  <2>5. ASSUME NEW q \in Wires!Queues
        PROVE  heard'[q] + dead'[q] + Cardinality(waiting'[q]) <= copies'
    <3>1. /\ waiting'[q] = waiting[q] \/ waiting'[q] = waiting[q] \cup {Id}
          /\ IsFiniteSet(waiting[q]) /\ Cardinality(waiting[q]) \in Nat
          /\ heard[q] \in Nat /\ dead[q] \in Nat /\ copies \in Nat
      BY <2>3, WireFacts
    <3>2. Cardinality(waiting'[q]) \in Nat /\ Cardinality(waiting'[q]) <= Cardinality(waiting[q]) + 1
      <4>1. Cardinality(waiting[q] \cup {Id}) = IF Id \in waiting[q] THEN Cardinality(waiting[q])
                                                ELSE Cardinality(waiting[q]) + 1
        BY <3>1, FS_AddElement
      <4> QED BY <3>1, <4>1
    <3>3. heard[q] + dead[q] + Cardinality(waiting[q]) <= copies
      BY <1>1 DEF CopyCounts
    <3> QED BY <2>1, <3>1, <3>2, <3>3
  <2>6. CopyCounts'
    BY <2>1, <2>5 DEF CopyCounts
  <2>7. OneId'
    BY <1>1, <2>1, <2>2, <2>3 DEF OneId, Wires!Reissued
  <2>8. ASSUME NEW q \in Wires!Queues
        PROVE  Heard(q)'
    <3>1. Heard(q) /\ (Reached(q) => Wires!Bound(q))
      BY <1>1 DEF HeardByQueues, Reached
    <3> QED BY <2>1, <2>3, <3>1 DEF Heard
  <2>9. HeardByQueues'
    BY <1>1, <2>1, <2>8 DEF HeardByQueues
  <2> QED BY <2>4, <2>6, <2>7, <2>9 DEF WireInv
<1>3. CASE Wires!MarkProcessed
  <2>1. /\ copies > 0 /\ processed' = TRUE
        /\ UNCHANGED <<row, copies, waiting, claims, heard, dead>>
    BY <1>3 DEF Wires!MarkProcessed
  <2>2. Wires!TypeOK' /\ CopyCounts' /\ OneId'
    BY <1>1, <2>1 DEF Wires!TypeOK, CopyCounts, OneId, Wires!Reissued
  <2>3. HeardByQueues'
    BY <1>1, <2>1 DEF HeardByQueues, Heard, Reached, Wires!Bound, Wires!Accepts
  <2> QED BY <2>2, <2>3 DEF WireInv
<1> QED BY <1>2, <1>3 DEF Wires!Relay

\* A copy leaves its queue: rejected, ignored, or claimed and acted on.
LEMMA WireDeliver ==
  ASSUME WireInv, NEW q \in Wires!Queues, NEW id \in Wires!Ids, Wires!Deliver(q, id)
  PROVE  WireInv'
<1>1. Wires!TypeOK /\ CopyCounts /\ OneId /\ HeardByQueues
  BY DEF WireInv
<1>2. /\ UNCHANGED <<row, processed, copies>>
      /\ id \in waiting[q] /\ waiting' = [waiting EXCEPT ![q] = @ \ {id}]
  BY DEF Wires!Deliver, Wires!Reject, Wires!Ignore, Wires!Handle, Wires!Take
<1>3. /\ \A p \in Wires!Queues : (Reached(p)' <=> Reached(p)) /\ (Wires!Bound(p)' <=> Wires!Bound(p))
      /\ Wires!Reissued(row)' <=> Wires!Reissued(row)
  BY <1>2 DEF Reached, Wires!Bound, Wires!Accepts, Wires!Reissued
<1>4. /\ waiting' \in [Wires!Queues -> SUBSET Wires!Ids] /\ waiting'[q] = waiting[q] \ {id}
      /\ \A p \in Wires!Queues : p # q => waiting'[p] = waiting[p]
      /\ \A p \in Wires!Queues : waiting'[p] \subseteq waiting[p]
  BY <1>2, WireFacts
<1>5. Cardinality(waiting'[q]) = Cardinality(waiting[q]) - 1
  BY <1>2, <1>4, WireFacts, FS_RemoveElement
<1>6. \A p \in Wires!Queues : Heard(p) /\ heard[p] + dead[p] + Cardinality(waiting[p]) <= copies
  BY <1>1 DEF HeardByQueues, CopyCounts
<1>7. /\ copies \in Nat /\ copies <= MaxCopies /\ MaxCopies \in Nat
      /\ heard[q] \in Nat /\ dead[q] \in Nat /\ Cardinality(waiting[q]) \in Nat
      /\ Cardinality(waiting[q]) # 0
  BY <1>2, WireFacts, FS_EmptySet
<1>8. /\ Cardinality(waiting'[q]) \in Nat
      /\ heard[q] + dead[q] + Cardinality(waiting'[q]) + 1 <= copies
  <2>1. heard[q] + dead[q] + Cardinality(waiting[q]) <= copies
    BY <1>6
  <2> QED BY <1>5, <1>7, <2>1
<1>9. CASE Wires!Reject(q, id) \/ Wires!Ignore(q, id)
  <2>1. /\ UNCHANGED <<claims, heard>> /\ ~(Reached(q) /\ row.type \in q.branches)
        /\ dead' = dead \/ dead' = [dead EXCEPT ![q] = @ + 1]
    BY <1>9 DEF Wires!Reject, Wires!Ignore, Reached
  <2>2. dead[q] + 1 \in 0..MaxCopies /\ heard[q] + (dead[q] + 1) + Cardinality(waiting'[q]) <= copies
    BY <1>7, <1>8
  <2>3. /\ dead' \in [Wires!Queues -> 0..MaxCopies]
        /\ dead'[q] \in {dead[q], dead[q] + 1}
        /\ \A p \in Wires!Queues : p # q => dead'[p] = dead[p]
    BY <2>1, <2>2, WireFacts
  <2>4. Wires!TypeOK'
    BY <1>1, <1>2, <1>4, <2>1, <2>3 DEF Wires!TypeOK
  <2>5. heard'[q] + dead'[q] + Cardinality(waiting'[q]) <= copies
    BY <1>5, <1>6, <1>7, <2>1, <2>2, <2>3
  <2>6. CopyCounts'
    BY <1>1, <1>2, <1>4, <2>1, <2>3, <2>5 DEF CopyCounts
  <2>7. OneId'
    BY <1>1, <1>2, <1>3, <1>4, <2>1 DEF OneId
  <2>8. ASSUME NEW p \in Wires!Queues
        PROVE  Heard(p)'
    BY <1>2, <1>3, <1>4, <1>6, <2>1 DEF Heard
  <2> QED BY <1>1, <2>1, <2>4, <2>6, <2>7, <2>8 DEF WireInv, HeardByQueues
<1>10. CASE Wires!Handle(q, id)
  <2>1. /\ Reached(q) /\ row.type \in q.branches /\ UNCHANGED dead
        /\ claims' = [claims EXCEPT ![q.service] = @ \cup {id}]
        /\ heard' = [heard EXCEPT ![q] = IF id \in claims[q.service] THEN @ ELSE @ + 1]
    BY <1>2, <1>6, <1>10 DEF Wires!Handle, Reached, Heard
  <2>2. heard[q] + 1 \in 0..MaxCopies /\ (heard[q] + 1) + dead[q] + Cardinality(waiting'[q]) <= copies
    BY <1>7, <1>8
  <2>3. /\ heard' \in [Wires!Queues -> 0..MaxCopies]
        /\ heard'[q] = IF id \in claims[q.service] THEN heard[q] ELSE heard[q] + 1
        /\ \A p \in Wires!Queues : p # q => heard'[p] = heard[p]
    BY <2>1, <2>2, WireFacts
  <2>4. /\ claims' \in [Consumers -> SUBSET Wires!Ids]
        /\ claims'[q.service] = claims[q.service] \cup {id}
        /\ \A s \in Consumers : s # q.service => claims'[s] = claims[s]
        /\ \A s \in Consumers : claims[s] \subseteq claims'[s]
        /\ q.service \in Consumers
    BY <2>1, WireFacts
  <2>5. Wires!TypeOK'
    BY <1>1, <1>2, <1>4, <2>1, <2>3, <2>4 DEF Wires!TypeOK, Consumers
  <2>6. CopyCounts'
    <3>1. heard'[q] + dead'[q] + Cardinality(waiting'[q]) <= copies
      BY <1>5, <1>6, <1>7, <2>1, <2>2, <2>3
    <3> QED BY <1>1, <1>2, <1>4, <2>1, <2>3, <3>1 DEF CopyCounts
  <2>7. OneId'
    <3>1. ASSUME ~Wires!Reissued(row)
          PROVE  heard'[q] <= 1 /\ id = 0
      <4>1. id = 0 /\ heard[q] <= 1 /\ claims[q.service] \subseteq {0}
        BY <1>1, <1>2, <2>4, <3>1 DEF OneId
      <4>2. heard[q] > 0 => id \in claims[q.service]
        BY <1>6, <4>1 DEF Heard
      <4> QED BY <1>7, <2>3, <4>1, <4>2
    <3> QED BY <1>1, <1>3, <1>4, <2>3, <2>4, <3>1 DEF OneId
  <2>8. ASSUME NEW p \in Wires!Queues
        PROVE  Heard(p)'
    <3>1. p.service \in Consumers /\ Heard(p) /\ heard[q] \in Nat
      BY <1>6, WireFacts
    <3>2. claims'[p.service] = {} => claims[p.service] = {} /\ p # q
      BY <2>4, <3>1
    <3>3. CASE p = q
      BY <1>2, <1>3, <1>4, <2>1, <2>4, <3>1, <3>3 DEF Heard
    <3>4. CASE p # q
      BY <1>2, <1>3, <1>4, <2>3, <3>1, <3>2, <3>4 DEF Heard
    <3> QED BY <3>3, <3>4
  <2>9. ASSUME NEW s \in Consumers, claims'[s] # {}
        PROVE  \E p \in Wires!Queues : p.service = s /\ heard'[p] > 0
    <3>1. \A p \in Wires!Queues : heard[p] > 0 => heard'[p] > 0
      BY <1>7, <2>3
    <3>2. CASE claims[s] # {}
      BY <1>1, <3>1, <3>2 DEF HeardByQueues
    <3>3. CASE claims[s] = {}
      <4>1. s = q.service /\ id \notin claims[s]
        BY <2>4, <2>9, <3>3
      <4>2. heard'[q] > 0
        BY <1>7, <2>3, <4>1
      <4> QED BY <4>1, <4>2
    <3> QED BY <3>2, <3>3
  <2> QED BY <2>5, <2>6, <2>7, <2>8, <2>9 DEF WireInv, HeardByQueues
<1> QED BY <1>9, <1>10 DEF Wires!Deliver

\* The wiring's invariant holds while any part runs.
THEOREM WireInductive == Spec => []WireInv
<1>1. Init => WireInv
  BY WireStart DEF Init
<1>2. ASSUME WireInv, [Next]_allVars
      PROVE  WireInv'
  <2>1. CASE UNCHANGED messagingVars
    BY <1>2, <2>1, WireStays
  <2>2. CASE Wires!Next
    BY <1>2, <2>2, WireRelay, WireDeliver DEF Wires!Next
  <2> QED BY <1>2, <2>1, <2>2 DEF Next, Synchronise, Cache, Wishing, Shopping, Notify,
         Generate, Route, Operate, allVars
<1> QED BY <1>1, <1>2, PTL DEF Spec

\* A settled row was claimed by every service it reached; the wiring leads it
\* to one queue of each listening service, and only that queue heard it.  The
\* payment service's consumer hears nothing, and the order service's of
\* shipments neither.
THEOREM ListenersHearAll == Spec => []ListenersHear
<1>1. ASSUME WireInv, NEW s \in Consumers, Wires!Settled,
             Wires!Listeners(s) \ Wires!Deaf # {}
      PROVE  Cardinality({q \in Wires!Listeners(s) : heard[q] > 0}) = 1
  <2>1. /\ processed /\ copies > 0 /\ row \in Wires!Rows
        /\ \A q \in Wires!Queues : waiting[q] = {} /\ Heard(q)
    BY <1>1, WireFacts DEF Wires!Settled, WireInv, CopyCounts, HeardByQueues
  <2>2. PICK q \in Wires!Listeners(s) :
          /\ row.type \in q.branches /\ Reached(q)
          /\ \A p \in Wires!Listeners(s) : row.type \in p.branches /\ Reached(p) => p = q
    BY <1>1, <2>1, ListenersReached DEF ReachedOnce
  <2>3. /\ q \in Wires!Queues /\ q.service = s
        /\ \A p : p \in Wires!Listeners(s) <=>
             p \in Wires!Queues /\ p.service = s /\ row.type \in p.branches
    BY DEF Wires!Listeners
  <2>4. claims[s] # {}
    BY <2>1, <2>2, <2>3 DEF Heard
  <2>5. PICK p \in Wires!Queues : p.service = s /\ heard[p] > 0
    BY <1>1, <2>4 DEF WireInv, HeardByQueues
  <2>6. \A r \in Wires!Listeners(s) : heard[r] > 0 => r = q
    BY <2>1, <2>2, <2>3 DEF Heard
  <2>7. p = q
    BY <2>1, <2>3, <2>5, <2>6 DEF Heard
  <2>8. {r \in Wires!Listeners(s) : heard[r] > 0} = {q}
    BY <2>5, <2>6, <2>7
  <2> QED BY <2>8, FS_Singleton
<1>2. ASSUME WireInv, NEW s \in Consumers, ~Wires!Reissued(row),
             NEW q \in Wires!Listeners(s), heard[q] > 0
      PROVE  heard[q] = 1
  <2>1. q \in Wires!Queues
    BY DEF Wires!Listeners
  <2>2. heard[q] \in Nat /\ heard[q] <= 1
    BY <1>2, <2>1, WireFacts DEF WireInv, OneId
  <2> QED BY <1>2, <2>2
<1>3. ASSUME WireInv, NEW q \in Wires!Deaf
      PROVE  heard[q] = 0
  <2>1. q \in Wires!Queues
    BY DEF Wires!Deaf, Wires!Queues
  <2>2. Heard(q) /\ heard[q] \in Nat
    BY <1>3, <2>1, WireFacts DEF WireInv, HeardByQueues
  <2> QED BY <2>2, DeafUnreached DEF Heard
<1>4. WireInv => ListenersHear
  BY <1>1, <1>2, <1>3, SameCardinality DEF ListenersHear, Wires!ListenersHear, Consumers
<1> QED BY <1>4, WireInductive, PTL

-----------------------------------------------------------------------------
(* The types.                                                               *)

\* Each request ends once, so the rows and the ids are no more than the
\* requests.
LEMMA WishTyped ==
  ASSUME WishInv
  PROVE  Wish!TypeOK
<1>1. /\ WishEnded \in 0..Cardinality(Requests) /\ Cardinality(Requests) \in Nat
      /\ wishlists \in Nat /\ wishlists <= WishEnded
  BY BackOfficeAssumption, EndedBounded DEF BackOfficeAssumption, WishEnded, WishInv, WishRows
<1>2. wishlists \in 0..Cardinality(Requests)
  BY <1>1
<1>3. wishlist \in 0..wishlists
  BY DEF WishInv, WishTypes
<1>4. wishlist \in 0..Cardinality(Requests)
  BY <1>1, <1>2, <1>3
<1>5. Wish!MaxRows = Cardinality(Requests)
  BY SameCardinality DEF Wish!MaxRows
<1> QED BY <1>2, <1>4, <1>5 DEF WishInv, WishTypes, WishReqs, Wish!TypeOK

LEMMA CartTyped ==
  ASSUME CartInv
  PROVE  Basket!TypeOK
<1>1. /\ CartEnded \in 0..Cardinality(Requests) /\ Cardinality(Requests) \in Nat
      /\ lineIds \in Nat /\ lineIds <= CartEnded
      /\ lines \subseteq 1..lineIds /\ ordered \subseteq 1..lineIds
  BY BackOfficeAssumption, EndedBounded DEF BackOfficeAssumption, CartEnded, CartInv, CartLines
<1>2. lineIds \in 0..Cardinality(Requests) /\ 1..lineIds \subseteq 1..Cardinality(Requests)
  BY <1>1
<1>3. Basket!Ids = 1..Cardinality(Requests) /\ Basket!Cardinality(Requests) = Cardinality(Requests)
  BY SameCardinality DEF Basket!Ids
<1>4. /\ cartReq \in [Requests -> [op : {"add", "update", "remove", "clear"},
                                   step : {"new", "ready", "end"}, seen : SUBSET Basket!Ids]]
      /\ orderSeen \in [Basket!OrderEvents -> SUBSET Basket!Ids]
  <2>1. SUBSET (1..lineIds) \subseteq SUBSET Basket!Ids
    BY <1>2, <1>3
  <2>2. /\ cartReq \in [Requests -> [op : {"add", "update", "remove", "clear"},
                                     step : {"new", "ready", "end"}, seen : SUBSET (1..lineIds)]]
        /\ orderSeen \in [Basket!OrderEvents -> SUBSET (1..lineIds)]
    BY DEF CartInv, CartTypes, CartReqs
  <2> QED BY <2>1, <2>2
<1> QED BY <1>1, <1>2, <1>3, <1>4 DEF CartInv, CartTypes, Basket!TypeOK

\* Each further email or row cost a fault.
LEMMA NoticeTyped ==
  ASSUME NoticeInv
  PROVE  Notice!TypeOK
<1>1. /\ MaxFaults \in Nat /\ noticeFaults \in 0..MaxFaults /\ Notice!Bound = MaxFaults + 1
      /\ task \in [Events -> Nat] /\ sent \in [Events -> Nat]
      /\ notices \in [Events -> [unread : Nat, read : Nat, gone : Nat]]
  BY BackOfficeAssumption DEF BackOfficeAssumption, NoticeInv, NoticeTypes, Notice!Bound
<1>2. ASSUME NEW e \in Events
      PROVE  /\ task[e] \in 0..Notice!Bound /\ sent[e] \in 0..2 * Notice!Bound
             /\ notices[e] \in [unread : 0..Notice!Bound, read : 0..Notice!Bound,
                                gone : 0..Notice!Bound]
  <2>1. Mails(e) <= noticeFaults + 1 /\ Notice!Saved(e) <= noticeFaults + 1
    BY DEF NoticeInv, NoticeEvent, NoticeBound
  <2>2. task[e] \in 0..Notice!Bound /\ sent[e] \in 0..2 * Notice!Bound
    BY <1>1, <2>1 DEF Mails
  <2>3. notices[e] \in [unread : Nat, read : Nat, gone : Nat]
    BY <1>1
  <2>4. notices[e].unread + notices[e].read + notices[e].gone <= noticeFaults + 1
    BY <2>1 DEF Notice!Saved
  <2>5. /\ notices[e].unread \in 0..Notice!Bound /\ notices[e].read \in 0..Notice!Bound
        /\ notices[e].gone \in 0..Notice!Bound
    BY <1>1, <2>3, <2>4
  <2> QED BY <2>2, <2>3, <2>5
<1>3. /\ task \in [Events -> 0..Notice!Bound] /\ sent \in [Events -> 0..2 * Notice!Bound]
      /\ notices \in [Events -> [unread : 0..Notice!Bound, read : 0..Notice!Bound,
                                 gone : 0..Notice!Bound]]
  BY <1>1, <1>2
<1> QED BY <1>3 DEF NoticeInv, NoticeTypes, Notice!TypeOK

\* The counter has counted each request once.
LEMMA ImagesTyped ==
  ASSUME ImagesInv
  PROVE  Images!TypeOK
<1>1. /\ Images!Size = Cardinality(Generations) /\ Cardinality(Generations) \in Nat
      /\ Cardinality(Counted) <= Cardinality(Generations) /\ Cardinality(Counted) \in Nat
  <2>1. Counted \in SUBSET Generations
    BY DEF Counted
  <2> QED BY <2>1, QuotaFacts, SameCardinality DEF Images!Size
<1>2. /\ counter \in [count : Nat, ttl : {"none", "running"}, window : 1..MaxWindows + 1]
      /\ request \in [Generations -> [step : Images!Steps, count : Nat, window : 0..MaxWindows + 1]]
      /\ counter.count <= Cardinality(Counted)
      /\ \A q \in Generations : request[q].count <= Cardinality(Generations)
  BY DEF ImagesInv, QuotaInv, QuotaTypes, Place
<1>3. counter.count \in 0..Images!Size /\ \A q \in Generations : request[q].count \in 0..Images!Size
  BY <1>1, <1>2
<1>4. /\ counter \in [count : 0..Images!Size, ttl : {"none", "running"}, window : 1..MaxWindows + 1]
      /\ request \in [Generations -> [step : Images!Steps, count : 0..Images!Size,
                                      window : 0..MaxWindows + 1]]
  BY <1>2, <1>3
<1> QED BY <1>4 DEF ImagesInv, JobTypes, Images!TypeOK

\* Every part keeps its types, whichever runs: no cart has more lines and no
\* counter more requests than there are requests, no event more emails than
\* faults and one.
THEOREM BackOfficeTyped == Spec => []BackOfficeTypeOK
<1>1. Init => part \in Parts
  BY DEF Init
<1>2. part \in Parts /\ [Next]_allVars => (part \in Parts)'
  BY DEF Next, Synchronise, Cache, Wishing, Shopping, Notify, Generate, Route, Operate, allVars
<1>3. Spec => [](part \in Parts)
  BY <1>1, <1>2, PTL DEF Spec
<1>4. /\ part \in Parts /\ SyncInv /\ GateInv /\ WishInv /\ CartInv
      /\ NoticeInv /\ ImagesInv /\ WireInv /\ ProcInv
      => BackOfficeTypeOK
  BY WishTyped, CartTyped, NoticeTyped, ImagesTyped
     DEF SyncInv, GateInv, WireInv, ProcInv, BackOfficeTypeOK
<1> QED BY <1>3, <1>4, SyncInductive, GateInductive, WishInductive, CartInductive,
           NoticeInductive, ImagesInductive, WireInductive, ProcInductive, PTL

=============================================================================
