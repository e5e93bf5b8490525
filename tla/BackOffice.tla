----------------------------- MODULE BackOffice -----------------------------
(***************************************************************************)
(* The services around the checkout, one per behaviour: the parts share no *)
(* state, so each is explored while the others rest in one initial state.  *)
(***************************************************************************)
EXTENDS Naturals, FiniteSets

CONSTANTS
  Starters, MaxRuns, MaxBatches,   \* supplier synchronisation
  MaxVersion,                      \* gateway
  Requests, Products,              \* wishlist and cart
  Events,                          \* notifications
  Generations, Limit, MaxWindows,  \* image jobs
  MaxCopies,                       \* messaging
  LiveFaults, MaxFaults            \* bounds: faults where liveness is checked, elsewhere

ASSUME BackOfficeAssumption ==
  /\ MaxRuns \in Nat /\ MaxBatches \in Nat \ {0}
  /\ MaxVersion \in Nat
  /\ IsFiniteSet(Requests) /\ IsFiniteSet(Generations)
  /\ Limit \in Nat \ {0} /\ MaxWindows \in Nat
  /\ MaxCopies \in Nat \ {0}
  /\ LiveFaults \in Nat /\ MaxFaults \in Nat

VARIABLES
  part,     \* the part this behaviour explores
  runs, starter, clock, batch, report, stuck, syncFaults,
  page, version, entry, reader, write, consumer, why,
  wishlist, wishlists, items, wishReq, user, deletion, deletionClaim, cleaned,
  leftBehind, wishFaults,
  lines, lineIds, cartReq, placed, ordered, orderEvent, orderClaim, orderSeen,
  orderLost, cartFaults,
  type, message, noticeClaim, task, sent, notices, redone, resent, unsent, noticeFaults,
  counter, request, job, jobTask, browser, unwritten, jobFaults,
  row, processed, copies, waiting, claims, heard, dead,
  process, phase, started, opened, closing, excused, delivery, deliveryClaim, cut,
  processFaults

syncVars == <<runs, starter, clock, batch, report, stuck, syncFaults>>
gatewayVars == <<page, version, entry, reader, write, consumer, why>>
wishlistVars == <<wishlist, wishlists, items, wishReq, user, deletion, deletionClaim,
                  cleaned, leftBehind, wishFaults>>
cartVars == <<lines, lineIds, cartReq, placed, ordered, orderEvent, orderClaim,
              orderSeen, orderLost, cartFaults>>
noticeVars == <<type, message, noticeClaim, task, sent, notices, redone, resent, unsent, noticeFaults>>
imageVars == <<counter, request, job, jobTask, browser, unwritten, jobFaults>>
messagingVars == <<row, processed, copies, waiting, claims, heard, dead>>
processVars == <<process, phase, started, opened, closing, excused, delivery,
                 deliveryClaim, cut, processFaults>>
allVars == <<part, syncVars, gatewayVars, wishlistVars, cartVars, noticeVars, imageVars,
             messagingVars, processVars>>

Sync == INSTANCE SupplierSync WITH MaxFaults <- LiveFaults, faults <- syncFaults
Gate == INSTANCE Gateway
Wish == INSTANCE Wishlist WITH
  row <- wishlist, last <- wishlists, req <- wishReq, event <- deletion,
  claim <- deletionClaim, why <- leftBehind, faults <- wishFaults
Basket == INSTANCE Cart WITH
  last <- lineIds, req <- cartReq, event <- orderEvent, claim <- orderClaim,
  seen <- orderSeen, lost <- orderLost, faults <- cartFaults
Notice == INSTANCE Notifications WITH
  claim <- noticeClaim, rows <- notices, faults <- noticeFaults
Images == INSTANCE ImageJobs WITH
  Requests <- Generations, MaxFaults <- LiveFaults, req <- request, task <- jobTask,
  faults <- jobFaults
Wires == INSTANCE Messaging
Proc == INSTANCE Processes WITH
  message <- delivery, claim <- deliveryClaim, faults <- processFaults

Parts ==
  {"sync", "gateway", "wishlist", "cart", "notifications", "images", "messaging", "processes"}

BackOfficeTypeOK ==
  /\ part \in Parts
  /\ Sync!TypeOK /\ Gate!TypeOK /\ Wish!TypeOK /\ Basket!TypeOK
  /\ Notice!TypeOK /\ Images!TypeOK /\ Wires!TypeOK /\ Proc!TypeOK

-----------------------------------------------------------------------------

\* What a resting part would have chosen among its initial states.
Resting(p, value, values) == part # p => value = CHOOSE v \in values : TRUE

Init ==
  /\ part \in Parts
  /\ Sync!Init /\ Images!Init
  /\ Gate!Init /\ Resting("gateway", page, Gate!Pages)
  /\ Wish!Init
  /\ part # "wishlist" => \A q \in Requests :
       wishReq[q].op = "get" /\ Resting("wishlist", wishReq[q].item, Products)
  /\ Basket!Init
  /\ part # "cart" => \A q \in Requests : cartReq[q].op = "clear"
  /\ Notice!Init
  /\ \A e \in Events : Resting("notifications", type[e], Notice!Types)
  /\ Wires!Init /\ Resting("messaging", row, Wires!Rows)
  /\ Proc!Init /\ Resting("processes", process, Proc!Processes)

Synchronise ==
  /\ part = "sync"
  /\ UNCHANGED <<part, gatewayVars, wishlistVars, cartVars, noticeVars, imageVars, messagingVars,
                 processVars>>
  /\ Sync!Next

Cache ==
  /\ part = "gateway"
  /\ UNCHANGED <<part, syncVars, wishlistVars, cartVars, noticeVars, imageVars, messagingVars,
                 processVars>>
  /\ Gate!Next

Wishing ==
  /\ part = "wishlist"
  /\ UNCHANGED <<part, syncVars, gatewayVars, cartVars, noticeVars, imageVars, messagingVars,
                 processVars>>
  /\ Wish!Next

Shopping ==
  /\ part = "cart"
  /\ UNCHANGED <<part, syncVars, gatewayVars, wishlistVars, noticeVars, imageVars, messagingVars,
                 processVars>>
  /\ Basket!Next

Notify ==
  /\ part = "notifications"
  /\ UNCHANGED <<part, syncVars, gatewayVars, wishlistVars, cartVars, imageVars, messagingVars,
                 processVars>>
  /\ Notice!Next

Generate ==
  /\ part = "images"
  /\ UNCHANGED <<part, syncVars, gatewayVars, wishlistVars, cartVars, noticeVars, messagingVars,
                 processVars>>
  /\ Images!Next

Route ==
  /\ part = "messaging"
  /\ UNCHANGED <<part, syncVars, gatewayVars, wishlistVars, cartVars, noticeVars, imageVars,
                 processVars>>
  /\ Wires!Next

Operate ==
  /\ part = "processes"
  /\ UNCHANGED <<part, syncVars, gatewayVars, wishlistVars, cartVars, noticeVars, imageVars,
                 messagingVars>>
  /\ Proc!Next

Next ==
  \/ Synchronise \/ Cache \/ Wishing \/ Shopping \/ Notify \/ Generate \/ Route \/ Operate

\* The supplier and product services' processes and the image worker run.
SyncGoesOn ==
  /\ part = "sync"
  /\ UNCHANGED <<part, gatewayVars, wishlistVars, cartVars, noticeVars, imageVars, messagingVars,
                 processVars>>
  /\ Sync!Progress

ImagesGoOn ==
  /\ part = "images"
  /\ UNCHANGED <<part, syncVars, gatewayVars, wishlistVars, cartVars, noticeVars, messagingVars,
                 processVars>>
  /\ Images!Progress

Spec ==
  /\ Init /\ [][Next]_allVars
  /\ WF_allVars(SyncGoesOn) /\ WF_allVars(ImagesGoOn)

-----------------------------------------------------------------------------
(* Properties of the parts, where they are stated and explained.            *)

\* A completed run has seen every batch imported.
CompletedSawEveryBatch == Sync!CompletedSawEveryBatch
\* A run ends unless it lost its call, a batch or a report.
EveryRunEnds == Sync!EveryRunEnds
\* A stale cached answer is about to be cleared, or one of four races left it.
StaleIsExplained == Gate!StaleIsExplained
\* A deleted user's wishlist is gone once user.deleted is dealt with.
WishlistGoneWithUser == Wish!WishlistGoneWithUser
\* Ordered lines leave the cart unless both handlers were lost.
OrderedLinesLeaveCart == Basket!OrderedLinesLeaveCart
\* At most one email and one notification per event, and at least one of each it
\* calls for, but for the failures that the history names.
OneNoticePerEvent == Notice!OneNoticePerEvent
\* No window admits more than Limit, and every window ends.
QuotaHolds == Images!QuotaHolds
\* An accepted generation job ends unless its end could not be written.
JobEnds == Images!JobEnds
\* Every service hears once, through one queue, each event it has a branch for.
ListenersHear == Wires!ListenersHear
\* A process that has ended holds nothing open but what it could not close.
NothingLeaks == Proc!NothingLeaks
\* Only a running handler holds a claim, or one that the end of its process or a
\* failure of Redis cut off.
ShutdownSettlesClaims == Proc!ShutdownSettlesClaims

=============================================================================
