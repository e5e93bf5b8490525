----------------------------- MODULE MCOrderSaga -----------------------------
(***************************************************************************)
(* Model checking of OrderSaga: a mixed order (a catalog and a custom      *)
(* line), a custom-only one, and two payment intents.  MaxOutbox caps the  *)
(* outbox rows of an order: the open environment may alternate reservation *)
(* failures and successes of a cancelled order for ever, each success      *)
(* adding a release request.                                               *)
(***************************************************************************)
EXTENDS OrderSaga

CONSTANTS MaxOutbox

MCNext == Next /\ \A o \in Orders : Len(outbox'[o]) <= MaxOutbox

MCSpec == Init /\ [][MCNext]_vars

MCFairSpec ==
  /\ MCSpec
  /\ \A o \in Orders : WF_vars(TimeoutElapses(o))
  /\ WF_vars(ExpireOnce)

=============================================================================
