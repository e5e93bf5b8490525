SPECIFICATION MCFairSpec
CONSTANTS
  mixed = mixed
  custom = custom
  i1 = i1
  i2 = i2
  NoIntent = NoIntent
  Orders = {mixed, custom}
  Intents = {i1, i2}
  InventoryOrders = {mixed}
  CustomOrders = {mixed, custom}
  ExpiryLimit = 1
  MaxOutbox = 6
INVARIANTS
  ConfirmedMeansReady
  DecisionsInOrder
  StatusMatchesOutbox
  ReleaseFollowsCancel
  CancelledHoldsNothing
PROPERTIES
  CancelReleasesStock
  PendingIsDecided
CHECK_DEADLOCK FALSE
