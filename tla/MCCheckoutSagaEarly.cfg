SPECIFICATION Spec
CONSTANTS
  o1 = o1
  i1 = i1
  r1 = r1
  mug = mug
  NoIntent = NoIntent
  Orders = {o1}
  Intents = {i1}
  InventoryOrders = {o1}
  CustomOrders = {}
  ExpiryLimit = 1
  Stock = {mug}
  Products = {mug}
  Owner <- MCOwner
  Demand <- MCDemand
  IntentOf <- MCIntentOf
  MaxStock = 1
  MaxAnswers = 1
  Requests = {r1}
  MaxDeclines = 0
  MaxOutbox = 6
  MaxLost = 0
  MaxRepeats = 0
INVARIANT PaidIsNotPending
CHECK_DEADLOCK FALSE
