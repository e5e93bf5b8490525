SPECIFICATION Spec
CONSTANTS
  o1 = o1
  o2 = o2
  shirt = shirt
  shirtM = shirtM
  mug = mug
  Orders = {o1, o2}
  Stock = {shirt, shirtM, mug}
  Products = {shirt, mug}
  Owner <- MCOwner
  Demand <- MCDemand
  MaxStock = 2
  MaxAnswers = 2
INVARIANTS
  StockConserved
  LatestAnswerIsTrue
PROPERTY ReleasedIsFinal
CHECK_DEADLOCK FALSE
