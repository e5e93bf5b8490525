SPECIFICATION FulfilmentSpec
CONSTANTS
  MaxPlaced = 2
  MaxFaults = 2
INVARIANTS
  AtMostOneCJOrder
  RefundOnlyIfNoCJOrder
  CancelReachesCJ
  ShipmentStopsWithOrder
CHECK_DEADLOCK FALSE
