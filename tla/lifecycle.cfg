SPECIFICATION Spec
CONSTANTS
  v1 = v1
  v2 = v2
  o1 = o1
  o2 = o2
  o3 = o3
  Variants = {v1, v2}
  Orders = {o1, o2, o3}
  Lines <- MCLines
  InitialStock <- MCStock
  Deltas <- MCDeltas
CONSTRAINT Stocked
INVARIANTS TypeOK StockMatchesOrders CountedOnce
CHECK_DEADLOCK FALSE
