SPECIFICATION Spec
CONSTANTS
  v1 = v1
  o1 = o1
  w1 = w1
  Variants = {v1}
  Orders = {o1}
  Lines <- OneLine
  InitialStock <- OneStock
  Deltas <- NoDelta
  Workers = {w1}
  MaxIntents = 1
  MaxFaults = 0
  Active <- PaymentRace
  Overlap = TRUE
CONSTRAINT Bounded
INVARIANTS SoldOnLedgeredMoney PaidCartSpent MoneyNoticed
CHECK_DEADLOCK FALSE
