SPECIFICATION Spec
CONSTANTS
  v1 = v1
  o1 = o1
  w1 = w1
  Variants = {v1}
  Orders = {o1}
  Lines <- OneLine
  InitialStock <- LastUnit
  Deltas <- LoseOne
  Workers = {w1}
  MaxIntents = 1
  MaxFaults = 1
  Active <- All
  Overlap = FALSE
INVARIANT TypeOK
PROPERTIES ImplementsLifecycle TimerSparesSales
CHECK_DEADLOCK FALSE
