SPECIFICATION Spec
CONSTANTS
  v1 = v1
  v2 = v2
  r1 = r1
  r2 = r2
  w1 = w1
  w2 = w2
  Variants = {v1, v2}
  Requests = {r1, r2}
  Ordered <- MCOrdered
  Price <- MCPrice
  Charge = 13
  Dtos <- MCDtos
  Sold <- NotYetShipped
  ByHand = {}
  Workers = {w1}
  MaxFaults = 0
PROPERTY PartialKeepsOrder
CHECK_DEADLOCK FALSE
