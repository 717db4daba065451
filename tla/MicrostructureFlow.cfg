CONSTANTS
  Ref = {1, 2, 3}
  Price = {1, 2}
  MaxShares = 2
SPECIFICATION Spec
INVARIANTS
  FlowIsStandard
CHECK_DEADLOCK FALSE
