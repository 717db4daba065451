CONSTANTS
  Ref <- MCRef
  Price <- MCPrice
  MaxShares = 2

SPECIFICATION MCSpec

VIEW MCView

INVARIANTS
  TypeOK
  StructureIsSound
  DepthIsExact
  DamageIsConfined

PROPERTIES
  CallsHaveTheirEffect

CHECK_DEADLOCK FALSE
