CONSTANTS
  Key <- MCKey
  Value <- MCValue
  NPOS = 0
  Hashes <- MCHashes
  InitialCapacity = 4

SPECIFICATION Spec

INVARIANTS
  TableIsSound

PROPERTIES
  ImplementsOrderMap
  OperationsReturn
