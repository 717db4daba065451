CONSTANTS
  s1 = s1
  s2 = s2
  Session <- MCSession
  MaxSequence = 3
  MaxCount = 2

SPECIFICATION Spec
SYMMETRY MCSymmetry

INVARIANTS
  NoSilentSkip
  

PROPERTIES
  NoFalseGap
  ExpectedNeverRewinds
