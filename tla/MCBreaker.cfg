SPECIFICATION Spec
CONSTANTS
  Key = {k1}
  Handler = {h1, h2, h3}
  NoKey = NoKey
  Window = 3
  OpenFor = 3
  MaxHeals = 2
  MaxRollbacks = 2
  Horizon = 8
SYMMETRY MCSymmetry
INVARIANTS
  TripIffLimit
  HealRateBounded
PROPERTIES
  OpenUntilDeadline
