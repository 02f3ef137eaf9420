SPECIFICATION Spec
CONSTANTS
  Pair = {p1, p2, p3}
  MaxEntries = 2
  MaxFailures = 2
  QuarantineFor = 2
  MaxQuarantine = 4
  FailureDecay = 2
  MaxAge = 1
  Horizon = 4
  MaxCrashes = 1
SYMMETRY MCSymmetry
CHECK_DEADLOCK FALSE
INVARIANTS
  QuarantinedNotReplayable
  NoFailedRemedy
  CleanMeansSaved
  RemediesFresh
PROPERTIES
  QuarantineKept
