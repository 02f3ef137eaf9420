SPECIFICATION FairSpec
CONSTANTS
  w1 = w1
  w2 = w2
  p1 = p1
  p2 = p2
  p3 = p3
  Workload = {w1, w2}
  Pod = {p1, p3}
  Owner <- MCOwner
  Handler = {h1}
  NoRecord = NoRecord
  MaxHeals = 2
  MaxFaults = 1
INVARIANTS
  RecordsFaithful
  VerdictsCurrent
  RolledBackNotReplayed
PROPERTIES
  ImplementsContract
  RecordsSettle
