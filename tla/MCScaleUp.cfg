SPECIFICATION ScaleSpec
CONSTANTS
  Workload = {"w1", "w2"}
  NodeName = {"n1", "n2"}
  Worlds <- MCWorlds
  Wishes = {0, 3, 9}
  MaxFaults = 1
INVARIANTS
  ScaleTypeOK
  DiagnosisOnlyLowers
PROPERTIES
  ScaleUpPlaceable
  PressureRelieved
