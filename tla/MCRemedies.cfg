SPECIFICATION Spec
CONSTANTS
  Settings <- MCSettings
  Workloads <- MCWorkloads
  Clusters <- MCClusters
  Proposals <- MCProposals
  Edits <- MCEdits
  MaxHeals = 2
  MaxEdits = 1
CHECK_DEADLOCK FALSE
INVARIANTS
  TypeOK
  StuckOnlyAdded
PROPERTIES
  RollbackRestores
  RaisedPodFits
