SPECIFICATION Spec
CONSTANTS
  NumIncidents = 3
  Handler = {h1, h2}
  MaxPerSweep = 1
  MaxAlerts = 2
  Workloads = 4
  SurgePercent = 75
  SurgeMin = 4
INVARIANT
  BudgetRespected
