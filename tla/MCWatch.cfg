SPECIFICATION WatchSpec
CONSTANTS
  Options <- MCOptions
  Limited = {"MemoryPressure"}
  MaxAge = 2
  MaxRestarts = 2
  Mounts = TRUE
  Waits = {"ContainerCreating", "PodInitializing", "ImagePullBackOff",
           "CreateContainerConfigError"}
  Failures = {"Evicted", "NodeShutdown", ""}
  Deaths = {"OOMKilled", "Error", "Completed"}
INVARIANTS
  BrokenIsFound
  ForecastsSustained
  ReadinessTold
PROPERTIES
  OutageReported
