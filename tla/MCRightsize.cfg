SPECIFICATION Spec
CONSTANTS
  Pods <- MCPods
  Unowned = "none"
  Usages = {1, 3}
  Requests = {0, 2}
  MaxTracked = 1
  MinSamples = 2
  MinWindow = 1
  Headroom <- MCHeadroom
  OverRatio <- MCOverRatio
  Step = 2
  MinSaving = 2
INVARIANTS
  AdviceSettles
  AdviceCoversUsage
PROPERTIES
  ReportFills
