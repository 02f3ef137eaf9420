SPECIFICATION Spec
CONSTANTS
  c1 = c1
  c2 = c2
  oom = oom
  crash = crash
  Key = {c1, c2}
  Kind = {oom, crash}
  Problem <- MCProblem
  ResolveAfter = 1
  MaxAlerts = 1
  MaxFaults = 2
INVARIANTS
  AlertedOnce
  PatchedOnce
  
PROPERTIES
  QuietResolves
