SPECIFICATION Spec
CONSTANTS
  Replicas = {r1, r2}
  NoOne = NoOne
  Handlers = {h1, h2}
  Candidates <- MCCandidates
  MaxSlot = 1
  MaxEvents = 2
CHECK_DEADLOCK FALSE
INVARIANTS
  OneLeader
  RepeatsAreLostStamps
  TrailExact
PROPERTIES
  DigestOwedIsSent
