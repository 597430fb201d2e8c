SPECIFICATION Spec
CONSTANTS
  d1 = d1
  r1 = r1
  r2 = r2
  r3 = r3
  q1 = q1
  q2 = q2
  q3 = q3
  d2 = d2
  Replicas = {d1, d2}
  Requests = {r1, r2, r3}
  Prompts = {q1, q2, q3}
  Targets = {"t", "u"}
  CustomKeys = {"c"}
  Mixes <- MCMixes
  Sim <- MCSim
  Threshold = 2
  MaxEntries = 2
  TTL = 1
  Semantic = TRUE
  Shared = TRUE
  MaxBusy = 2
  MaxFaults = 1
  MaxNow = 3
CHECK_DEADLOCK FALSE
INVARIANTS
  TypeOK
  ExactHitsMatch
  SemanticHitsNear
  IndexedAfterSaved
PROPERTIES
  ServedFresh
  NewestSurvives
