SPECIFICATION Spec
CONSTANTS
  c1 = c1
  c2 = c2
  r1 = r1
  r2 = r2
  r3 = r3
  r4 = r4
  Clients = {c1, c2}
  Late = {c2}
  Limit <- MCLimit
  TPM <- MCTPM
  RPM = 1
  Allowed <- MCAllowed
  FreeModels <- MCFree
  MaxInput = 8
  InjBlocks = TRUE
  PeriodLen = 2
  Costs = {0, 1, 2}
  NewLimits <- MCNewLimits
  Mixes <- MCSame
  Requests = {r1, r2, r3}
  MaxBuckets = 1
  MaxBusy = 2
  MaxFaults = 0
  MaxNow = 3
CHECK_DEADLOCK FALSE
PROPERTIES
  NextWindowAllows
