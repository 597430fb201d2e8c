SPECIFICATION Spec
CONSTANTS
  r1 = r1
  r2 = r2
  r3 = r3
  p1 = p1
  p2 = p2
  Requests = {r1, r2}
  Leavers = {}
  Providers = {p1, p2}
  FillFirst = {p1}
  NumKeys <- MCNumKeys
  Chains <- MCChains
  LeastBusy = FALSE
  Endpoints = {"messages", "chat"}
  MaxAttempts = 3
  Overrides = {}
  MaxShift = 1
  SoftCap = 2
  HardCool = 2
  Hints = {0}
  Caching = TRUE
  RespPatterns = TRUE
  Threshold = 2
  OpenFor = 1
  MaxNow = 2
SYMMETRY Symmetric
INVARIANTS
  TypeOK
  InflightCounts
  AttemptsWithinBudget
  NoKeyTwice
  NoPrematureFallback
  BreakerNeedsCalls
