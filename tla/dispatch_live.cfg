\* Two requests, r1's client may disconnect at any moment; no symmetry, since
\* liveness is checked.
SPECIFICATION FairSpec
CONSTANTS
  r1 = r1
  r2 = r2
  r3 = r3
  p1 = p1
  p2 = p2
  Requests = {r1, r2}
  Leavers = {r1}
  Providers = {p1, p2}
  FillFirst = {p1}
  NumKeys <- MCNumKeys
  Chains <- MCChains
  LeastBusy = FALSE
  Endpoints = {"messages", "chatStream"}
  MaxAttempts = 1
  Overrides = {2}
  MaxShift = 1
  SoftCap = 1
  HardCool = 1
  Hints = {0}
  Caching = FALSE
  RespPatterns = TRUE
  Threshold = 2
  OpenFor = 1
  MaxNow = 1
PROPERTIES
  LeaverFreed
  Answered
