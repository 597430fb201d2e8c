SPECIFICATION StreakSpec
CONSTANTS
  r1 = r1
  r2 = r2
  r3 = r3
  p1 = p1
  p2 = p2
  Requests = {r1, r2}
  Leavers = {}
  Providers = {p1, p2}
  FillFirst = {p1}
  NumKeys <- MCNumKeys
  Chains <- MCChains
  LeastBusy = FALSE
  Endpoints = {"chat"}
  MaxAttempts = 2
  Overrides = {}
  MaxShift = 1
  SoftCap = 1
  HardCool = 2
  Hints = {0}
  Caching = FALSE
  RespPatterns = FALSE
  Threshold = 2
  OpenFor = 1
  MaxNow = 1
PROPERTY
  OpensOnConsecutiveFailures
