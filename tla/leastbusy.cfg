SPECIFICATION Spec
CONSTANTS
  r1 = r1
  r2 = r2
  r3 = r3
  p1 = p1
  p2 = p2
  Requests = {r1, r2, r3}
  Leavers = {}
  Providers = {p1, p2}
  FillFirst = {p1}
  NumKeys <- MCOneKey
  Chains <- MCOrders
  LeastBusy = TRUE
  Endpoints = {"messages"}
  MaxAttempts = 1
  Overrides = {}
  MaxShift = 1
  SoftCap = 1
  HardCool = 2
  Hints = {0}
  Caching = FALSE
  RespPatterns = TRUE
  Threshold = 2
  OpenFor = 1
  MaxNow = 1
PROPERTY
  LeastBusyFirst
