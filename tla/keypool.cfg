\* Three keys, two concurrent callers.  Backoff 1, 2, 3 (cap), hints 0 and 4,
\* hard cooldown 4.
SPECIFICATION Spec
CONSTANTS
  N = 3
  Callers = {c1, c2}
  MaxShift = 2
  SoftCap = 3
  HardCool = 4
  Hints = {0, 4}
  MaxNow = 4
  MaxFails = 3
SYMMETRY CallerSymmetry
INVARIANTS
  TypeOK
  RotationFair
  CooldownBounded
PROPERTY
  CooldownOnlyCutBySuccess
