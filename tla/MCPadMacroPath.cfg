\* A reload while a playback starts.
CONSTANTS
  A = A
  B = B
  p = p
  q = q
  Buttons = {A, B}
  Paths = {p, q}
  Latest = Latest
  Freed = Freed
  Configs <- MCConfigs
SPECIFICATION Spec
CHECK_DEADLOCK FALSE
INVARIANT PathValidWhenUsed
