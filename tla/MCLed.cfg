\* Two pads with an LED and one without, on two npads.
CONSTANTS
  p1 = p1
  p2 = p2
  p3 = p3
  Pads = {p1, p2, p3}
  NoPad = NoPad
  HasLed = {p1, p2}
  MAX_PADS = 2
  Threads <- MCThreads
  Patterns <- MCPatterns
  MaxMoves = 2
SPECIFICATION UsersSpec
CHECK_DEADLOCK FALSE
INVARIANTS
  LedShown
  DarkWhenIdle
