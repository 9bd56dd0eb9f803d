\* Threads may fail to be created or started.  The model stops when a running thread is closed.
CONSTANTS
  n = n
  a = a
  b = b
  Macros <- MCMacros
  Neutral = n
  MAX_SIZE = 2
  Faults = {"create", "start"}
  Left = Left
  Right = Right
  NoDevice = NoDevice
  States = {n, a, b}
  Own = Own
  Readers <- MCReaders
  MaxMoves = 2
SPECIFICATION InjectionSpec
CHECK_DEADLOCK FALSE
INVARIANTS
  PlayedFaithful
  SidesKept
  NoFrameSticks
PROPERTIES
  PlaybackEnds
  PlaybackAdvances
  ImplementsService
