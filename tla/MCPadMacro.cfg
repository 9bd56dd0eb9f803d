\* Three configurations, loaded at any time; exit at any time.
CONSTANTS
  A = A
  B = B
  p = p
  q = q
  Buttons = {A, B}
  Paths = {p, q}
  Latest = Latest
  Freed = Freed
  Configs <- MCConfigs
SPECIFICATION FairSpec
CHECK_DEADLOCK FALSE
INVARIANTS
  RecordingExcludesReading
  LedOffWhenQuiet
PROPERTIES
  OnlyAsConfigured
  ExitAdvances
  ExitCompletes
  UsesRecorder
  UsesPlayer
