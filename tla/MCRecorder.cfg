\* Any number of sessions of up to three frames each, on a queue of two:
\* nothing fails, everything but the directories may, or everything may.
CONSTANTS
  PadStates = {neutral, rest, combo}
  Neutral = neutral
  RecordCombo = {combo}
  Released = {neutral, rest}
  MAX_SIZE = 2
  MaxFrames = 3
  FaultSets = {{"readState"}, {"create", "start", "fopen", "readState"}, {"create", "start", "mkdir", "fopen", "readState"}}
SPECIFICATION FairSpec
CHECK_DEADLOCK FALSE
INVARIANTS
  RecordingFaithful
  StoppedIsClean
  SessionFramesKept
PROPERTIES
  StopCompletes
  StopAdvances
  ImplementsService
