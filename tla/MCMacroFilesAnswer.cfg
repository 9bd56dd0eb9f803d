\* No fault: a Store is left and entered again.
CONSTANTS
  Files = {f1, f2}
  f1 = f1
  f2 = f2
  s = s
  PadStates = {s}
  MaxCount = 1
  Contents <- MCContents
  Served <- MCServed
  Empty <- MCEmpty
  NoFile = NoFile
  MaxDepth = 1
  MaxResults = 0
  Faults = {}
  FileFaults = {}
SPECIFICATION FilesSpec
CHECK_DEADLOCK FALSE
PROPERTY RequestAnswered
