\* Two files, two folders of the server on top of each other, every fault.
CONSTANTS
  Files = {f1, f2}
  f1 = f1
  f2 = f2
  s = s
  PadStates = {s}
  MaxCount = 1
  Contents <- MCContents
  Served <- MCServed
  Empty <- MCEmpty
  NoFile = NoFile
  MaxDepth = 2
  MaxResults = 1
  Faults = {"create", "fopen", "transfer"}
  FileFaults = {"delete", "read", "write"}
SPECIFICATION FilesSpec
CHECK_DEADLOCK FALSE
INVARIANTS
  FilesTypeOK
  ResultsTrue
  FreedOnlyAfterExit
  PagesSeeWholeFiles
PROPERTIES
  LastRequestAnswered
  StoreAdvances
  CloseCompletes
