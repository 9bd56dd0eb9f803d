\* Two mappings, every fault.
CONSTANTS
  Pads = {padA, padB}
  Masks = {m}
  Zero = Zero
  Paths = {p}
  NoPath = NoPath
  MaxMacros = 2
  Faults = {"write", "resize", "service"}
SPECIFICATION Spec
SYMMETRY PadSymmetry
CHECK_DEADLOCK FALSE
INVARIANTS
  TypeOK
  FileSaysWhatIsShown
  ServiceFollowsFile
  NoEmptyCombination
