\* No fault: two mappings, the first of which is deleted.
CONSTANTS
  Pads = {padA, padB}
  Masks = {m}
  Zero = Zero
  Paths = {p}
  NoPath = NoPath
  MaxMacros = 2
  Faults = {}
SPECIFICATION Spec
SYMMETRY PadSymmetry
CHECK_DEADLOCK FALSE
INVARIANT ItemsEditTheirOwn
