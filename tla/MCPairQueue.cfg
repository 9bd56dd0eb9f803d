\* Two producers and a consumer on a buffer of two slots; the proofs cover all sizes.
CONSTANTS
  Producers = {p1, p2}
  Consumers = {c1}
  Pairs = {a, b}
  NoPair = NoPair
  NoThread = NoThread
  MAX_SIZE = 2
SPECIFICATION FairSpec
INVARIANTS
  NeverOverwritesOrUnderflows
  NoLostWakeUp
PROPERTIES
  ImplementsFifo
  QueueProgresses
