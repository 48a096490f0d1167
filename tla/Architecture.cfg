SPECIFICATION Spec
CONSTANTS
  Unknown = Unknown
  W = 4
  Guard = 2
  Exponent = 4
  Block = 3
  Address = 3
  Programs <- MCPrograms
  Samples <- MCSamples
  MaxUnknown = 7
  MaxCycles = 2
INVARIANTS
  UnknownsAreHonest
  CyclesCommitAtOnce
CHECK_DEADLOCK FALSE
