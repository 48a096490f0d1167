SPECIFICATION Spec
CONSTANTS
  W = 4
  Guard = 2
  Exponent = 4
  Block = 4
  Address = 4
  MaxTerms = 3
INVARIANTS
  QuotientExact
  ScalingExact
  SumsExact
  BufferCircular
CHECK_DEADLOCK FALSE
