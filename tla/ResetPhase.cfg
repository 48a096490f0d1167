SPECIFICATION FairSpecReset
INVARIANTS
  CadenceAligned
PROPERTIES
  ReleaseEarned
  PhaseSpec
  ReleaseEnds
