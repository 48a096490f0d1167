SPECIFICATION FairSpec
CONSTANTS
  CountModulus = 3
  CountDepth = 2
  Unknown = Unknown
  Unset = Unset
  NoLevel = NoLevel
  Addresses <- MCAddresses
  Programs <- MCPrograms
  ResetVector = 4
  PcDepth = 6
  LoopDepth = 3
  StatusDepth = 2
  Pins <- MCPins
  Probes <- MCProbes
INVARIANTS
  PriorityNesting
  StacksSuffice
  SlicesAgree
PROPERTIES
  InterruptTransparent
  LoopsKeepTheirOwn
  InterruptsTakeTurns
