SPECIFICATION FairSpec
CONSTANTS
  AddressSpace = 4
  Addresses <- MCAddresses
  Words <- MCAddresses
  Unknown = Unknown
  NoTransaction = NoTransaction
  NoVector = NoVector
  Levels = {1}
  ResetVector = 0
  CacheWords = 2
  Programs <- MCPrograms
  DataAddresses = {2, Unknown}
  SetupWrites = FALSE
INVARIANTS
  OpcodeMatchesPc
  OneMachine
  StopFindsSuccessor
PROPERTIES
  StreamSpec
  HeldWorkFinishes
