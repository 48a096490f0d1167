SPECIFICATION Spec
CONSTANTS
  Unknown = Unknown
  NoTransaction = NoTransaction
  NoRecovery = NoRecovery
  W = 4
  Guard = 2
  Exponent = 4
  Block = 3
  Address = 2
  CacheWords = 2
  ProgramWords <- MCProgramWords
  Programs <- MCPrograms
  Memory <- MCMemory
  MaxIssues = 2
PROPERTIES
  AtomicSpec
  DeliveredWord
