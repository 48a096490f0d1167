SPECIFICATION SpecData
CONSTANTS
  Unknown = Unknown
  NoAccess = NoAccess
  W = 4
  Guard = 2
  Exponent = 4
  Block = 3
  Address = 2
  DataRequests <- MCDataRequests
  DataPrograms <- MCPrograms
  DataMemory <- MCMemory
  MaxDataIssues = 3
PROPERTIES
  AtomicSpec
