SPECIFICATION FairSpec
CONSTANTS
  Unset = Unset
  NoLevel = NoLevel
  NoInstruction = NoInstruction
  NoOwner = NoOwner
  NoAccess = NoAccess
  DataRequests = {read, write}
  Masks = {{}, {3}}
  EdgeMasks = {{}, {3}}
  Attachments = {"BUS", "OWNER", "HALT", "DM"}
  Pins = {1, 3}
INVARIANTS
  PairedCompletion
  EdgeRemembered
PROPERTIES
  TrapAnsweredFirst
  PendingFetchEnds
