SPECIFICATION FairSpecOwner
CONSTANTS
  Addresses = {a1}
  Words = {w1}
  Unknown = Unknown
  NoTransaction = NoTransaction
INVARIANTS
  OneControllerActive
  ForcedFetchNotBlocked
PROPERTIES
  StoppedBusIsFrozen
  PinsObeyed
