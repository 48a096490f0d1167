SPECIFICATION FairSpecBus
CONSTANTS
  Addresses = {a1, a2}
  Words = {w1, w2}
  Unknown = Unknown
  NoTransaction = NoTransaction
  NoResponse = NoResponse
INVARIANTS
  GrantedBusIsIdle
  CompletionNotLost
PROPERTIES
  StrobeNotCut
  ArbiterSpec
  BusFollowsRequest
