SPECIFICATION FairSpec
CONSTANTS
  d1 = d1
  d2 = d2
  d3 = d3
  Data = {d1, d2, d3}
  Empty = Empty
  File <- MCThree
  FaultProfiles <- MCProfiles
  sendWindow = 2
  recvWindow = 2
INVARIANTS
  TypeOK
  Inv
  CrossedOffIsHeld
  LookupsSucceed
  ResendIsAnswered
PROPERTIES
  ImplementsReliableTransfer
  ClientFinishes
  AllAcknowledged
CHECK_DEADLOCK FALSE
