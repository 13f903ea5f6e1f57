SPECIFICATION FairSpec
CONSTANTS
  d1 = d1
  d2 = d2
  d3 = d3
  Data = {d1, d2, d3}
  Empty = Empty
  File <- MCThree
  FaultProfiles <- MCMostFaults
  sendWindow = 3
  recvWindow = 2
  dupAcks <- MCTriples
INVARIANTS
  TypeOK
  Inv
  CrossedOffIsHeld
  LookupsSucceed
  WindowAdvances
  ResendIsAnswered
PROPERTIES
  ImplementsReliableTransfer
  ClientFinishesIfWithin
CHECK_DEADLOCK FALSE
