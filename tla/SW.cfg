SPECIFICATION FairSpec
CONSTANTS
  d1 = d1
  d2 = d2
  d3 = d3
  Data = {d1, d2, d3}
  Empty = Empty
  File <- MCThree
  FaultProfiles <- MCProfiles
INVARIANTS
  TypeOK
  InLockStep
  Inv
PROPERTIES
  ImplementsReliableTransfer
  ClientFinishes
  ServerFinishes
CHECK_DEADLOCK FALSE
