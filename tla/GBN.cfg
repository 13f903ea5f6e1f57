SPECIFICATION FairSpec
CONSTANTS
  d1 = d1
  d2 = d2
  d3 = d3
  Data = {d1, d2, d3}
  Empty = Empty
  File <- MCThree
  FaultProfiles <- MCProfiles
  sendWindow = 2
INVARIANTS
  TypeOK
  WindowIsUnacknowledged
  PopsWhatWasSent
  Inv
PROPERTIES
  ImplementsReliableTransfer
  BothFinish
CHECK_DEADLOCK FALSE
