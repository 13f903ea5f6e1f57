SPECIFICATION FairSpec
CONSTANTS
  d1 = d1
  d2 = d2
  d3 = d3
  Data = {d1, d2, d3}
  Empty = Empty
  File <- MCThree
  FaultProfiles <- MCAckLoss
  sendWindow = 1
  recvWindow = 1
  dupAcks <- MCNoTriples
PROPERTY ClientFinishes
CHECK_DEADLOCK FALSE
