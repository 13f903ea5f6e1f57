SPECIFICATION FairSpec
CONSTANTS
  d1 = d1
  d2 = d2
  d3 = d3
  Data = {d1, d2, d3}
  Empty = Empty
  File <- MCTwo
  FaultProfiles <- MCAckLoss
  sendWindow = 2
PROPERTY ClientFinishes
CHECK_DEADLOCK FALSE
