SPECIFICATION FairSpec
CONSTANTS
  d1 = d1
  d2 = d2
  d3 = d3
  Data = {d1, d2, d3}
  Empty = Empty
  File <- MCOne
  FaultProfiles <- MCNoFault
  sendWindow = 2
  recvWindow = 2
PROPERTIES
  ServerFinishes
CHECK_DEADLOCK FALSE
