SPECIFICATION FairSpec
CONSTANTS
  d1 = d1
  d2 = d2
  d3 = d3
  Data = {d1, d2, d3}
  Clients <- MCClients
  Files <- MCFiles
  Deployments <- MCLiveDeployments
  RETRIES = 2
  MaxChildren = 2
  MaxSeqno = 2
PROPERTIES
  ClientEnds
CHECK_DEADLOCK FALSE
