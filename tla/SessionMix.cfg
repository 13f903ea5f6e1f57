SPECIFICATION Spec
CONSTANTS
  d1 = d1
  d2 = d2
  d3 = d3
  Data = {d1, d2, d3}
  Clients <- MCClients
  Files <- MCFiles
  Deployments <- MCMixDeployments
  RETRIES = 3
  MaxChildren = 6
  MaxSeqno = 2
INVARIANTS
  FileIsWhole
CHECK_DEADLOCK FALSE
