SPECIFICATION Spec
CONSTANTS
  d1 = d1
  d2 = d2
  d3 = d3
  Data = {d1, d2, d3}
  Clients <- MCClients
  Files <- MCFiles
  Deployments <- MCDeployments
  RETRIES = 2
  MaxChildren = 4
  MaxSeqno = 2
INVARIANTS
  TypeOK
  Inv
  NoChildAhead
CHECK_DEADLOCK FALSE
PROPERTIES
  ImplementsReliableTransfers
