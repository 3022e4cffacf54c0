SPECIFICATION Spec
CONSTANTS
  K = 3
  Peers <- MCPeers
  Unparseable = {4}
INVARIANTS
  TypeOK
  OkMeansStored
  ConfirmedMeansOk
PROPERTY
  PutEnds
CHECK_DEADLOCK FALSE
