SPECIFICATION Spec
CONSTANTS
  W = 16
  K = 2
  Nodes <- MCNodes
  Values = {empty, v}
  Empty = empty
  Addresses = {"a", "b", "c"}
  NoAddress = NoAddress
  None = None
  Keys <- MCKeys
  Others <- MCOthers
INVARIANTS
  TypeOK
  OwnRequestsServed
  PeersIntact
  ReadsWhatWasPut
