SPECIFICATION FairSpec
CONSTANTS
  Alpha = 2
  K = 2
  Peers <- MCPeers
  Unparseable = {2}
  Dist <- MCDist
  Self <- MCSelf
  Values = {v1}
  Empty = Empty
  None = None
INVARIANTS
  TypeOK
  InProgressExact
  NoIdleWait
  FoundWasHeld
  GivesUpExhausted
PROPERTIES
  AskedOnce
  EndsOrHangs
  ImplementsLookup
CHECK_DEADLOCK FALSE
