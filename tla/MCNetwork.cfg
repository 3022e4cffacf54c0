SPECIFICATION FairSpec
CONSTANTS
  W = 2
  K = 3
  Alpha = 1
  Peers <- MCPeers
  Self <- MCSelf
  Writer <- MCWriter
  Key <- MCKey
  Value = v
  None = None
  Empty = empty
  MaxRestarts = 1
  Meetings <- MCMeetings
INVARIANTS
  TypeOK
  GetFinds
PROPERTY
  Returns
CHECK_DEADLOCK FALSE
