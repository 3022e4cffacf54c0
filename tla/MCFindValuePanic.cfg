SPECIFICATION FairSpec
CONSTANTS
  Alpha = 2
  K = 2
  Peers <- SmallPeers
  Unparseable = {2}
  Dist <- SmallDist
  Self <- SmallSelf
  Values = {v1}
  Empty = Empty
  None = None
PROPERTY
  Terminates
CHECK_DEADLOCK FALSE
