SPECIFICATION Spec
CONSTANTS
  Alpha = 2
  K = 2
  Peers <- SmallPeers
  Unparseable = {}
  Dist <- SmallDist
  Self <- SmallSelf
  Values = {v1}
  Empty = Empty
  None = None
PROPERTY
  NotFoundIsDefinitive
CHECK_DEADLOCK FALSE
