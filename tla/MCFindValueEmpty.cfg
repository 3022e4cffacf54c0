SPECIFICATION Spec
CONSTANTS
  Alpha = 2
  K = 2
  Peers <- SmallPeers
  Unparseable = {}
  Dist <- SmallDist
  Self <- SmallSelf
  Values = {v1, Empty}
  Empty = Empty
  None = None
INVARIANT
  HeldValueReturned
CHECK_DEADLOCK FALSE
