SPECIFICATION Spec
CONSTANTS
  W = 2
  K = 2
  Local <- MCLocal
  Peers <- TwoPeers
  Unparseable = {}
  Configs <- TwoConfigs
INVARIANT
  NoDuplicateCandidates
CHECK_DEADLOCK FALSE
