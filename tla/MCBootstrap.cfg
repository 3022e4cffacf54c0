SPECIFICATION FairSpec
CONSTANTS
  W = 2
  K = 1
  Local <- MCLocal
  Peers <- MCPeers
  Unparseable <- MCUnparseable
  Configs <- MCConfigs
INVARIANTS
  TypeOK
  OnlyLivePeers
  NoLivePeerLost
PROPERTY
  InitEnds
CHECK_DEADLOCK FALSE
