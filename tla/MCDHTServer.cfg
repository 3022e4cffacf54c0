SPECIFICATION FairSpec
CONSTANTS
  W = 2
  K = 1
  Local <- MCLocal
  Peers <- MCPeers
  Requests = {r1, r2, r3}
  Messages <- MCMessages
  Values = {v1, v2}
  None = None
  v1 = v1
  v2 = v2
INVARIANTS
  TypeOK
  MutualExclusion
  AckedVisible
  RequesterIntroduced
PROPERTY
  Answered
CHECK_DEADLOCK FALSE
