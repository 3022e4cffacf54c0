SPECIFICATION Spec
CONSTANTS
  W = 3
  K = 2
  Local <- MCLocal
  Peers <- MCPeers
INVARIANTS
  TypeOK
  Placement
  LeastRecentFirst
  ExactWhenBucketSuffices
  AnswersRefine
PROPERTY
  ImplementsKBuckets
