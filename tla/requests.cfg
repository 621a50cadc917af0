SPECIFICATION FairSpec
CONSTANTS
  Ids = {i1, i2}
  NoId = noid
  Workers = {w1, w2}
  QUEUE_CAPACITY = 1
  MAX_CANCELLED_IDS = 1
  OUTBOUND_BACKLOG = 1
  ReuseIds = TRUE
  MaxMessages = 4
INVARIANT TypeOK
INVARIANT AnsweredOnce
INVARIANT NoRequestForgotten
INVARIANT SnapshotsCurrent
PROPERTY ImplementsFairContract
PROPERTY EditsComplete
PROPERTY DiagnosticsCatchUp
