SPECIFICATION FairSpec
CONSTANTS
  Ids = {i1, i2}
  NoId = noid
  Workers = {w1}
  QUEUE_CAPACITY = 1
  MAX_CANCELLED_IDS = 2
  OUTBOUND_BACKLOG = 1
  ReuseIds = FALSE
  MaxMessages = 3
PROPERTY NoPreEditResult
