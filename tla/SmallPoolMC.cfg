SPECIFICATION FairSpec
CONSTANTS
  NENTRIES = 4
  BATCH_SIZE = 3
  PKT_NUM = 7
  DESC_PER_CACHELINE = 2
  POOL_NUM = 9
  CACHE_NUM = 2
PROPERTIES Drained
CHECK_DEADLOCK FALSE
