SPECIFICATION MbSpec
CONSTANTS
  BATCH_SIZE = 5
  AGGREGATED_MD_NUM = 2
  DESC_PER_CACHELINE = 4
  POOL_NUM = 6
  CACHE_NUM = 5
  BUILDS <- Keeping
INVARIANTS BatchExclusive NothingLost MbInv
