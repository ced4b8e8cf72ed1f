SPECIFICATION Spec
CONSTANTS
  NENTRIES = 4
  BATCH_SIZE = 3
  PKT_NUM = 11
  DESC_PER_CACHELINE = 2
  POOL_NUM = 10
  CACHE_NUM = 2
INVARIANTS IInv TypeOK DescExclusive BufferOwnership InOrder CursorsAgree PoolSuffices CacheSuffices CacheInv FlowInv
PROPERTIES PayloadStable RxRingImplemented TxRingImplemented FlowImplemented
