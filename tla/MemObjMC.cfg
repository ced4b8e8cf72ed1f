SPECIFICATION MemSpec
CONSTANTS
  POOL_NUM = 5
  CACHE_NUM = 2
INVARIANTS MemTypeOK EveryObjectOnce MemInv
PROPERTIES PoolImplemented AllocatorImplemented
CHECK_DEADLOCK FALSE
