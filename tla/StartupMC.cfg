SPECIFICATION FairStartup
CONSTANTS
  NENTRIES = 2
  BATCH_SIZE = 2
  PKT_NUM = 1
  DESC_PER_CACHELINE = 2
  POOL_NUM = 4
  CACHE_NUM = 2
INVARIANTS StartupTypeOK LoopsFindPrepared AssertsGuardLoops StartupInv
PROPERTIES AllLoop
CHECK_DEADLOCK FALSE
