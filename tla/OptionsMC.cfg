SPECIFICATION OptSpec
CONSTANTS
  UINT16 = 16
  PKTBUF_NUM = 9
  VQ_MIN = 2
  MAX_BATCH_SIZE = 4
  VQ_SIZES = {1, 2, 3, 4, 8, 12, 16, 18, 32}
  BATCH_SIZES = {0, 2, 18}
  KILLS = 2
INVARIANTS QueueSizesAgree AssertedSizesFit StartsAgain
CHECK_DEADLOCK FALSE
