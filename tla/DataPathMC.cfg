SPECIFICATION DpSpec
CONSTANTS
  PKTBUF_NUM = 4
  BATCH = 3
  ROUNDS = 2
  BUILDS <- Sounds
  ORDERS <- Orders
INVARIANTS PacketsIntact LengthsKept DpInv
PROPERTIES OthersUntouched
CHECK_DEADLOCK FALSE
