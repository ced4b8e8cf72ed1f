SPECIFICATION DpSpec
CONSTANTS
  PKTBUF_NUM = 4
  BATCH = 3
  ROUNDS = 2
  BUILDS <- OddSize
  ORDERS <- Orders
INVARIANTS PacketsIntact
CHECK_DEADLOCK FALSE
