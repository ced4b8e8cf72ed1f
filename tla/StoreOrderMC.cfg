SPECIFICATION SoSpec
CONSTANTS
  NENTRIES = 4
  BATCH = 3
  BUFS = 7
  PKTS = 7
  SB_SIZE = 4
INVARIANTS LoadedInOrder SoInv
PROPERTIES DrainedInOrder AllLoaded
CHECK_DEADLOCK FALSE
