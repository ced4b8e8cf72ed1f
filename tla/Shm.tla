-------------------------------- MODULE Shm ---------------------------------
(***************************************************************************)
(* The shared memory segment (lib/common/shm.h) that nf.out creates and    *)
(* the three processes map: the descriptors of the RX and the TX queue,    *)
(* the guest packet buffers, and the start and end flags.  The options     *)
(* (lib/common/option.h) are the same in the three processes, as run.sh    *)
(* passes them.                                                            *)
(***************************************************************************)
EXTENDS Vioqueue, MemPool

CONSTANTS
  BATCH_SIZE,           \* --batchsz
  PKT_NUM,              \* --pktnum
  DESC_PER_CACHELINE    \* CACHE_LINE_SIZE / sizeof(struct desc): 4

\* parse_opt takes a --pktnum and a --batchsz from 1 on (option.h:57-62); nf.c:109
\* asserts batch_size <= vq_size.  Options has the ranges and widths of both.
ASSUME OptionAssumption ==
  /\ BATCH_SIZE \in 1 .. NENTRIES
  /\ PKT_NUM \in Nat \ {0}
  /\ DESC_PER_CACHELINE \in Nat \ {0}

\* init_descs_rx takes a buffer for every descriptor, or nf.out exits there.
ASSUME GuestPoolAssumption == POOL_NUM >= NENTRIES

VARIABLES
  rxd_flags, rxd_buf,   \* rxd(shm): flags and midx.pktbuf_idx of each descriptor
  txd_flags, txd_buf,   \* txd(shm)
  pktmem,               \* the packet id each guest buffer holds (0: no packet)
  is_start, is_end      \* start_flag(shm), end_flag(shm)

shmVars == <<rxd_flags, rxd_buf, txd_flags, txd_buf, pktmem, is_start, is_end>>

NoBuf == -1             \* init_midx()
Ids   == 0 .. PKT_NUM

(***************************************************************************)
(* What nf.out has prepared when it enters its poll loop: every RX         *)
(* descriptor available and holding a buffer of its own, every TX          *)
(* descriptor used and empty, both flags down.                             *)
(***************************************************************************)
ShmInit ==
  /\ rxd_flags = [s \in Slots |-> AVAIL_FLAG]
  /\ rxd_buf   = [s \in Slots |-> s]
  /\ txd_flags = [s \in Slots |-> USED_FLAG]
  /\ txd_buf   = [s \in Slots |-> NoBuf]
  /\ pktmem    = [b \in Objs |-> 0]
  /\ is_start  = FALSE
  /\ is_end    = FALSE
=============================================================================
