------------------------------- MODULE Layout -------------------------------
(***************************************************************************)
(* Where things are in a pool, as the build options decide it              *)
(* (meson.options, the meson.build files, and mbuf_core.h, mpools.h and    *)
(* the mbuf.h of the variant that is selected).  Guest (nf.out) and host   *)
(* (rx.out, tx.out) are compiled separately; the host computes with its    *)
(* own macros where the packets of the guest pool are.                     *)
(*                                                                         *)
(* A build b is a record of the options.  developer_mode is on, so there   *)
(* is no zero_copy (meson.build:51); md_queue is off.  Addresses are bytes *)
(* from the start of the memory that holds the pools.                      *)
(***************************************************************************)
EXTENDS Integers

CONSTANT PKTBUF_NUM     \* the number of packet buffers of a pool

ASSUME PktbufNumAssumption == PKTBUF_NUM \in Nat \ {0}

CACHELINE_SIZE  == 64
PKT_SIZE        == 60
VIO_HEADER_SIZE == 12

Sides == {"guest", "host"}

Builds ==
  [metadata_size: 0 .. 256, headroom_size: 0 .. 128, dataroom_size: 60 .. 2048,
   mbuf_alignment: {"mbuf", "metadata", "pkt", "none"},
   separated_md: BOOLEAN, aggregated_md: BOOLEAN, host_aggregated_md: BOOLEAN,
   memcpy_md: BOOLEAN, vio_header: BOOLEAN, aggregation_num: Nat \ {0}]

(***************************************************************************)
(* What meson does not refuse, and what the assertion on the headroom      *)
(* (shm.h:86) lets the programs start with.                                *)
(***************************************************************************)
Accepted(b) ==
  /\ ~(b.memcpy_md /\ b.aggregated_md)
  /\ b.vio_header => b.headroom_size >= VIO_HEADER_SIZE
-----------------------------------------------------------------------------
RoundUp(n) ==
  IF n % CACHELINE_SIZE = 0 THEN n ELSE n + CACHELINE_SIZE - (n % CACHELINE_SIZE)

Aggregated(b, side) ==
  IF side = "guest" THEN b.aggregated_md ELSE b.host_aggregated_md

\* Metadata in front of the headroom of the packet buffer: INTEGRATED_MD.
Integrated(b, side) == ~b.separated_md /\ ~Aggregated(b, side)

\* One metadata buffer, for a packet or for a group of aggregation_num.
MDBUF_SIZE(b, side) ==
  IF Aggregated(b, side) THEN RoundUp(b.metadata_size * b.aggregation_num)
  ELSE IF b.mbuf_alignment = "mbuf" THEN RoundUp(b.metadata_size) ELSE b.metadata_size

\* dataroom_size with what the alignment adds to it.
Dataroom(b) ==
  LET room == b.dataroom_size + b.headroom_size
      all  == IF b.mbuf_alignment = "pkt" /\ ~b.separated_md /\ ~b.aggregated_md
                THEN b.metadata_size + room ELSE room
  IN  IF b.mbuf_alignment \in {"mbuf", "pkt"}
        THEN b.dataroom_size + RoundUp(all) - all ELSE b.dataroom_size

\* Mutant: the headroom is not counted.
MBUF_PKTBUF_SIZE_Bare(b) == Dataroom(b)

MBUF_PKTBUF_SIZE(b) == b.headroom_size + Dataroom(b)

\* The stride of the packet buffers in a pool.
MemobjSize(b, side) ==
  MBUF_PKTBUF_SIZE(b) + (IF Integrated(b, side) THEN MDBUF_SIZE(b, side) ELSE 0)

\* Mutant: the offset of the separated variants in every build.
PktAddrSeparated(b, side, i) == i * MemobjSize(b, side) + b.headroom_size

\* mbuf_mtod: the packet in buffer i.
PktAddr(b, side, i) ==
  i * MemobjSize(b, side) + b.headroom_size
    + (IF Integrated(b, side) THEN MDBUF_SIZE(b, side) ELSE 0)

\* memobjs_md: the metadata pool begins behind PKTBUF_NUM bare packet buffers.
MdBase(b) == PKTBUF_NUM * MBUF_PKTBUF_SIZE(b)

\* The metadata of the packet in buffer i with metadata buffer m, the j-th of its group.
MdAddr(b, side, i, m, j) ==
  IF Integrated(b, side) THEN i * MemobjSize(b, side)
  ELSE MdBase(b) + m * MDBUF_SIZE(b, side)
         + (IF Aggregated(b, side) THEN j * b.metadata_size ELSE 0)

\* refer_metadata of host_led/desc.h: the guest's metadata as the host finds it.
GuestMdAddr(b, i, m) ==
  IF Integrated(b, "guest") THEN i * MemobjSize(b, "host")
  ELSE MdBase(b) + m * MDBUF_SIZE(b, "host")
-----------------------------------------------------------------------------
\* Mutant: pkt_len has four bytes in every build.
PktLenBytesWide(b) == 4

PktLenBytes(b) == IF b.metadata_size = 2 THEN 2 ELSE 4

(***************************************************************************)
(* struct metadata is written from its start on, in front of whatever      *)
(* METADATA_SIZE reserves: pkt_len, then port, nb_segs, ol_flags and the   *)
(* rest by eights, each when METADATA_SIZE reaches a threshold of its own. *)
(***************************************************************************)
MdWritten(b) ==
  CASE b.metadata_size = 0        -> 0
    [] b.metadata_size = 2        -> 2
    [] b.metadata_size \in {1, 3, 4} -> 4
    [] b.metadata_size \in 5 .. 7    -> 6
    [] b.metadata_size \in 8 .. 15   -> 8
    [] OTHER -> 16 + 8 * ((b.metadata_size - 16) \div 8)

\* What is written of the metadata stays clear of what comes behind it.
MetadataFits(b, side) ==
  MdWritten(b) <=
    IF Integrated(b, side)
      THEN MDBUF_SIZE(b, side) + b.headroom_size - (IF b.vio_header THEN VIO_HEADER_SIZE ELSE 0)
      ELSE IF Aggregated(b, side) THEN b.metadata_size ELSE MDBUF_SIZE(b, side)

\* Both sides put the packet at the same place of a buffer.
SameView(b) == b.separated_md \/ b.aggregated_md = b.host_aggregated_md
=============================================================================
