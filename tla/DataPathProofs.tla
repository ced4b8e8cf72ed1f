--------------------------- MODULE DataPathProofs ---------------------------
(***************************************************************************)
(* Proofs about addresses, for every build, pool and batch size: that the  *)
(* buffers and what is in them lie apart, where each side looks for them   *)
(* (Layout), and that therefore packets and lengths arrive (DataPath).     *)
(***************************************************************************)
EXTENDS DataPath, TLAPS

LEMMA MultiplyMonotone ==
  ASSUME NEW a \in Nat, NEW b \in Nat, NEW m \in Nat, a <= b
  PROVE  a * m <= b * m
<1> DEFINE c == b - a
<1>1. c \in Nat /\ b = a + c
  OBVIOUS
<1> HIDE DEF c
<1>2. b * m = a * m + c * m
  BY <1>1
<1>3. c * m >= 0
  BY <1>1
<1> QED
  BY <1>1, <1>2, <1>3

\* ADJUST_TO_CACHELINE: no smaller, and a multiple of the cache line.
LEMMA RoundUpBounds ==
  ASSUME NEW n \in Nat
  PROVE  RoundUp(n) \in Nat /\ RoundUp(n) >= n
BY DEF RoundUp, CACHELINE_SIZE

(***************************************************************************)
(* The sizes are sizes, and rounding only adds to them.                    *)
(***************************************************************************)
LEMMA Sizes ==
  ASSUME NEW b \in Builds, NEW side \in Sides
  PROVE  /\ b.headroom_size \in Nat /\ b.metadata_size \in Nat
         /\ MDBUF_SIZE(b, side) \in Nat
         /\ Dataroom(b) \in Nat /\ Dataroom(b) >= PKT_SIZE
         /\ MBUF_PKTBUF_SIZE(b) = b.headroom_size + Dataroom(b)
         /\ MemobjSize(b, side) \in Nat
<1>1. /\ b.headroom_size \in Nat /\ b.metadata_size \in Nat
      /\ b.dataroom_size \in Nat /\ b.dataroom_size >= 60 /\ b.aggregation_num \in Nat
  <2>1. /\ b.headroom_size \in 0 .. 128 /\ b.metadata_size \in 0 .. 256
        /\ b.dataroom_size \in 60 .. 2048 /\ b.aggregation_num \in Nat \ {0}
    BY DEF Builds
  <2>2. b.headroom_size \in Nat /\ b.metadata_size \in Nat
    BY <2>1
  <2>3. b.dataroom_size \in Nat /\ b.dataroom_size >= 60
    <3> DEFINE n == b.dataroom_size
    <3>1. n \in 60 .. 2048
      BY <2>1
    <3> HIDE DEF n
    <3>2. n \in Nat /\ n >= 60
      BY <3>1
    <3> QED
      BY <3>2 DEF n
  <2>4. b.aggregation_num \in Nat
    BY <2>1
  <2> QED
    BY <2>2, <2>3, <2>4
<1>2. MDBUF_SIZE(b, side) \in Nat
  <2>1. b.metadata_size * b.aggregation_num \in Nat
    BY <1>1
  <2> QED
    BY <1>1, <2>1, RoundUpBounds DEF MDBUF_SIZE
<1>3. Dataroom(b) \in Nat /\ Dataroom(b) >= PKT_SIZE
  <2> DEFINE room == b.dataroom_size + b.headroom_size
             all  == IF b.mbuf_alignment = "pkt" /\ ~b.separated_md /\ ~b.aggregated_md
                       THEN b.metadata_size + room ELSE room
  <2>1. all \in Nat
    BY <1>1
  <2>2. Dataroom(b) = IF b.mbuf_alignment \in {"mbuf", "pkt"}
                        THEN b.dataroom_size + RoundUp(all) - all ELSE b.dataroom_size
    BY DEF Dataroom
  <2> HIDE DEF all
  <2>3. RoundUp(all) - all \in Nat
    BY <2>1, RoundUpBounds
  <2>4. b.dataroom_size + RoundUp(all) - all = b.dataroom_size + (RoundUp(all) - all)
    BY <1>1, <2>1, RoundUpBounds
  <2> QED
    BY <1>1, <2>2, <2>3, <2>4 DEF PKT_SIZE
<1> QED
  BY <1>1, <1>2, <1>3 DEF MBUF_PKTBUF_SIZE, MemobjSize

(***************************************************************************)
(* The host, which is compiled by itself, finds every packet of the guest  *)
(* where the guest has it, in each build in which both sides aggregate the *)
(* metadata, neither does, or it is separate (meson.build:78, mbuf_mtod).  *)
(***************************************************************************)
THEOREM ViewsAgree ==
  ASSUME NEW b \in Builds, SameView(b), NEW i \in Nat
  PROVE  PktAddr(b, "guest", i) = PktAddr(b, "host", i)
<1>1. Integrated(b, "guest") <=> Integrated(b, "host")
  BY DEF SameView, Integrated, Aggregated
<1>2. Integrated(b, "guest") => MDBUF_SIZE(b, "guest") = MDBUF_SIZE(b, "host")
  BY DEF SameView, Integrated, Aggregated, MDBUF_SIZE
<1>3. MemobjSize(b, "guest") = MemobjSize(b, "host")
  BY <1>1, <1>2 DEF MemobjSize
<1> QED
  BY <1>1, <1>2, <1>3 DEF PktAddr

(***************************************************************************)
(* The packet of a buffer ends before the next buffer begins, so that no   *)
(* packet that fits into its data room touches another buffer, and before  *)
(* the metadata pool if there is one (shm.h, memobjs_md).                  *)
(***************************************************************************)
THEOREM PacketsApart ==
  ASSUME NEW b \in Builds, NEW side \in Sides, NEW i \in Nat, NEW j \in Nat, i < j
  PROVE  /\ PktAddr(b, side, i) + Dataroom(b) <= j * MemobjSize(b, side)
         /\ ~Integrated(b, side) /\ i < PKTBUF_NUM =>
              PktAddr(b, side, i) + Dataroom(b) <= MdBase(b)
<1> DEFINE size == MemobjSize(b, side)
<1>1. PktAddr(b, side, i) + Dataroom(b) = i * size + size
  <2>1. i * size \in Nat
    BY Sizes
  <2> HIDE DEF size
  <2>2. PktAddr(b, side, i) = i * size + b.headroom_size
          + (IF Integrated(b, side) THEN MDBUF_SIZE(b, side) ELSE 0)
    BY DEF PktAddr, size
  <2>3. size = b.headroom_size + Dataroom(b)
          + (IF Integrated(b, side) THEN MDBUF_SIZE(b, side) ELSE 0)
    BY Sizes DEF size, MemobjSize
  <2> DEFINE product == i * size
  <2>4. product \in Nat /\ PktAddr(b, side, i) = product + b.headroom_size
          + (IF Integrated(b, side) THEN MDBUF_SIZE(b, side) ELSE 0)
    BY <2>1, <2>2
  <2> HIDE DEF product
  <2>5. PktAddr(b, side, i) + Dataroom(b) = product + size
    BY <2>3, <2>4, Sizes
  <2> QED
    BY <2>5 DEF product
<1>2. size \in Nat
  BY Sizes
<1> HIDE DEF size
<1>3. (i + 1) * size = i * size + size
  BY <1>2
<1>4. (i + 1) * size <= j * size
  BY <1>2, MultiplyMonotone
<1>5. ASSUME ~Integrated(b, side), i < PKTBUF_NUM
      PROVE  i * size + size <= MdBase(b)
  <2>1. PKTBUF_NUM \in Nat /\ i + 1 <= PKTBUF_NUM
    BY <1>5, PktbufNumAssumption
  <2>2. (i + 1) * size <= PKTBUF_NUM * size
    BY <1>2, <2>1, MultiplyMonotone
  <2>3. size = MBUF_PKTBUF_SIZE(b)
    BY <1>5, Sizes DEF size, MemobjSize
  <2> QED
    BY <1>3, <2>2, <2>3 DEF MdBase
<1> QED
  BY <1>1, <1>3, <1>4, <1>5 DEF size
-----------------------------------------------------------------------------
\* Two places in an array of things of size m.
LEMMA Stride ==
  ASSUME NEW a \in Nat, NEW b \in Nat, NEW m \in Nat, a # b
  PROVE  a * m + m <= b * m \/ b * m + m <= a * m
<1>1. ASSUME NEW c \in Nat, NEW d \in Nat, c < d
      PROVE  c * m + m <= d * m
  <2>1. (c + 1) * m <= d * m
    BY <1>1, MultiplyMonotone
  <2>2. (c + 1) * m = c * m + m
    OBVIOUS
  <2> QED
    BY <2>1, <2>2
<1> QED
  BY <1>1

\* What a write changes, and nothing else.
LEMMA PutByte ==
  ASSUME NEW m, NEW a \in Int, NEW n \in Nat, NEW data, DOMAIN data = 1 .. n, NEW x \in Int
  PROVE  Byte(Put(m, a, data), x) = IF x \in a .. a + n - 1 THEN data[x - a + 1] ELSE Byte(m, x)
<1> DEFINE W == {a + k - 1 : k \in 1 .. n}
<1>1. x \in W <=> x \in a .. a + n - 1
  <2>1. ASSUME x \in a .. a + n - 1
        PROVE  x \in W
    <3>1. x - a + 1 \in 1 .. n /\ x = a + (x - a + 1) - 1
      BY <2>1
    <3> QED
      BY <3>1
  <2> QED
    BY <2>1
<1>2. Put(m, a, data) = [y \in W \cup DOMAIN m |-> IF y \in W THEN data[y - a + 1] ELSE m[y]]
  BY DEF Put
<1> HIDE DEF W
<1>3. Byte(Put(m, a, data), x) = IF x \in W THEN data[x - a + 1] ELSE Byte(m, x)
  BY <1>2 DEF Byte
<1> QED
  BY <1>1, <1>3

\* data has n bytes.
Sized(data, n) == DOMAIN data = 1 .. n

LEMMA PutInside ==
  ASSUME NEW m, NEW a \in Int, NEW n \in Nat, NEW data, Sized(data, n),
         NEW x \in Int, a <= x, x < a + n
  PROVE  Byte(Put(m, a, data), x) = data[x - a + 1]
<1>1. x \in a .. a + n - 1
  OBVIOUS
<1> QED
  BY <1>1, PutByte DEF Sized

LEMMA PutOutside ==
  ASSUME NEW m, NEW a \in Int, NEW n \in Nat, NEW data, Sized(data, n),
         NEW x \in Int, x < a \/ a + n <= x
  PROVE  Byte(Put(m, a, data), x) = Byte(m, x)
<1>1. x \notin a .. a + n - 1
  OBVIOUS
<1> QED
  BY <1>1, PutByte DEF Sized

LEMMA PutDomain ==
  ASSUME NEW m, NEW a \in Nat, NEW n \in Nat, NEW data, Sized(data, n),
         DOMAIN m \subseteq Nat
  PROVE  DOMAIN Put(m, a, data) \subseteq Nat
<1>1. DOMAIN Put(m, a, data) = {a + k - 1 : k \in 1 .. n} \cup DOMAIN m
  BY DEF Put, Sized
<1>2. \A k \in 1 .. n : a + k - 1 \in Nat
  OBVIOUS
<1> QED
  BY <1>1, <1>2

(***************************************************************************)
(* Every metadata size that meson offers but 1, 3 and 5 has room for what  *)
(* is written of the metadata (mbuf_core.h:43-90), whatever the variant    *)
(* and the alignment.                                                      *)
(***************************************************************************)
LEMMA WrittenWithin ==
  ASSUME NEW b \in Builds
  PROVE  /\ MdWritten(b) \in Nat
         /\ b.metadata_size \notin {1, 3, 5} => MdWritten(b) <= b.metadata_size
         /\ b.metadata_size # 0 => PktLenBytes(b) <= MdWritten(b)
         /\ b.metadata_size >= 16 => MdWritten(b) >= 16
<1> PICK n : n = b.metadata_size
  OBVIOUS
<1>1. n \in 0 .. 256
  BY DEF Builds
<1>2. n \in Nat /\ n <= 256
  BY <1>1
<1>3. n >= 16 => 8 * ((n - 16) \div 8) <= n - 16 /\ (n - 16) \div 8 \in Nat
  BY <1>2
<1>4. MdWritten(b) =
        CASE n = 0 -> 0 [] n = 2 -> 2 [] n \in {1, 3, 4} -> 4 [] n \in 5 .. 7 -> 6
          [] n \in 8 .. 15 -> 8 [] OTHER -> 16 + 8 * ((n - 16) \div 8)
  BY DEF MdWritten
<1>5. n >= 16 => MdWritten(b) = 16 + 8 * ((n - 16) \div 8)
  BY <1>2, <1>4
<1>6. n < 16 =>
        MdWritten(b) = IF n = 0 THEN 0 ELSE IF n = 2 THEN 2 ELSE IF n \in {1, 3, 4} THEN 4
                       ELSE IF n \in 5 .. 7 THEN 6 ELSE 8
  BY <1>2, <1>4
<1>7. PktLenBytes(b) = IF n = 2 THEN 2 ELSE 4
  BY DEF PktLenBytes
<1> QED
  BY <1>2, <1>3, <1>5, <1>6, <1>7

THEOREM SizesWithRoom ==
  ASSUME NEW b \in Builds, NEW side \in Sides, Accepted(b), b.metadata_size \notin {1, 3, 5}
  PROVE  MetadataFits(b, side)
<1>1. MdWritten(b) \in Nat /\ MdWritten(b) <= b.metadata_size
  BY WrittenWithin
<1>2. b.metadata_size \in Nat /\ b.headroom_size \in Nat /\ MDBUF_SIZE(b, side) \in Nat
  BY Sizes
<1>3. ~Aggregated(b, side) => MDBUF_SIZE(b, side) >= b.metadata_size
  BY <1>2, RoundUpBounds DEF MDBUF_SIZE
<1>4. b.vio_header => b.headroom_size >= VIO_HEADER_SIZE
  BY DEF Accepted
<1>5. Integrated(b, side) => ~Aggregated(b, side)
  BY DEF Integrated
<1> QED
  BY <1>1, <1>2, <1>3, <1>4, <1>5 DEF MetadataFits, VIO_HEADER_SIZE

(***************************************************************************)
(* The builds that are sound are all but those with such a size, those in  *)
(* which one side alone aggregates metadata that are not separate, and     *)
(* those in which the host copies metadata (meson.options, meson.build).   *)
(***************************************************************************)
THEOREM MostAreSound ==
  ASSUME NEW b \in Builds, Accepted(b), SameView(b), b.metadata_size \notin {1, 3, 5},
         b.memcpy_md => b.metadata_size = 0
  PROVE  Sound(b)
BY SizesWithRoom DEF Sound

-----------------------------------------------------------------------------
\* The bytes of the k-th packet of a pool, of the header in front of it, and those that
\* are written of its metadata.
PktBytes(pool, k) == PktOf(pool, k) .. PktOf(pool, k) + PKT_SIZE - 1
HdrBytes(pool, k) == PktOf(pool, k) - VIO_HEADER_SIZE .. PktOf(pool, k) - 1
MdBytes(pool, k)  == MdOf(pool, k) .. MdOf(pool, k) + MdWritten(build) - 1

\* Where the frame of a packet begins, and its metadata buffer in a pool of metadata.
At(pool, k)   == bufs[pool][k] * MemobjSize(build, Side(pool))
MdAt(pool, k) == MdBase(build)
                   + bufs[pool][(k - 1) \div Group(Side(pool)) + 1] * MDBUF_SIZE(build, Side(pool))

LEMMA BuildTypes ==
  ASSUME DpControl
  PROVE  /\ build \in Builds /\ Accepted(build) /\ Sound(build)
         /\ \A p \in Pools : Side(p) \in Sides
         /\ BATCH \in Nat \ {0} /\ BATCH <= PKTBUF_NUM /\ PKTBUF_NUM \in Nat
<1>1. build \in BUILDS /\ Sound(build)
  BY DEF DpControl
<1>2. build \in Builds /\ Accepted(build)
  BY <1>1, DataPathAssumption
<1>3. \A p \in Pools : Side(p) \in Sides
  BY DEF Pools, Side, Sides
<1>4. BATCH \in Nat \ {0} /\ BATCH <= PKTBUF_NUM /\ PKTBUF_NUM \in Nat
  BY DataPathAssumption, PktbufNumAssumption
<1> QED
  BY <1>1, <1>2, <1>3, <1>4

LEMMA BufTypes ==
  ASSUME DpControl, NEW p \in Pools
  PROVE  /\ \A k \in Packets : bufs[p][k] \in Nat /\ bufs[p][k] < PKTBUF_NUM
         /\ \A k, j \in Packets : k # j => bufs[p][k] # bufs[p][j]
<1>1. bufs[p] \in [Packets -> 0 .. PKTBUF_NUM - 1] /\ IsInjective(bufs[p])
  BY DEF DpControl, Placements
<1>2. DOMAIN bufs[p] = Packets
  BY <1>1
<1>3. PKTBUF_NUM \in Nat
  BY BuildTypes
<1>4. ASSUME NEW k \in Packets
      PROVE  bufs[p][k] \in Nat /\ bufs[p][k] < PKTBUF_NUM
  <2>1. bufs[p][k] \in 0 .. PKTBUF_NUM - 1
    BY <1>1
  <2> QED
    BY <1>3, <2>1
<1> QED
  BY <1>1, <1>2, <1>4 DEF IsInjective

LEMMA Division ==
  ASSUME NEW n \in Nat, NEW g \in Nat \ {0}
  PROVE  /\ n \div g \in Nat /\ n % g \in Nat /\ n % g < g
         /\ n = g * (n \div g) + (n % g) /\ g * (n \div g) = n - (n % g)
<1>1. n = g * (n \div g) + (n % g)
  OBVIOUS
<1>2. n \div g \in Nat /\ n % g \in Nat /\ n % g < g
  OBVIOUS
<1>3. g * (n \div g) \in Nat
  BY <1>2
<1> QED
  BY <1>1, <1>2, <1>3

\* A packet's group and place in it.
LEMMA Grouped ==
  ASSUME DpControl, NEW p \in Pools, NEW k \in Packets
  PROVE  /\ Group(Side(p)) \in Nat \ {0}
         /\ (k - 1) \div Group(Side(p)) + 1 \in Packets
         /\ InGroup(Side(p), k) \in Nat /\ InGroup(Side(p), k) < Group(Side(p))
         /\ InGroup(Side(p), k) + 1 \in Packets
         /\ k - 1 = Group(Side(p)) * ((k - 1) \div Group(Side(p))) + InGroup(Side(p), k)
<1> PICK g : g = Group(Side(p))
  OBVIOUS
<1> PICK n : n = k - 1
  OBVIOUS
<1> PICK q : q = n \div g
  OBVIOUS
<1> PICK r : r = n % g
  OBVIOUS
<1>1. g \in Nat \ {0}
  <2>1. build.aggregation_num \in Nat \ {0}
    BY BuildTypes DEF Builds
  <2> QED
    BY <2>1 DEF Group
<1>2. n \in Nat /\ n < BATCH /\ BATCH \in Nat
  BY BuildTypes DEF Packets
<1>3. q \in Nat /\ r \in Nat /\ r < g /\ n = g * q + r
  BY <1>1, <1>2, Division
<1>4. q <= n /\ r <= n
  <2>1. g \in Nat /\ 1 <= g /\ 1 \in Nat
    BY <1>1
  <2>2. 1 * q <= g * q
    BY <1>3, <2>1, MultiplyMonotone
  <2>3. 1 * q = q
    BY <1>3
  <2>4. g * q = n - r
    BY <1>1, <1>2, Division
  <2> QED
    BY <1>2, <1>3, <2>2, <2>3, <2>4
<1>5. q + 1 \in Packets /\ r + 1 \in Packets
  BY <1>2, <1>3, <1>4 DEF Packets
<1> QED
  BY <1>1, <1>3, <1>5 DEF InGroup

(***************************************************************************)
(* What is in a frame: the metadata if it is integrated, the header and    *)
(* the packet, in this order; the room that MetadataFits asks for is the   *)
(* one in front of the header.                                             *)
(***************************************************************************)
LEMMA InFrame ==
  ASSUME DpControl, NEW p \in Pools, NEW k \in Packets
  PROVE  /\ At(p, k) \in Nat /\ PktOf(p, k) \in Nat /\ MemobjSize(build, Side(p)) \in Nat
         /\ Frame(p, k) = At(p, k) .. At(p, k) + MemobjSize(build, Side(p)) - 1
         /\ At(p, k) <= PktOf(p, k)
         /\ build.vio_header => At(p, k) <= PktOf(p, k) - VIO_HEADER_SIZE
         /\ PktOf(p, k) + PKT_SIZE <= At(p, k) + MemobjSize(build, Side(p))
         /\ Integrated(build, Side(p)) =>
              /\ MdOf(p, k) = At(p, k)
              /\ MdOf(p, k) + MdWritten(build) <=
                    PktOf(p, k) - (IF build.vio_header THEN VIO_HEADER_SIZE ELSE 0)
<1> DEFINE b == build
           side == Side(p)
           size == MemobjSize(b, side)
<1>1. b \in Builds /\ side \in Sides /\ Accepted(b) /\ MetadataFits(b, side)
  BY BuildTypes DEF Sound
<1>2. bufs[p][k] \in Nat
  BY BufTypes
<1>3. /\ b.headroom_size \in Nat /\ MDBUF_SIZE(b, side) \in Nat
      /\ Dataroom(b) \in Nat /\ Dataroom(b) >= PKT_SIZE
      /\ MBUF_PKTBUF_SIZE(b) = b.headroom_size + Dataroom(b) /\ size \in Nat
  BY <1>1, Sizes
<1>4. MdWritten(b) \in Nat
  BY <1>1, WrittenWithin
<1>5. At(p, k) = bufs[p][k] * size /\ At(p, k) \in Nat
  BY <1>2, <1>3 DEF At
<1>6. PktOf(p, k) = At(p, k) + b.headroom_size
                      + (IF Integrated(b, side) THEN MDBUF_SIZE(b, side) ELSE 0)
  BY <1>5 DEF PktOf, PktAddr
<1>7. size = b.headroom_size + Dataroom(b)
               + (IF Integrated(b, side) THEN MDBUF_SIZE(b, side) ELSE 0)
  BY <1>3 DEF MemobjSize
<1>8. b.vio_header => b.headroom_size >= VIO_HEADER_SIZE
  BY <1>1 DEF Accepted
<1>9. Integrated(b, side) =>
        /\ MdOf(p, k) = At(p, k)
        /\ MdWritten(b) <= MDBUF_SIZE(b, side) + b.headroom_size
                             - (IF b.vio_header THEN VIO_HEADER_SIZE ELSE 0)
  BY <1>1, <1>5 DEF MdOf, MdAddr, MetadataFits
<1>10. Frame(p, k) = At(p, k) .. At(p, k) + size - 1
  BY <1>5 DEF Frame
<1> HIDE DEF size
<1>11. PktOf(p, k) \in Nat /\ At(p, k) <= PktOf(p, k) /\ PktOf(p, k) + PKT_SIZE <= At(p, k) + size
  BY <1>3, <1>5, <1>6, <1>7 DEF PKT_SIZE
<1>12. build.vio_header => At(p, k) <= PktOf(p, k) - VIO_HEADER_SIZE
  BY <1>3, <1>5, <1>6, <1>8 DEF VIO_HEADER_SIZE
<1>13. Integrated(b, side) =>
         MdOf(p, k) + MdWritten(b) <= PktOf(p, k) - (IF b.vio_header THEN VIO_HEADER_SIZE ELSE 0)
  BY <1>3, <1>4, <1>5, <1>6, <1>9 DEF VIO_HEADER_SIZE
<1> QED
  BY <1>3, <1>5, <1>9, <1>10, <1>11, <1>12, <1>13 DEF size

LEMMA FramesApart ==
  ASSUME DpControl, NEW p \in Pools, NEW k \in Packets, NEW j \in Packets, k # j
  PROVE  \/ At(p, k) + MemobjSize(build, Side(p)) <= At(p, j)
         \/ At(p, j) + MemobjSize(build, Side(p)) <= At(p, k)
<1>1. bufs[p][k] \in Nat /\ bufs[p][j] \in Nat /\ bufs[p][k] # bufs[p][j]
  BY BufTypes
<1>2. MemobjSize(build, Side(p)) \in Nat
  BY InFrame
<1> QED
  BY <1>1, <1>2, Stride DEF At

\* In the aggregated variants a metadata buffer has room for a whole group.
LEMMA InMdBuf ==
  ASSUME DpControl, NEW p \in Pools, NEW k \in Packets, ~Integrated(build, Side(p))
  PROVE  /\ MdAt(p, k) \in Nat /\ MdOf(p, k) \in Nat /\ MDBUF_SIZE(build, Side(p)) \in Nat
         /\ MdBase(build) \in Nat /\ MdBase(build) <= MdAt(p, k) /\ MdAt(p, k) <= MdOf(p, k)
         /\ MdOf(p, k) + MdWritten(build) <= MdAt(p, k) + MDBUF_SIZE(build, Side(p))
         /\ MdBytes(p, k) \subseteq MdSlot(p, k)
<1> DEFINE b == build
           side == Side(p)
           m == bufs[p][(k - 1) \div Group(side) + 1]
           s == MDBUF_SIZE(b, side)
           r == InGroup(side, k)
           t == b.metadata_size
<1>1. b \in Builds /\ side \in Sides /\ MetadataFits(b, side)
  BY BuildTypes DEF Sound
<1>2. s \in Nat /\ t \in Nat /\ MBUF_PKTBUF_SIZE(b) \in Nat /\ MdWritten(b) \in Nat
  BY <1>1, Sizes, WrittenWithin
<1>3. m \in Nat /\ r \in Nat /\ r < Group(side) /\ Group(side) \in Nat
  BY Grouped, BufTypes
<1>4. MdBase(b) \in Nat
  BY <1>2, PktbufNumAssumption DEF MdBase
<1>5. m * s \in Nat /\ r * t \in Nat
  BY <1>2, <1>3
<1>6. MdAt(p, k) = MdBase(b) + m * s
  BY DEF MdAt
<1>7. MdOf(p, k) = MdBase(b) + m * s + (IF Aggregated(b, side) THEN r * t ELSE 0)
  BY DEF MdOf, MdAddr
<1>8. MdWritten(b) <= IF Aggregated(b, side) THEN t ELSE s
  BY <1>1 DEF MetadataFits
<1>9. Aggregated(b, side) => r * t + t <= s
  <2>1. ASSUME Aggregated(b, side)
        PROVE  r * t + t <= s
    <3>1. b.aggregation_num \in Nat /\ Group(side) = b.aggregation_num
      BY <2>1, <1>3 DEF Group
    <3>2. (r + 1) * t <= b.aggregation_num * t
      BY <1>2, <1>3, <3>1, MultiplyMonotone
    <3>3. (r + 1) * t = r * t + t
      BY <1>2, <1>3
    <3>4. b.aggregation_num * t = t * b.aggregation_num /\ t * b.aggregation_num \in Nat
      BY <1>2, <3>1
    <3>5. s >= t * b.aggregation_num
      BY <2>1, <3>4, RoundUpBounds DEF MDBUF_SIZE
    <3> QED
      BY <1>2, <1>5, <3>2, <3>3, <3>4, <3>5
  <2> QED
    BY <2>1
<1>10. MdBytes(p, k) = MdOf(p, k) .. MdOf(p, k) + MdWritten(b) - 1
  BY DEF MdBytes
<1>11. MdSlot(p, k) = MdOf(p, k) .. MdOf(p, k) + (IF Aggregated(b, side) THEN t ELSE s) - 1
  BY DEF MdSlot
<1> DEFINE ms == m * s
           rt == r * t
<1> HIDE DEF m, r, s, t, ms, rt
<1>12. MdAt(p, k) = MdBase(b) + ms /\ ms \in Nat /\ rt \in Nat
  BY <1>5, <1>6 DEF ms, rt
<1>13. MdOf(p, k) = MdBase(b) + ms + (IF Aggregated(b, side) THEN rt ELSE 0)
  BY <1>7 DEF ms, rt
<1>14. Aggregated(b, side) => rt + t <= s
  BY <1>9 DEF rt
<1>15. MdOf(p, k) \in Nat /\ MdAt(p, k) <= MdOf(p, k)
  BY <1>4, <1>12, <1>13
<1>16. MdOf(p, k) + MdWritten(b) <= MdAt(p, k) + s
  BY <1>2, <1>4, <1>8, <1>12, <1>13, <1>14
<1>17. MdBytes(p, k) \subseteq MdSlot(p, k)
  BY <1>2, <1>8, <1>10, <1>11, <1>15
<1> QED
  BY <1>2, <1>4, <1>12, <1>15, <1>16, <1>17 DEF s

\* The metadata of two packets, in frames of their own, in buffers of their own, or side by
\* side in that of their group.
LEMMA MdsApart ==
  ASSUME DpControl, NEW p \in Pools, NEW k \in Packets, NEW j \in Packets, k # j
  PROVE  \/ MdOf(p, k) + MdWritten(build) <= MdOf(p, j)
         \/ MdOf(p, j) + MdWritten(build) <= MdOf(p, k)
<1> DEFINE b == build
           side == Side(p)
           g == Group(side)
<1>1. MdWritten(b) \in Nat /\ b.metadata_size \in Nat
  BY BuildTypes, WrittenWithin, Sizes
<1>2. CASE Integrated(b, side)
  <2>1. MdOf(p, k) = At(p, k) /\ MdOf(p, j) = At(p, j) /\ At(p, k) \in Nat /\ At(p, j) \in Nat
        /\ MemobjSize(b, side) \in Nat
    BY <1>2, InFrame
  <2>2. MdWritten(b) <= MemobjSize(b, side)
    <3>1. /\ At(p, k) \in Nat /\ PktOf(p, k) \in Nat
          /\ PktOf(p, k) + PKT_SIZE <= At(p, k) + MemobjSize(b, side)
          /\ At(p, k) + MdWritten(b) <=
                PktOf(p, k) - (IF b.vio_header THEN VIO_HEADER_SIZE ELSE 0)
      BY <1>2, InFrame
    <3> QED
      BY <1>1, <2>1, <3>1 DEF PKT_SIZE, VIO_HEADER_SIZE
  <2> QED
    BY <1>1, <2>1, <2>2, FramesApart
<1>3. CASE ~Integrated(b, side) /\ (k - 1) \div g # (j - 1) \div g
  <2> PICK c : c = (k - 1) \div g
    OBVIOUS
  <2> PICK d : d = (j - 1) \div g
    OBVIOUS
  <2> PICK s : s = MDBUF_SIZE(b, side)
    OBVIOUS
  <2>1. c + 1 \in Packets /\ d + 1 \in Packets /\ c # d
    BY <1>3, Grouped
  <2>2. c + 1 # d + 1
    <3>1. k - 1 \in Nat /\ j - 1 \in Nat /\ g \in Nat \ {0}
      BY BuildTypes, Grouped DEF Packets
    <3>2. c \in Nat /\ d \in Nat
      BY <3>1, Division
    <3> QED
      BY <2>1, <3>2
  <2>3. bufs[p][c + 1] \in Nat /\ bufs[p][d + 1] \in Nat /\ bufs[p][c + 1] # bufs[p][d + 1]
    BY <2>1, <2>2, BufTypes
  <2>4. s \in Nat /\ MdBase(b) \in Nat
    BY <1>3, InMdBuf
  <2>5. \/ bufs[p][c + 1] * s + s <= bufs[p][d + 1] * s
        \/ bufs[p][d + 1] * s + s <= bufs[p][c + 1] * s
    BY <2>3, <2>4, Stride
  <2>6. bufs[p][c + 1] * s \in Nat /\ bufs[p][d + 1] * s \in Nat
    BY <2>3, <2>4
  <2>7. MdAt(p, k) + s <= MdAt(p, j) \/ MdAt(p, j) + s <= MdAt(p, k)
    BY <2>4, <2>5, <2>6 DEF MdAt
  <2>8. /\ MdAt(p, k) \in Nat /\ MdOf(p, k) \in Nat /\ MdAt(p, k) <= MdOf(p, k)
        /\ MdOf(p, k) + MdWritten(b) <= MdAt(p, k) + s
        /\ MdAt(p, j) \in Nat /\ MdOf(p, j) \in Nat /\ MdAt(p, j) <= MdOf(p, j)
        /\ MdOf(p, j) + MdWritten(b) <= MdAt(p, j) + s
    BY <1>3, InMdBuf
  <2> QED
    BY <1>1, <2>4, <2>7, <2>8
<1>4. CASE ~Integrated(b, side) /\ (k - 1) \div g = (j - 1) \div g
  <2> PICK q : q = (k - 1) \div g
    OBVIOUS
  <2> PICK r : r = InGroup(side, k)
    OBVIOUS
  <2> PICK u : u = InGroup(side, j)
    OBVIOUS
  <2> PICK t : t = b.metadata_size
    OBVIOUS
  <2>1. /\ g \in Nat \ {0} /\ r \in Nat /\ u \in Nat /\ r < g /\ u < g
        /\ k - 1 = g * q + r /\ j - 1 = g * q + u
    BY <1>4, Grouped
  <2>2. r # u
    <3>1. k \in Nat /\ j \in Nat
      BY BuildTypes DEF Packets
    <3> QED
      BY <2>1, <3>1
  <2>3. Aggregated(b, side)
    BY <2>1, <2>2 DEF Group
  <2>4. MdWritten(b) <= t
    BY <1>4, <2>3, BuildTypes DEF Sound, MetadataFits
  <2>5. r * t + t <= u * t \/ u * t + t <= r * t
    BY <1>1, <2>1, <2>2, Stride
  <2>6. r * t \in Nat /\ u * t \in Nat
    BY <1>1, <2>1
  <2>7. /\ MdAt(p, k) \in Nat /\ MdAt(p, j) = MdAt(p, k)
        /\ MdOf(p, k) = MdAt(p, k) + r * t /\ MdOf(p, j) = MdAt(p, k) + u * t
    BY <1>4, <2>3, InMdBuf DEF MdAt, MdOf, MdAddr
  <2> QED
    BY <1>1, <2>4, <2>5, <2>6, <2>7
<1> QED
  BY <1>2, <1>3, <1>4

(***************************************************************************)
(* Packets, headers and metadata of a batch lie apart, and each lies in    *)
(* what belongs to its packet.                                             *)
(***************************************************************************)
LEMMA Apart ==
  ASSUME DpControl, NEW p \in Pools, NEW k \in Packets, NEW j \in Packets
  PROVE  /\ PktBytes(p, k) \cap MdBytes(p, j) = {}
         /\ build.vio_header => PktBytes(p, k) \cap HdrBytes(p, j) = {}
         /\ build.vio_header => MdBytes(p, k) \cap HdrBytes(p, j) = {}
         /\ k # j => PktBytes(p, k) \cap PktBytes(p, j) = {}
         /\ k # j => MdBytes(p, k) \cap MdBytes(p, j) = {}
<1> PICK w : w = MdWritten(build)
  OBVIOUS
<1> PICK size : size = MemobjSize(build, Side(p))
  OBVIOUS
<1>1. w \in Nat /\ size \in Nat
  BY BuildTypes, WrittenWithin, InFrame
<1>2. k # j => At(p, k) + size <= At(p, j) \/ At(p, j) + size <= At(p, k)
  BY FramesApart
<1>3. ASSUME NEW i \in {k, j}
      PROVE  /\ At(p, i) \in Nat /\ PktOf(p, i) \in Nat /\ MdOf(p, i) \in Nat
             /\ At(p, i) <= PktOf(p, i) /\ PktOf(p, i) + PKT_SIZE <= At(p, i) + size
             /\ build.vio_header => At(p, i) <= PktOf(p, i) - VIO_HEADER_SIZE
             /\ Integrated(build, Side(p)) =>
                  /\ MdOf(p, i) = At(p, i)
                  /\ MdOf(p, i) + w <= PktOf(p, i) - (IF build.vio_header THEN VIO_HEADER_SIZE ELSE 0)
             /\ ~Integrated(build, Side(p)) =>
                  /\ MdBase(build) \in Nat
                  /\ At(p, i) + size <= MdBase(build) /\ MdBase(build) <= MdOf(p, i)
  <2>1. ~Integrated(build, Side(p)) => At(p, i) + size <= MdBase(build)
    <3>1. ASSUME ~Integrated(build, Side(p))
          PROVE  At(p, i) + size <= MdBase(build)
      <4>1. bufs[p][i] \in Nat /\ bufs[p][i] + 1 <= PKTBUF_NUM /\ PKTBUF_NUM \in Nat
        BY BufTypes, BuildTypes
      <4>2. (bufs[p][i] + 1) * size <= PKTBUF_NUM * size
        BY <1>1, <4>1, MultiplyMonotone
      <4>3. (bufs[p][i] + 1) * size = bufs[p][i] * size + size
        BY <1>1, <4>1
      <4>4. size = MBUF_PKTBUF_SIZE(build)
        BY <3>1, BuildTypes, Sizes DEF MemobjSize
      <4> QED
        BY <4>2, <4>3, <4>4 DEF At, MdBase
    <3> QED
      BY <3>1
  <2>2. ~Integrated(build, Side(p)) =>
          MdBase(build) \in Nat /\ MdOf(p, i) \in Nat /\ MdBase(build) <= MdOf(p, i)
    <3>1. ASSUME ~Integrated(build, Side(p))
          PROVE  MdBase(build) \in Nat /\ MdOf(p, i) \in Nat /\ MdBase(build) <= MdOf(p, i)
      <4>1. /\ MdBase(build) \in Nat /\ MdAt(p, i) \in Nat /\ MdOf(p, i) \in Nat
            /\ MdBase(build) <= MdAt(p, i) /\ MdAt(p, i) <= MdOf(p, i)
        BY <3>1, InMdBuf
      <4> QED
        BY <4>1
    <3> QED
      BY <3>1
  <2>3. /\ At(p, i) \in Nat /\ PktOf(p, i) \in Nat
        /\ At(p, i) <= PktOf(p, i) /\ PktOf(p, i) + PKT_SIZE <= At(p, i) + size
        /\ build.vio_header => At(p, i) <= PktOf(p, i) - VIO_HEADER_SIZE
        /\ Integrated(build, Side(p)) =>
             /\ MdOf(p, i) = At(p, i)
             /\ MdOf(p, i) + w <= PktOf(p, i) - (IF build.vio_header THEN VIO_HEADER_SIZE ELSE 0)
    BY InFrame
  <2> QED
    BY <1>1, <2>1, <2>2, <2>3
<1>4. k # j => MdOf(p, k) + w <= MdOf(p, j) \/ MdOf(p, j) + w <= MdOf(p, k)
  BY MdsApart
<1>5. PktBytes(p, k) \cap MdBytes(p, j) = {}
  <2>1. PktOf(p, k) + PKT_SIZE <= MdOf(p, j) \/ MdOf(p, j) + w <= PktOf(p, k)
    <3>1. CASE Integrated(build, Side(p))
      BY <1>1, <1>2, <1>3, <3>1 DEF PKT_SIZE, VIO_HEADER_SIZE
    <3>2. CASE ~Integrated(build, Side(p))
      BY <1>1, <1>3, <3>2 DEF PKT_SIZE
    <3> QED
      BY <3>1, <3>2
  <2> QED
    BY <1>1, <1>3, <2>1 DEF PktBytes, MdBytes, PKT_SIZE
<1>6. ASSUME build.vio_header
      PROVE  PktBytes(p, k) \cap HdrBytes(p, j) = {}
  <2>1. PktOf(p, k) + PKT_SIZE <= PktOf(p, j) - VIO_HEADER_SIZE \/ PktOf(p, j) <= PktOf(p, k)
    BY <1>1, <1>2, <1>3, <1>6 DEF PKT_SIZE, VIO_HEADER_SIZE
  <2> QED
    BY <1>3, <2>1 DEF PktBytes, HdrBytes, PKT_SIZE, VIO_HEADER_SIZE
<1>7. ASSUME build.vio_header
      PROVE  MdBytes(p, k) \cap HdrBytes(p, j) = {}
  <2>1. MdOf(p, k) + w <= PktOf(p, j) - VIO_HEADER_SIZE \/ PktOf(p, j) <= MdOf(p, k)
    <3>1. CASE Integrated(build, Side(p))
      BY <1>1, <1>2, <1>3, <1>7, <3>1 DEF PKT_SIZE, VIO_HEADER_SIZE
    <3>2. CASE ~Integrated(build, Side(p))
      BY <1>1, <1>3, <3>2 DEF PKT_SIZE
    <3> QED
      BY <3>1, <3>2
  <2> QED
    BY <1>1, <1>3, <2>1 DEF MdBytes, HdrBytes, VIO_HEADER_SIZE
<1>8. k # j => PktBytes(p, k) \cap PktBytes(p, j) = {}
  <2>1. k # j => PktOf(p, k) + PKT_SIZE <= PktOf(p, j) \/ PktOf(p, j) + PKT_SIZE <= PktOf(p, k)
    BY <1>1, <1>2, <1>3 DEF PKT_SIZE
  <2> QED
    BY <1>3, <2>1 DEF PktBytes, PKT_SIZE
<1>9. k # j => MdBytes(p, k) \cap MdBytes(p, j) = {}
  BY <1>1, <1>3, <1>4 DEF MdBytes
<1> QED
  BY <1>5, <1>6, <1>7, <1>8, <1>9

LEMMA Inside ==
  ASSUME DpControl, NEW p \in Pools, NEW k \in Packets
  PROVE  /\ PktBytes(p, k) \subseteq Frame(p, k)
         /\ build.vio_header => HdrBytes(p, k) \subseteq Frame(p, k)
         /\ MdBytes(p, k) \subseteq Frame(p, k) \cup MdSlot(p, k)
         /\ PktOf(p, k) \in Nat /\ MdOf(p, k) \in Nat
         /\ build.vio_header => PktOf(p, k) - VIO_HEADER_SIZE \in Nat
<1> PICK w : w = MdWritten(build)
  OBVIOUS
<1> PICK size : size = MemobjSize(build, Side(p))
  OBVIOUS
<1>1. w \in Nat /\ size \in Nat
  BY BuildTypes, WrittenWithin, InFrame
<1>2. /\ At(p, k) \in Nat /\ PktOf(p, k) \in Nat
      /\ Frame(p, k) = At(p, k) .. At(p, k) + size - 1
      /\ At(p, k) <= PktOf(p, k) /\ PktOf(p, k) + PKT_SIZE <= At(p, k) + size
      /\ build.vio_header => At(p, k) <= PktOf(p, k) - VIO_HEADER_SIZE
      /\ Integrated(build, Side(p)) =>
           /\ MdOf(p, k) = At(p, k)
           /\ MdOf(p, k) + w <= PktOf(p, k) - (IF build.vio_header THEN VIO_HEADER_SIZE ELSE 0)
  BY InFrame
<1>3. ~Integrated(build, Side(p)) => MdOf(p, k) \in Nat /\ MdBytes(p, k) \subseteq MdSlot(p, k)
  BY InMdBuf
<1>4. PktBytes(p, k) \subseteq Frame(p, k)
  BY <1>1, <1>2 DEF PktBytes, PKT_SIZE
<1>5. build.vio_header => HdrBytes(p, k) \subseteq Frame(p, k) /\ PktOf(p, k) - VIO_HEADER_SIZE \in Nat
  BY <1>1, <1>2 DEF HdrBytes, PKT_SIZE, VIO_HEADER_SIZE
<1>6. Integrated(build, Side(p)) => MdBytes(p, k) \subseteq Frame(p, k)
  <2>1. ASSUME Integrated(build, Side(p))
        PROVE  MdOf(p, k) = At(p, k) /\ MdOf(p, k) + w <= At(p, k) + size
    BY <1>1, <1>2, <2>1 DEF PKT_SIZE, VIO_HEADER_SIZE
  <2> QED
    BY <1>1, <1>2, <2>1 DEF MdBytes
<1> QED
  BY <1>2, <1>3, <1>4, <1>5, <1>6
-----------------------------------------------------------------------------
\* What a step does to the place of a packet and of its metadata: nothing.
LEMMA SamePlace ==
  ASSUME UNCHANGED <<build, bufs, dp_round>>, NEW p \in Pools, NEW k \in Packets
  PROVE  /\ MdOf(p, k)' = MdOf(p, k) /\ PktOf(p, k)' = PktOf(p, k) /\ Id(k)' = Id(k)
         /\ PacketLength(p, mem[p], k)' = PacketLength(p, mem'[p], k)
         /\ Offloads(mem["rx"], k)' = Offloads(mem'["rx"], k)
<1>1. MdOf(p, k)' = MdOf(p, k) /\ PktOf(p, k)' = PktOf(p, k) /\ Id(k)' = Id(k)
  BY DEF MdOf, PktOf, Id, Group, InGroup
<1>2. PacketLength(p, mem[p], k)' = PacketLength(p, mem'[p], k)
  BY <1>1 DEF PacketLength, Length
<1>3. Offloads(mem["rx"], k)' = Offloads(mem'["rx"], k)
  BY DEF Offloads, MdOf, Group, InGroup
<1> QED
  BY <1>1, <1>2, <1>3

\* The bytes that tell whether a packet is what it was.
LEMMA HoldsBytes ==
  ASSUME NEW p \in Pools, NEW k \in Packets
  PROVE  Holds(p, k) <=>
           \A n \in 1 .. 4 :
             /\ Byte(mem[p], PktOf(p, k) + n - 1) = ByteOf(Id(k), n)
             /\ Byte(mem[p], PktOf(p, k) + VERIF_OFFSET + n - 1) = 255 - ByteOf(Id(k), n)
<1>1. Bytes(mem[p], PktOf(p, k), 4) = IdBytes(Id(k)) <=>
        \A n \in 1 .. 4 : Byte(mem[p], PktOf(p, k) + n - 1) = ByteOf(Id(k), n)
  BY DEF Bytes, IdBytes
<1>2. Bytes(mem[p], PktOf(p, k) + VERIF_OFFSET, 4) = VerifBytes(Id(k)) <=>
        \A n \in 1 .. 4 :
          Byte(mem[p], PktOf(p, k) + VERIF_OFFSET + n - 1) = 255 - ByteOf(Id(k), n)
  BY DEF Bytes, VerifBytes
<1> QED
  BY <1>1, <1>2 DEF Holds

\* A packet is there after a step if its bytes are.
LEMMA HoldsNext ==
  ASSUME UNCHANGED <<build, bufs, dp_round>>, NEW p \in Pools, NEW k \in Packets,
         \A n \in 1 .. 4 :
           /\ Byte(mem'[p], PktOf(p, k) + n - 1) = ByteOf(Id(k), n)
           /\ Byte(mem'[p], PktOf(p, k) + VERIF_OFFSET + n - 1) = 255 - ByteOf(Id(k), n)
  PROVE  Holds(p, k)'
<1>1. PktOf(p, k)' = PktOf(p, k) /\ Id(k)' = Id(k)
  BY SamePlace
<1>2. Bytes(mem'[p], PktOf(p, k), 4) = IdBytes(Id(k))
  BY DEF Bytes, IdBytes
<1>3. Bytes(mem'[p], PktOf(p, k) + VERIF_OFFSET, 4) = VerifBytes(Id(k))
  BY DEF Bytes, VerifBytes
<1> QED
  BY <1>1, <1>2, <1>3 DEF Holds

\* The step changes nothing of a pool outside S.
Touches(p, S) == \A x \in Int \ S : Byte(mem'[p], x) = Byte(mem[p], x)

LEMMA HoldsKept ==
  ASSUME DpControl, UNCHANGED <<build, bufs, dp_round>>, NEW p \in Pools, NEW k \in Packets,
         NEW S, Touches(p, S), PktBytes(p, k) \cap S = {}, Holds(p, k)
  PROVE  Holds(p, k)'
<1>1. PktOf(p, k) \in Nat
  BY Inside
<1>2. ASSUME NEW n \in 1 .. 4
      PROVE  /\ PktOf(p, k) + n - 1 \in PktBytes(p, k) /\ PktOf(p, k) + n - 1 \in Int
             /\ PktOf(p, k) + VERIF_OFFSET + n - 1 \in PktBytes(p, k)
             /\ PktOf(p, k) + VERIF_OFFSET + n - 1 \in Int
  BY <1>1 DEF PktBytes, VERIF_OFFSET, PKT_SIZE
<1>3. \A n \in 1 .. 4 :
        /\ Byte(mem'[p], PktOf(p, k) + n - 1) = Byte(mem[p], PktOf(p, k) + n - 1)
        /\ Byte(mem'[p], PktOf(p, k) + VERIF_OFFSET + n - 1)
             = Byte(mem[p], PktOf(p, k) + VERIF_OFFSET + n - 1)
  BY <1>2 DEF Touches
<1> QED
  BY <1>3, HoldsBytes, HoldsNext

\* What is read of the metadata is written of it.
LEMMA LengthSame ==
  ASSUME DpControl, NEW p \in Pools, NEW k \in Packets, NEW m, NEW n,
         \A x \in MdBytes(p, k) : Byte(m, x) = Byte(n, x)
  PROVE  /\ PacketLength(p, m, k) = PacketLength(p, n, k)
         /\ p = "rx" => Offloads(m, k) = Offloads(n, k)
<1> PICK w : w = MdWritten(build)
  OBVIOUS
<1> PICK a : a = MdOf(p, k)
  OBVIOUS
<1> PICK l : l = PktLenBytes(build)
  OBVIOUS
<1>1. /\ w \in Nat /\ a \in Nat /\ l \in {2, 4}
      /\ build.metadata_size # 0 => l <= w
      /\ build.metadata_size >= 16 => w >= 16
  BY BuildTypes, WrittenWithin, Inside DEF PktLenBytes
<1>2. MdBytes(p, k) = a .. a + w - 1
  BY DEF MdBytes
<1>3. ASSUME build.metadata_size # 0
      PROVE  Length(m, a) = Length(n, a)
  <2>1. \A i \in 0 .. l - 1 : a + i \in MdBytes(p, k)
    BY <1>1, <1>2, <1>3
  <2>2. \A i \in 0 .. l - 1 : Byte(m, a + i) = Byte(n, a + i)
    BY <2>1
  <2>3. Byte(m, a) = Byte(n, a) /\ Byte(m, a + 1) = Byte(n, a + 1)
    <3>1. a + 0 = a /\ 0 \in 0 .. l - 1 /\ 1 \in 0 .. l - 1
      BY <1>1
    <3> QED
      BY <2>2, <3>1
  <2>4. \A i \in 2 .. l - 1 : Byte(m, a + i) = Byte(n, a + i)
    BY <1>1, <2>2
  <2> QED
    BY <2>3, <2>4 DEF Length
<1>4. PacketLength(p, m, k) = PacketLength(p, n, k)
  BY <1>3 DEF PacketLength
<1>5. ASSUME p = "rx", build.metadata_size >= 16
      PROVE  Byte(m, MdOf("rx", k) + 14) = Byte(n, MdOf("rx", k) + 14)
  <2>1. a + 14 \in MdBytes(p, k)
    BY <1>1, <1>2, <1>5
  <2> QED
    BY <1>5, <2>1
<1>6. p = "rx" => Offloads(m, k) = Offloads(n, k)
  BY <1>5 DEF Offloads
<1> QED
  BY <1>4, <1>6

LEMMA LengthKept ==
  ASSUME DpControl, UNCHANGED <<build, bufs, dp_round>>, NEW p \in Pools, NEW k \in Packets,
         NEW S, Touches(p, S), MdBytes(p, k) \cap S = {}
  PROVE  /\ PacketLength(p, mem[p], k)' = PacketLength(p, mem[p], k)
         /\ p = "rx" => Offloads(mem["rx"], k)' = Offloads(mem["rx"], k)
<1>1. MdOf(p, k) \in Nat /\ MdWritten(build) \in Nat
  BY Inside, BuildTypes, WrittenWithin
<1>2. \A x \in MdBytes(p, k) : x \in Int
  BY <1>1 DEF MdBytes
<1>3. \A x \in MdBytes(p, k) : Byte(mem'[p], x) = Byte(mem[p], x)
  BY <1>2 DEF Touches
<1> QED
  BY <1>3, LengthSame, SamePlace
-----------------------------------------------------------------------------
(***************************************************************************)
(* The three things that a step writes at a packet, and what they leave: a *)
(* packet leaves the other packets and all metadata, a header leaves       *)
(* everything, metadata leave the packets and the other metadata.  Of the  *)
(* packet itself something is kept if it is there afterwards.              *)
(***************************************************************************)
Kept(p, k) ==
  /\ Holds(p, k) => Holds(p, k)'
  /\ PacketLength(p, mem[p], k) = PKT_SIZE => PacketLength(p, mem[p], k)' = PKT_SIZE
  /\ p = "rx" /\ ~Offloads(mem["rx"], k) => ~Offloads(mem["rx"], k)'

LEMMA KeptByPacket ==
  ASSUME DpControl, UNCHANGED <<build, bufs, dp_round>>, NEW p \in Pools, NEW j \in Packets,
         Touches(p, PktBytes(p, j)), NEW k \in Packets
  PROVE  k # j \/ Holds(p, j)' => Kept(p, k)
<1>1. MdBytes(p, k) \cap PktBytes(p, j) = {}
  BY Apart
<1>2. k # j => PktBytes(p, k) \cap PktBytes(p, j) = {}
  BY Apart
<1>3. /\ PacketLength(p, mem[p], k)' = PacketLength(p, mem[p], k)
      /\ p = "rx" => Offloads(mem["rx"], k)' = Offloads(mem["rx"], k)
  BY <1>1, LengthKept
<1>4. k # j /\ Holds(p, k) => Holds(p, k)'
  BY <1>2, HoldsKept
<1> QED
  BY <1>3, <1>4 DEF Kept

LEMMA KeptByHeader ==
  ASSUME DpControl, UNCHANGED <<build, bufs, dp_round>>, NEW p \in Pools, NEW j \in Packets,
         build.vio_header, Touches(p, HdrBytes(p, j)), NEW k \in Packets
  PROVE  Kept(p, k)
<1>1. MdBytes(p, k) \cap HdrBytes(p, j) = {} /\ PktBytes(p, k) \cap HdrBytes(p, j) = {}
  BY Apart
<1>2. /\ PacketLength(p, mem[p], k)' = PacketLength(p, mem[p], k)
      /\ p = "rx" => Offloads(mem["rx"], k)' = Offloads(mem["rx"], k)
  BY <1>1, LengthKept
<1>3. Holds(p, k) => Holds(p, k)'
  BY <1>1, HoldsKept
<1> QED
  BY <1>2, <1>3 DEF Kept

LEMMA KeptByMetadata ==
  ASSUME DpControl, UNCHANGED <<build, bufs, dp_round>>, NEW p \in Pools, NEW j \in Packets,
         Touches(p, MdBytes(p, j)), NEW k \in Packets
  PROVE  \/ k # j
         \/ PacketLength(p, mem[p], j)' = PKT_SIZE /\ (p = "rx" => ~Offloads(mem["rx"], j)')
         => Kept(p, k)
<1>1. PktBytes(p, k) \cap MdBytes(p, j) = {}
  BY Apart
<1>2. k # j => MdBytes(p, k) \cap MdBytes(p, j) = {}
  BY Apart
<1>3. k # j => /\ PacketLength(p, mem[p], k)' = PacketLength(p, mem[p], k)
               /\ p = "rx" => Offloads(mem["rx"], k)' = Offloads(mem["rx"], k)
  BY <1>2, LengthKept
<1>4. Holds(p, k) => Holds(p, k)'
  BY <1>1, HoldsKept
<1> QED
  BY <1>3, <1>4 DEF Kept

LEMMA KeptByNothing ==
  ASSUME DpControl, UNCHANGED <<build, bufs, dp_round>>, NEW p \in Pools,
         Touches(p, {}), NEW k \in Packets
  PROVE  Kept(p, k)
<1>1. Holds(p, k) => Holds(p, k)'
  BY HoldsKept
<1>2. /\ PacketLength(p, mem[p], k)' = PacketLength(p, mem[p], k)
      /\ p = "rx" => Offloads(mem["rx"], k)' = Offloads(mem["rx"], k)
  BY LengthKept
<1> QED
  BY <1>1, <1>2 DEF Kept

\* One turn of the loop step: the packet it was at has been through it, and no other packet
\* through any other loop, unless one that the build leaves out.
LEMMA TurnPast ==
  ASSUME DpControl, NEW step \in DOMAIN Stage, NEW next \in DOMAIN Stage,
         Stage[step] < Stage[next], Turn(step, next)
  PROVE  /\ dp_step = step /\ UNCHANGED <<build, bufs, dp_round>>
         /\ dp_step' \in {step, next} /\ dp_k' \in Packets
         /\ dp_step' = "done" => dp_k' = 1
         /\ \A t \in DOMAIN Stage, k \in Packets :
              Past(t, k)' =>
                \/ Past(t, k)
                \/ t = step /\ k = dp_k
                \/ Stage[step] < Stage[t] /\ Stage[t] < Stage[next]
<1>1. dp_step = step /\ UNCHANGED <<build, bufs, dp_round>> /\ dp_step' \in {step, next}
  BY DEF Turn
<1>2. dp_k \in Packets /\ dp_k' \in Packets /\ dp_k \in Nat /\ dp_k' \in Nat
  BY BuildTypes DEF DpControl, Turn, Packets
<1>3. step # "done"
  BY DEF Stage
<1>4. \A t, u \in DOMAIN Stage : Stage[t] \in Nat /\ (Stage[t] = Stage[u] => t = u)
  BY DEF Stage
<1>5. ASSUME NEW t \in DOMAIN Stage, NEW k \in Packets, Past(t, k)'
      PROVE  \/ Past(t, k)
             \/ t = step /\ k = dp_k
             \/ Stage[step] < Stage[t] /\ Stage[t] < Stage[next]
  <2>1. k \in Nat /\ 1 <= k /\ k <= BATCH /\ BATCH \in Nat
    BY BuildTypes DEF Packets
  <2>2. CASE dp_k < BATCH
    <3>1. dp_k' = dp_k + 1 /\ dp_step' = step
      BY <1>1, <2>2 DEF Turn
    <3>2. Stage[t] < Stage[step] \/ (step = t /\ k < dp_k + 1)
      BY <1>5, <3>1 DEF Past
    <3> QED
      BY <1>1, <1>2, <2>1, <3>2 DEF Past
  <2>3. CASE ~(dp_k < BATCH)
    <3>1. dp_k' = 1 /\ dp_step' = next /\ dp_k = BATCH
      BY <1>2, <2>1, <2>3 DEF Turn, Packets
    <3>2. Stage[t] < Stage[next]
      BY <1>5, <2>1, <3>1 DEF Past
    <3>3. CASE Stage[t] < Stage[step]
      BY <1>1, <3>3 DEF Past
    <3>4. CASE t = step
      BY <1>1, <2>1, <3>1, <3>4 DEF Past
    <3>5. CASE Stage[step] < Stage[t]
      BY <3>2, <3>5
    <3> QED
      BY <1>4, <3>3, <3>4, <3>5
  <2> QED
    BY <2>2, <2>3
<1>6. dp_step' = "done" => dp_k' = 1
  BY <1>1, <1>3 DEF Turn
<1> QED
  BY <1>1, <1>2, <1>5, <1>6

LEMMA Stages ==
  /\ \A t \in DOMAIN Stage : Stage[t] \in Nat
  /\ {"generate", "reset_rx", "clear_rx", "copy_md_rx", "copy_rx", "reset_nf", "send_nf",
      "set_len", "copy_tx", "copy_md_tx", "done"} = DOMAIN Stage
  /\ Stage["generate"] = 1 /\ Stage["reset_rx"] = 2 /\ Stage["clear_rx"] = 3
  /\ Stage["copy_md_rx"] = 4 /\ Stage["copy_rx"] = 5 /\ Stage["reset_nf"] = 6
  /\ Stage["send_nf"] = 7 /\ Stage["set_len"] = 8 /\ Stage["copy_tx"] = 9
  /\ Stage["copy_md_tx"] = 10 /\ Stage["done"] = 11
BY DEF Stage

\* What the other loops have done is done for all packets.
LEMMA EarlierLoops ==
  ASSUME DpControl, NEW t \in DOMAIN Stage, Stage[t] < Stage[dp_step], NEW k \in Packets
  PROVE  Past(t, k)
BY DEF Past
-----------------------------------------------------------------------------
\* A step that writes m to a pool leaves the others alone.
LEMMA Written ==
  ASSUME DpControl, NEW p \in Pools, NEW m, mem' = [mem EXCEPT ![p] = m]
  PROVE  /\ mem'[p] = m
         /\ \A q \in Pools : q # p => mem'[q] = mem[q] /\ Touches(q, {})
         /\ mem' = [q \in Pools |-> mem'[q]]
BY DEF DpControl, Touches

LEMMA Unwritten ==
  ASSUME DpControl, UNCHANGED mem, NEW p \in Pools
  PROVE  mem' = [mem EXCEPT ![p] = mem[p]] /\ DOMAIN mem[p] \subseteq Nat
<1>1. mem = [q \in Pools |-> mem[q]] /\ DOMAIN mem[p] \subseteq Nat
  BY DEF DpControl
<1>2. [mem EXCEPT ![p] = mem[p]] = mem
  BY <1>1
<1> QED
  BY <1>1, <1>2

LEMMA ControlNext ==
  ASSUME DpControl, NEW step \in DOMAIN Stage, NEW next \in DOMAIN Stage,
         Stage[step] < Stage[next], Turn(step, next),
         {step, next} \cap {"copy_md_rx", "copy_md_tx"} # {} => build.memcpy_md,
         NEW p \in Pools, NEW m, mem' = [mem EXCEPT ![p] = m], DOMAIN m \subseteq Nat,
         desc_len' \in [Packets -> Nat]
  PROVE  DpControl'
<1>1. /\ UNCHANGED <<build, bufs, dp_round>> /\ dp_step' \in {step, next} /\ dp_k' \in Packets
      /\ dp_step' = "done" => dp_k' = 1
  BY TurnPast
<1>2. Sound(build) => Sound(build')
  BY <1>1
<1>3. build' \in BUILDS /\ Sound(build') /\ dp_round' \in Nat /\ bufs' \in [Pools -> Placements]
  BY <1>1, <1>2 DEF DpControl
<1>4. mem' = [q \in Pools |-> mem'[q]]
  BY Written
<1>5. \A q \in Pools : DOMAIN mem'[q] \subseteq Nat
  BY Written DEF DpControl
<1>6. dp_step' \in {"copy_md_rx", "copy_md_tx"} => build'.memcpy_md
  BY <1>1
<1> QED
  BY <1>1, <1>3, <1>4, <1>5, <1>6 DEF DpControl

\* A step writes only what belongs to the packet it is at.
Stays == \A p \in Pools : Touches(p, Frame(p, dp_k) \cup MdSlot(p, dp_k))

LEMMA StaysIn ==
  ASSUME DpControl, NEW p \in Pools, NEW S, Touches(p, S),
         \A q \in Pools : q # p => Touches(q, {}),
         \/ S = {} \/ S = PktBytes(p, dp_k) \/ S = MdBytes(p, dp_k)
         \/ S = HdrBytes(p, dp_k) /\ build.vio_header
  PROVE  Stays
<1>1. dp_k \in Packets
  BY DEF DpControl
<1>2. S \subseteq Frame(p, dp_k) \cup MdSlot(p, dp_k)
  BY <1>1, Inside
<1> QED
  BY <1>2 DEF Stays, Touches

(***************************************************************************)
(* What the writes of the data path do to the bytes they are made to.      *)
(***************************************************************************)
LEMMA PutTouches ==
  ASSUME DpControl, NEW p \in Pools, NEW a \in Nat, NEW n \in Nat, NEW data, Sized(data, n),
         mem'[p] = Put(mem[p], a, data), NEW S, \A x \in Int : a <= x /\ x < a + n => x \in S
  PROVE  Touches(p, S) /\ DOMAIN mem'[p] \subseteq Nat
<1>1. ASSUME NEW x \in Int, x \notin S
      PROVE  Byte(mem'[p], x) = Byte(mem[p], x)
  <2>1. x < a \/ a + n <= x
    BY <1>1
  <2> QED
    BY <2>1, PutOutside
<1>2. DOMAIN mem[p] \subseteq Nat
  BY DEF DpControl
<1> QED
  BY <1>1, <1>2, PutDomain DEF Touches

LEMMA PutNothing ==
  ASSUME NEW m, NEW a, NEW data, Sized(data, 0)
  PROVE  Put(m, a, data) = [x \in DOMAIN m |-> m[x]]
<1>1. {a + n - 1 : n \in DOMAIN data} = {}
  BY DEF Sized
<1> QED
  BY <1>1 DEF Put

LEMMA NothingTouched ==
  ASSUME DpControl, NEW p \in Pools, NEW a, NEW data, Sized(data, 0),
         mem'[p] = Put(mem[p], a, data)
  PROVE  Touches(p, {}) /\ DOMAIN mem'[p] \subseteq Nat
<1>1. mem'[p] = [x \in DOMAIN mem[p] |-> mem[p][x]]
  BY PutNothing
<1>2. DOMAIN mem[p] \subseteq Nat
  BY DEF DpControl
<1> QED
  BY <1>1, <1>2 DEF Touches, Byte

\* A packet that is copied whole is there.
LEMMA PacketCopied ==
  ASSUME DpControl, UNCHANGED <<build, bufs, dp_round>>, NEW p \in Pools, NEW q \in Pools,
         NEW j \in Packets, Holds(q, j),
         mem'[p] = Put(mem[p], PktOf(p, j), Bytes(mem[q], PktOf(q, j), PKT_SIZE))
  PROVE  /\ Touches(p, PktBytes(p, j)) /\ DOMAIN mem'[p] \subseteq Nat
         /\ Holds(p, j)'
<1> PICK a \in Nat : a = PktOf(p, j)
  BY Inside
<1> PICK c \in Nat : c = PktOf(q, j)
  BY Inside
<1> DEFINE data == Bytes(mem[q], c, 60)
<1>1. mem'[p] = Put(mem[p], a, data) /\ VERIF_OFFSET = 56
  BY DEF PKT_SIZE, VERIF_OFFSET
<1>2. Sized(data, 60) /\ 60 \in Nat /\ \A n \in 1 .. 60 : data[n] = Byte(mem[q], c + n - 1)
  BY DEF Bytes, Sized
<1> HIDE DEF data
<1>3. Touches(p, PktBytes(p, j)) /\ DOMAIN mem'[p] \subseteq Nat
  <2>1. \A x \in Int : a <= x /\ x < a + 60 => x \in PktBytes(p, j)
    BY DEF PktBytes, PKT_SIZE
  <2> QED
    BY <1>1, <1>2, <2>1, PutTouches
<1>4. ASSUME NEW n \in 1 .. 4
      PROVE  /\ Byte(mem'[p], a + n - 1) = ByteOf(Id(j), n)
             /\ Byte(mem'[p], a + VERIF_OFFSET + n - 1) = 255 - ByteOf(Id(j), n)
  <2> PICK x \in Int : x = a + n - 1
    OBVIOUS
  <2> PICK y \in Int : y = a + 56 + n - 1
    OBVIOUS
  <2> PICK i \in Int : i = n
    OBVIOUS
  <2> PICK l \in Int : l = 56 + n
    OBVIOUS
  <2>1. x = a + i - 1 /\ y = a + l - 1 /\ i \in 1 .. 60 /\ l \in 1 .. 60
    OBVIOUS
  <2>2. Byte(mem'[p], x) = data[i]
    BY <1>1, <1>2, <2>1, PutInside
  <2>5. Byte(mem'[p], y) = data[l]
    BY <1>1, <1>2, <2>1, PutInside
  <2>3. data[i] = Byte(mem[q], c + n - 1) /\ data[l] = Byte(mem[q], c + VERIF_OFFSET + n - 1)
    <3>1. c + l - 1 = c + 56 + n - 1
      OBVIOUS
    <3>2. data[l] = Byte(mem[q], c + l - 1) /\ data[i] = Byte(mem[q], c + i - 1)
      BY <1>2
    <3> QED
      BY <1>1, <3>1, <3>2
  <2>4. /\ Byte(mem[q], c + n - 1) = ByteOf(Id(j), n)
        /\ Byte(mem[q], c + VERIF_OFFSET + n - 1) = 255 - ByteOf(Id(j), n)
    BY HoldsBytes
  <2> QED
    BY <1>1, <2>2, <2>3, <2>4, <2>5
<1> QED
  BY <1>3, <1>4, HoldsNext

\* Where the host looks for a packet of the guest pool, there it is.
LEMMA HostViewIs ==
  ASSUME DpControl, NEW k \in Packets
  PROVE  HostView(k) = PktOf("guest", k)
<1>1. bufs["guest"][k] \in Nat
  BY BufTypes DEF Pools
<1>2. build \in Builds /\ SameView(build)
  BY BuildTypes DEF Sound
<1> QED
  BY <1>1, <1>2, ViewsAgree DEF HostView, PktOf, Side

LEMMA HeaderCleared ==
  ASSUME DpControl, NEW p \in Pools, NEW j \in Packets, NEW m
  PROVE  LET cleared == ClearHeader(m, PktOf(p, j))
         IN  /\ build.vio_header =>
                  \A x \in Int \ HdrBytes(p, j) : Byte(cleared, x) = Byte(m, x)
             /\ ~build.vio_header => cleared = m
             /\ DOMAIN m \subseteq Nat => DOMAIN cleared \subseteq Nat
<1>1. CASE build.vio_header
  <2> PICK a \in Nat : a = PktOf(p, j) - VIO_HEADER_SIZE
    BY <1>1, Inside
  <2> DEFINE data == [n \in 1 .. VIO_HEADER_SIZE |-> 0]
  <2>1. ClearHeader(m, PktOf(p, j)) = Put(m, a, data)
    BY <1>1 DEF ClearHeader
  <2>2. Sized(data, 12) /\ 12 \in Nat
    BY DEF Sized, VIO_HEADER_SIZE
  <2> HIDE DEF data
  <2>3. ASSUME NEW x \in Int, x \notin HdrBytes(p, j)
        PROVE  Byte(Put(m, a, data), x) = Byte(m, x)
    <3>1. HdrBytes(p, j) = a .. a + 12 - 1
      <4>1. PktOf(p, j) \in Nat
        BY Inside
      <4> QED
        BY <4>1 DEF HdrBytes, VIO_HEADER_SIZE
    <3>2. x < a \/ a + 12 <= x
      BY <2>3, <3>1
    <3> QED
      BY <2>2, <3>2, PutOutside
  <2>4. DOMAIN m \subseteq Nat => DOMAIN Put(m, a, data) \subseteq Nat
    BY <2>2, PutDomain
  <2> QED
    BY <1>1, <2>1, <2>3, <2>4
<1>2. CASE ~build.vio_header
  BY <1>2 DEF ClearHeader
<1> QED
  BY <1>1, <1>2

\* The bytes of PKT_SIZE in front of the metadata are its pkt_len.
LEMMA LengthWritten ==
  ASSUME DpControl, NEW p \in Pools, NEW j \in Packets, build.metadata_size # 0,
         NEW m, NEW w \in Nat, NEW data, Sized(data, w), PktLenBytes(build) <= w,
         \A n \in 1 .. PktLenBytes(build) : data[n] = ByteOf(PKT_SIZE, n)
  PROVE  PacketLength(p, Put(m, MdOf(p, j), data), j) = PKT_SIZE
<1> PICK a \in Nat : a = MdOf(p, j)
  BY Inside
<1> PICK l \in Nat : l = PktLenBytes(build)
  BY DEF PktLenBytes
<1>1. l \in {2, 4}
  BY DEF PktLenBytes
<1>2. ByteOf(60, 1) = 60 /\ \A n \in 2 .. 4 : ByteOf(60, n) = 0
  BY DEF ByteOf
<1>3. ASSUME NEW n \in 0 .. l - 1
      PROVE  Byte(Put(m, a, data), a + n) = ByteOf(60, n + 1)
  <2> PICK x \in Int : x = a + n
    OBVIOUS
  <2> PICK i \in Int : i = n + 1
    BY <1>1
  <2>1. x = a + i - 1 /\ i \in 1 .. l /\ i \in 1 .. w
    OBVIOUS
  <2>2. Byte(Put(m, a, data), x) = data[i]
    BY <2>1, PutInside
  <2> QED
    BY <2>1, <2>2 DEF PKT_SIZE
<1>4. Byte(Put(m, a, data), a) = 60 /\ Byte(Put(m, a, data), a + 1) = 0
  <2>1. 0 \in 0 .. l - 1 /\ 1 \in 0 .. l - 1 /\ a + 0 = a /\ 0 + 1 = 1 /\ 1 + 1 = 2
    BY <1>1
  <2>2. Byte(Put(m, a, data), a + 0) = ByteOf(60, 0 + 1)
    BY <1>3, <2>1
  <2>3. Byte(Put(m, a, data), a + 1) = ByteOf(60, 1 + 1)
    BY <1>3, <2>1
  <2> QED
    BY <1>2, <2>1, <2>2, <2>3
<1>5. ASSUME NEW n \in 2 .. l - 1
      PROVE  Byte(Put(m, a, data), a + n) = 0
  <2>1. n \in 0 .. l - 1 /\ n + 1 \in 2 .. 4
    BY <1>1
  <2> QED
    BY <1>2, <1>3, <2>1
<1> QED
  BY <1>4, <1>5 DEF PacketLength, Length, PKT_SIZE

\* Metadata that are reset tell the length, and no offloads.
LEMMA MetadataReset ==
  ASSUME DpControl, UNCHANGED <<build, bufs, dp_round>>, NEW p \in Pools, NEW j \in Packets,
         j = dp_k, ResetMd(p, PKT_SIZE)
  PROVE  /\ \E m : mem' = [mem EXCEPT ![p] = m] /\ DOMAIN m \subseteq Nat
         /\ Touches(p, MdBytes(p, j))
         /\ PacketLength(p, mem[p], j)' = PKT_SIZE
         /\ p = "rx" => ~Offloads(mem["rx"], j)'
<1>1. CASE build.memcpy_md
  <2>1. build.metadata_size = 0 /\ build' = build
    BY <1>1 DEF DpControl, Sound
  <2>2. UNCHANGED mem
    BY <1>1 DEF ResetMd
  <2>3. mem' = [mem EXCEPT ![p] = mem[p]] /\ DOMAIN mem[p] \subseteq Nat
    BY <2>2, Unwritten
  <2>4. PacketLength(p, mem[p], j)' = PKT_SIZE
    BY <2>1 DEF PacketLength, PKT_SIZE
  <2>5. ~Offloads(mem["rx"], j)'
    BY <2>1 DEF Offloads
  <2>6. Touches(p, MdBytes(p, j))
    BY <2>2 DEF Touches
  <2> QED
    BY <2>3, <2>4, <2>5, <2>6
<1>2. CASE ~build.memcpy_md
  <2> PICK a \in Nat : a = MdOf(p, j)
    BY Inside
  <2> PICK w \in Nat : w = MdWritten(build)
    BY BuildTypes, WrittenWithin
  <2> PICK data : data = MdImage(PKT_SIZE, 3)
    OBVIOUS
  <2>1. mem' = [mem EXCEPT ![p] = Put(mem[p], a, data)]
    BY <1>2 DEF ResetMd, Write
  <2>2. mem'[p] = Put(mem[p], a, data)
    BY <2>1, Written
  <2>3. Sized(data, w)
    BY DEF Sized, MdImage
  <2>4. MdBytes(p, j) = a .. a + w - 1
    BY DEF MdBytes
  <2>5. \A x \in Int : a <= x /\ x < a + w => x \in MdBytes(p, j)
    BY <2>4
  <2>6. Touches(p, MdBytes(p, j)) /\ DOMAIN mem'[p] \subseteq Nat
    BY <2>2, <2>3, <2>5, PutTouches
  <2>7. PacketLength(p, mem[p], j)' = PKT_SIZE
    <3>1. PacketLength(p, mem[p], j)' = PacketLength(p, mem'[p], j)
      BY SamePlace
    <3>2. CASE build.metadata_size = 0
      BY <3>1, <3>2 DEF PacketLength
    <3>3. CASE build.metadata_size # 0
      <4>1. PktLenBytes(build) <= w /\ PktLenBytes(build) \in Nat
        BY <3>3, BuildTypes, WrittenWithin DEF PktLenBytes
      <4>2. ASSUME NEW n \in 1 .. PktLenBytes(build)
            PROVE  data[n] = ByteOf(PKT_SIZE, n)
        <5>1. n \in 1 .. w /\ n <= PktLenBytes(build) /\ n # 5 /\ n # 7
          BY <4>1 DEF PktLenBytes
        <5> QED
          BY <5>1 DEF MdImage
      <4> QED
        BY <2>2, <2>3, <3>1, <3>3, <4>1, <4>2, LengthWritten
    <3> QED
      BY <3>2, <3>3
  <2>8. ASSUME p = "rx"
        PROVE  ~Offloads(mem["rx"], j)'
    <3>1. Offloads(mem["rx"], j)' = Offloads(mem'["rx"], j)
      BY SamePlace
    <3>2. CASE build.metadata_size >= 16
      <4>1. 16 <= w
        BY <3>2, BuildTypes, WrittenWithin
      <4> PICK x \in Int : x = a + 14
        OBVIOUS
      <4>2. x - a + 1 = 15 /\ 15 \in 1 .. w /\ a <= x /\ x < a + w
        BY <4>1
      <4>3. PktLenBytes(build) \in {2, 4}
        BY DEF PktLenBytes
      <4>4. data[15] = 0
        BY <4>2, <4>3 DEF MdImage
      <4>5. Byte(mem'[p], x) = 0
        BY <2>2, <2>3, <4>2, <4>4, PutInside
      <4>6. (0 \div 16) % 4 = 0
        OBVIOUS
      <4>7. Byte(mem'["rx"], MdOf("rx", j) + 14) = 0
        BY <2>8, <4>5
      <4> QED
        BY <3>1, <4>6, <4>7 DEF Offloads
    <3>3. CASE ~(build.metadata_size >= 16)
      BY <3>1, <3>3 DEF Offloads
    <3> QED
      BY <3>2, <3>3
  <2> QED
    BY <2>1, <2>2, <2>6, <2>7, <2>8
<1> QED
  BY <1>1, <1>2
-----------------------------------------------------------------------------
\* The loops that do what DpInv speaks of, and what each of them does for packet j.
Marks == {"generate", "reset_rx", "copy_rx", "reset_nf", "set_len", "copy_tx"}

Achieved(step, j) ==
  /\ step = "generate" => Holds("rx", j)'
  /\ step = "reset_rx" =>
       PacketLength("rx", mem["rx"], j)' = PKT_SIZE /\ ~Offloads(mem["rx"], j)'
  /\ step = "copy_rx" => Holds("guest", j)' /\ desc_len'[j] = PKT_SIZE
  /\ step = "reset_nf" => PacketLength("guest", mem["guest"], j)' = PKT_SIZE
  /\ step = "set_len" => PacketLength("tx", mem["tx"], j)' = PKT_SIZE
  /\ step = "copy_tx" => Holds("tx", j)'

\* A loop that follows another, in a build that leaves out what is between the two.
Follows(step, next) ==
  /\ step \in DOMAIN Stage /\ next \in DOMAIN Stage /\ Stage[step] < Stage[next]
  /\ \A t \in Marks : ~(Stage[step] < Stage[t] /\ Stage[t] < Stage[next])
  /\ {step, next} \cap {"copy_md_rx", "copy_md_tx"} # {} => build.memcpy_md

LEMMA DoneNext ==
  ASSUME DpInv, NEW step, NEW j, NEW k \in Packets,
         \A t \in Marks : Past(t, k)' => Past(t, k) \/ (t = step /\ k = j),
         \A p \in Pools : Kept(p, k), Achieved(step, j),
         desc_len'[k] = desc_len[k] \/ desc_len'[k] = PKT_SIZE
  PROVE  Done(k)'
<1>1. Done(k)
  BY DEF DpInv
<1>2. Kept("rx", k) /\ Kept("guest", k) /\ Kept("tx", k)
  BY DEF Pools
<1>3. Past("generate", k)' => Holds("rx", k)'
  BY <1>1, <1>2 DEF Done, Kept, Achieved, Marks
<1>4. Past("reset_rx", k)' =>
        PacketLength("rx", mem["rx"], k)' = PKT_SIZE /\ ~Offloads(mem["rx"], k)'
  BY <1>1, <1>2 DEF Done, Kept, Achieved, Marks
<1>5. Past("copy_rx", k)' => Holds("guest", k)' /\ desc_len'[k] = PKT_SIZE
  BY <1>1, <1>2 DEF Done, Kept, Achieved, Marks
<1>6. Past("reset_nf", k)' => PacketLength("guest", mem["guest"], k)' = PKT_SIZE
  BY <1>1, <1>2 DEF Done, Kept, Achieved, Marks
<1>7. Past("set_len", k)' => PacketLength("tx", mem["tx"], k)' = PKT_SIZE
  BY <1>1, <1>2 DEF Done, Kept, Achieved, Marks
<1>8. Past("copy_tx", k)' => Holds("tx", k)'
  BY <1>1, <1>2 DEF Done, Kept, Achieved, Marks
<1> QED
  BY <1>3, <1>4, <1>5, <1>6, <1>7, <1>8 DEF Done, PKT_SIZE

(***************************************************************************)
(* What there is to show of an action: that it writes only one of the      *)
(* three things, that it keeps what there was in that pool, and that it    *)
(* does what DpInv expects of its loop.                                    *)
(***************************************************************************)
LEMMA Step ==
  ASSUME DpInv, NEW step, NEW next, Follows(step, next), Turn(step, next),
         NEW j, j = dp_k, NEW p \in Pools, NEW m, mem' = [mem EXCEPT ![p] = m],
         DOMAIN m \subseteq Nat,
         NEW S, Touches(p, S),
         \/ S = {} \/ S = PktBytes(p, j) \/ S = MdBytes(p, j)
         \/ S = HdrBytes(p, j) /\ build.vio_header,
         \A k \in Packets : Kept(p, k), Achieved(step, j),
         desc_len' \in [Packets -> Nat],
         \A k \in Packets : desc_len'[k] = desc_len[k] \/ desc_len'[k] = PKT_SIZE
  PROVE  DpInv' /\ Stays
<1>1. /\ DpControl /\ step \in DOMAIN Stage /\ next \in DOMAIN Stage
      /\ Stage[step] < Stage[next]
      /\ {step, next} \cap {"copy_md_rx", "copy_md_tx"} # {} => build.memcpy_md
      /\ \A t \in Marks : ~(Stage[step] < Stage[t] /\ Stage[t] < Stage[next])
  BY DEF DpInv, Follows
<1>2. /\ UNCHANGED <<build, bufs, dp_round>>
      /\ \A t \in Marks, k \in Packets : Past(t, k)' => Past(t, k) \/ (t = step /\ k = j)
  <2>1. \A t \in Marks : t \in DOMAIN Stage
    BY Stages DEF Marks
  <2> QED
    BY <1>1, <2>1, TurnPast
<1>3. \A q \in Pools : q # p => Touches(q, {})
  BY <1>1, Written
<1>4. DpControl'
  BY <1>1, ControlNext
<1>5. \A q \in Pools, k \in Packets : Kept(q, k)
  BY <1>1, <1>2, <1>3, KeptByNothing
<1>6. \A k \in Packets : Done(k)'
  BY <1>2, <1>5, DoneNext
<1>7. Stays
  BY <1>1, <1>3, StaysIn
<1> QED
  BY <1>4, <1>6, <1>7 DEF DpInv

LEMMA GenerateStep ==
  ASSUME DpInv, Generate
  PROVE  DpInv' /\ Stays
<1> PICK j \in Packets : j = dp_k
  BY DEF DpInv, DpControl
<1> PICK a \in Nat : a = PktOf("rx", j)
  BY Inside DEF DpInv, Pools
<1> DEFINE id == Id(j)
           first == Put(mem["rx"], a, IdBytes(id))
<1>1. DpControl /\ j \in Packets /\ Turn("generate", "reset_rx") /\ UNCHANGED desc_len
  BY DEF DpInv, DpControl, Generate
<1>2. Follows("generate", "reset_rx")
  BY Stages DEF Follows, Marks
<1>3. UNCHANGED <<build, bufs, dp_round>>
  BY <1>1 DEF Turn
<1>4. mem' = [mem EXCEPT !["rx"] = Put(first, a + VERIF_OFFSET, VerifBytes(id))]
  BY DEF Generate, InitPkt
<1>5. "rx" \in Pools /\ a \in Nat /\ VERIF_OFFSET = 56 /\ a + 56 \in Nat
  BY DEF Pools, VERIF_OFFSET, PKT_SIZE
<1>6. Sized(IdBytes(id), 4) /\ Sized(VerifBytes(id), 4) /\ 4 \in Nat
  BY DEF IdBytes, VerifBytes, Sized
<1> HIDE DEF id
<1>7. DOMAIN first \subseteq Nat /\ DOMAIN Put(first, a + VERIF_OFFSET, VerifBytes(id)) \subseteq Nat
  <2>1. DOMAIN mem["rx"] \subseteq Nat
    BY <1>1, <1>5 DEF DpControl
  <2>2. DOMAIN first \subseteq Nat
    BY <1>5, <1>6, <2>1, PutDomain
  <2> QED
    BY <1>5, <1>6, <2>2, PutDomain
<1>8. mem'["rx"] = Put(first, a + 56, VerifBytes(id))
  BY <1>1, <1>4, <1>5, Written
<1>9. Touches("rx", PktBytes("rx", j))
  <2>1. ASSUME NEW x \in Int, x \notin PktBytes("rx", j)
        PROVE  Byte(mem'["rx"], x) = Byte(mem["rx"], x)
    <3>1. x < a \/ a + 60 <= x
      BY <1>5, <2>1 DEF PktBytes, PKT_SIZE
    <3>2. Byte(first, x) = Byte(mem["rx"], x)
      <4>1. x < a \/ a + 4 <= x
        BY <1>5, <3>1
      <4> QED
        BY <1>5, <1>6, <4>1, PutOutside
    <3> HIDE DEF first
    <3>3. Byte(mem'["rx"], x) = Byte(first, x)
      <4>1. x < a + 56 \/ a + 56 + 4 <= x
        BY <1>5, <3>1
      <4> QED
        BY <1>5, <1>6, <1>8, <4>1, PutOutside
    <3> QED
      BY <3>2, <3>3
  <2> QED
    BY <2>1 DEF Touches
<1>10. Holds("rx", j)'
  <2>1. ASSUME NEW n \in 1 .. 4
        PROVE  /\ Byte(mem'["rx"], a + n - 1) = ByteOf(id, n)
               /\ Byte(mem'["rx"], a + VERIF_OFFSET + n - 1) = 255 - ByteOf(id, n)
    <3> PICK x \in Int : x = a + n - 1
      BY <1>5
    <3> PICK y \in Int : y = a + 56 + n - 1
      BY <1>5
    <3>0. first = Put(mem["rx"], a, IdBytes(id))
      OBVIOUS
    <3> HIDE DEF first
    <3>1. Byte(first, x) = IdBytes(id)[n]
      BY <1>6, <3>0, PutInside
    <3>2. Byte(mem'["rx"], x) = Byte(first, x)
      <4>1. x < a + 56
        BY <1>5
      <4> QED
        BY <1>5, <1>6, <1>8, <4>1, PutOutside
    <3>3. Byte(mem'["rx"], y) = VerifBytes(id)[n]
      BY <1>5, <1>6, <1>8, PutInside
    <3>4. IdBytes(id)[n] = ByteOf(id, n) /\ VerifBytes(id)[n] = 255 - ByteOf(id, n)
      BY DEF IdBytes, VerifBytes
    <3> QED
      BY <1>5, <3>1, <3>2, <3>3, <3>4
  <2> QED
    BY <1>1, <1>3, <1>5, <2>1, HoldsNext DEF id
<1>11. \A k \in Packets : Kept("rx", k)
  BY <1>1, <1>3, <1>5, <1>9, <1>10, KeptByPacket
<1>12. Achieved("generate", j)
  BY <1>10 DEF Achieved
<1>13. \A k \in Packets : desc_len'[k] = desc_len[k]
  BY <1>1
<1>14. desc_len' \in [Packets -> Nat]
  BY <1>1 DEF DpControl
<1> QED
  BY <1>1, <1>2, <1>4, <1>5, <1>7, <1>9, <1>11, <1>12, <1>13, <1>14, Step

LEMMA ResetRxStep ==
  ASSUME DpInv, ResetRx
  PROVE  DpInv' /\ Stays
<1> PICK j \in Packets : j = dp_k
  BY DEF DpInv, DpControl
<1>1. /\ DpControl /\ Turn("reset_rx", "clear_rx") /\ ResetMd("rx", PKT_SIZE)
      /\ UNCHANGED desc_len
  BY DEF DpInv, ResetRx, ResetMd
<1>2. Follows("reset_rx", "clear_rx")
  BY Stages DEF Follows, Marks
<1>3. UNCHANGED <<build, bufs, dp_round>>
  BY <1>1 DEF Turn
<1>4. "rx" \in Pools
  BY DEF Pools
<1>5. /\ Touches("rx", MdBytes("rx", j))
      /\ PacketLength("rx", mem["rx"], j)' = PKT_SIZE /\ ~Offloads(mem["rx"], j)'
  BY <1>1, <1>3, <1>4, MetadataReset
<1>6. PICK m : mem' = [mem EXCEPT !["rx"] = m] /\ DOMAIN m \subseteq Nat
  BY <1>1, <1>3, <1>4, MetadataReset
<1>7. \A k \in Packets : Kept("rx", k)
  BY <1>1, <1>3, <1>4, <1>5, KeptByMetadata
<1>8. Achieved("reset_rx", j)
  BY <1>5 DEF Achieved
<1>9. desc_len' \in [Packets -> Nat] /\ \A k \in Packets : desc_len'[k] = desc_len[k]
  BY <1>1 DEF DpControl
<1> QED
  BY <1>1, <1>2, <1>4, <1>5, <1>6, <1>7, <1>8, <1>9, Step

LEMMA ClearRxStep ==
  ASSUME DpInv, ClearRx
  PROVE  DpInv' /\ Stays
<1> PICK j \in Packets : j = dp_k
  BY DEF DpInv, DpControl
<1> DEFINE next == IF build.memcpy_md THEN "copy_md_rx" ELSE "copy_rx"
           m    == ClearHeader(mem["guest"], PktOf("guest", j))
           S    == IF build.vio_header THEN HdrBytes("guest", j) ELSE {}
<1>1. DpControl /\ dp_step = "clear_rx" /\ "guest" \in Pools
  BY DEF DpInv, ClearRx, Turn, Pools
<1>2. ~Offloads(mem["rx"], j)
  <2>1. Past("reset_rx", j)
    BY <1>1, EarlierLoops, Stages
  <2> QED
    BY <2>1 DEF DpInv, Done
<1>3. /\ Turn("clear_rx", next) /\ UNCHANGED desc_len
      /\ mem' = [mem EXCEPT !["guest"] = m]
  BY <1>1, <1>2, HostViewIs DEF ClearRx
<1>4. Follows("clear_rx", next)
  BY Stages DEF Follows, Marks
<1>5. UNCHANGED <<build, bufs, dp_round>>
  BY <1>3 DEF Turn
<1> HIDE DEF next
<1>6. DOMAIN m \subseteq Nat
  BY <1>1, HeaderCleared DEF DpControl
<1>7. mem'["guest"] = m
  BY <1>1, <1>3, Written
<1>8. Touches("guest", S)
  BY <1>1, <1>7, HeaderCleared DEF Touches
<1>9. \A k \in Packets : Kept("guest", k)
  BY <1>1, <1>5, <1>8, KeptByHeader, KeptByNothing
<1>10. Achieved("clear_rx", j)
  BY DEF Achieved
<1>11. desc_len' \in [Packets -> Nat] /\ \A k \in Packets : desc_len'[k] = desc_len[k]
  BY <1>1, <1>3 DEF DpControl
<1>12. S = {} \/ (S = HdrBytes("guest", j) /\ build.vio_header)
  OBVIOUS
<1> HIDE DEF m, S
<1> QED
  BY <1>1, <1>3, <1>4, <1>6, <1>8, <1>9, <1>10, <1>11, <1>12, Step

\* With memcpy_md a sound build has no metadata, and the host copies none.
LEMMA CopyMdRxStep ==
  ASSUME DpInv, CopyMdRx
  PROVE  DpInv' /\ Stays
<1> PICK j \in Packets : j = dp_k
  BY DEF DpInv, DpControl
<1> DEFINE a    == HostMdView(j)
           data == Bytes(mem["rx"], MdOf("rx", j), build.metadata_size)
           m    == Put(mem["guest"], a, data)
<1>1. /\ DpControl /\ Turn("copy_md_rx", "copy_rx") /\ UNCHANGED desc_len
      /\ mem' = [mem EXCEPT !["guest"] = m] /\ "guest" \in Pools
  BY DEF DpInv, CopyMdRx, Write, Pools
<1>2. build.memcpy_md /\ build.metadata_size = 0
  BY <1>1 DEF DpControl, Sound, Turn
<1>3. Follows("copy_md_rx", "copy_rx")
  BY <1>2, Stages DEF Follows, Marks
<1>4. UNCHANGED <<build, bufs, dp_round>>
  BY <1>1 DEF Turn
<1>5. Sized(data, 0)
  BY <1>2 DEF Sized, Bytes
<1> HIDE DEF a, data
<1>6. mem'["guest"] = m
  BY <1>1, Written
<1>7. Touches("guest", {}) /\ DOMAIN m \subseteq Nat
  BY <1>1, <1>5, <1>6, NothingTouched
<1>8. \A k \in Packets : Kept("guest", k)
  BY <1>1, <1>4, <1>7, KeptByNothing
<1>9. Achieved("copy_md_rx", j)
  BY DEF Achieved
<1>10. desc_len' \in [Packets -> Nat] /\ \A k \in Packets : desc_len'[k] = desc_len[k]
  BY <1>1 DEF DpControl
<1> HIDE DEF m
<1> QED
  BY <1>1, <1>3, <1>7, <1>8, <1>9, <1>10, Step

LEMMA CopyRxStep ==
  ASSUME DpInv, CopyRx
  PROVE  DpInv' /\ Stays
<1> PICK j \in Packets : j = dp_k
  BY DEF DpInv, DpControl
<1> DEFINE m == Put(mem["guest"], PktOf("guest", j), Bytes(mem["rx"], PktOf("rx", j), PKT_SIZE))
<1>1. DpControl /\ dp_step = "copy_rx" /\ "guest" \in Pools /\ "rx" \in Pools
  BY DEF DpInv, CopyRx, Turn, Pools
<1>2. PacketLength("rx", mem["rx"], j) = PKT_SIZE /\ Holds("rx", j)
  <2>1. Past("reset_rx", j) /\ Past("generate", j)
    BY <1>1, EarlierLoops, Stages
  <2> QED
    BY <2>1 DEF DpInv, Done
<1>3. PKT_SIZE # TOO_LONG
  BY DEF PKT_SIZE, TOO_LONG
<1>4. /\ Turn("copy_rx", "reset_nf") /\ mem' = [mem EXCEPT !["guest"] = m]
      /\ desc_len' = [desc_len EXCEPT ![j] = PKT_SIZE]
  BY <1>1, <1>2, <1>3, HostViewIs DEF CopyRx, Write
<1>5. Follows("copy_rx", "reset_nf")
  BY Stages DEF Follows, Marks
<1>6. UNCHANGED <<build, bufs, dp_round>>
  BY <1>4 DEF Turn
<1>7. mem'["guest"] = m
  BY <1>1, <1>4, Written
<1>8. /\ Touches("guest", PktBytes("guest", j)) /\ DOMAIN m \subseteq Nat
      /\ Holds("guest", j)'
  BY <1>1, <1>2, <1>6, <1>7, PacketCopied
<1>9. \A k \in Packets : Kept("guest", k)
  BY <1>1, <1>6, <1>8, KeptByPacket
<1>10. /\ desc_len' \in [Packets -> Nat] /\ desc_len'[j] = PKT_SIZE
       /\ \A k \in Packets : desc_len'[k] = desc_len[k] \/ desc_len'[k] = PKT_SIZE
  BY <1>1, <1>4 DEF DpControl, PKT_SIZE
<1>11. Achieved("copy_rx", j)
  BY <1>8, <1>10 DEF Achieved
<1> HIDE DEF m
<1> QED
  BY <1>1, <1>4, <1>5, <1>8, <1>9, <1>10, <1>11, Step

LEMMA ResetNfStep ==
  ASSUME DpInv, ResetNf
  PROVE  DpInv' /\ Stays
<1> PICK j \in Packets : j = dp_k
  BY DEF DpInv, DpControl
<1>1. DpControl /\ Turn("reset_nf", "send_nf") /\ UNCHANGED desc_len
  BY DEF DpInv, ResetNf, ResetMd
<1>2. Follows("reset_nf", "send_nf")
  BY Stages DEF Follows, Marks
<1>3. UNCHANGED <<build, bufs, dp_round>> /\ dp_step = "reset_nf"
  BY <1>1 DEF Turn
<1>4. "guest" \in Pools /\ Side("guest") = "guest"
  BY DEF Pools, Side
<1>5. desc_len[LenIndex("guest")] = PKT_SIZE
  <2>1. LenIndex("guest") \in Packets
    BY <1>1, <1>4, Grouped DEF LenIndex
  <2>2. Past("copy_rx", LenIndex("guest"))
    BY <1>1, <1>3, <2>1, EarlierLoops, Stages
  <2> QED
    BY <2>1, <2>2 DEF DpInv, Done
<1>6. ResetMd("guest", PKT_SIZE)
  BY <1>5 DEF ResetNf
<1>7. Touches("guest", MdBytes("guest", j)) /\ PacketLength("guest", mem["guest"], j)' = PKT_SIZE
  BY <1>1, <1>3, <1>4, <1>6, MetadataReset
<1>8. PICK m : mem' = [mem EXCEPT !["guest"] = m] /\ DOMAIN m \subseteq Nat
  BY <1>1, <1>3, <1>4, <1>6, MetadataReset
<1>9. \A k \in Packets : Kept("guest", k)
  BY <1>1, <1>3, <1>4, <1>7, KeptByMetadata
<1>10. Achieved("reset_nf", j)
  BY <1>7 DEF Achieved
<1>11. desc_len' \in [Packets -> Nat] /\ \A k \in Packets : desc_len'[k] = desc_len[k]
  BY <1>1 DEF DpControl
<1> QED
  BY <1>1, <1>2, <1>4, <1>7, <1>8, <1>9, <1>10, <1>11, Step

LEMMA SendNfStep ==
  ASSUME DpInv, SendNf
  PROVE  DpInv' /\ Stays
<1> PICK j \in Packets : j = dp_k
  BY DEF DpInv, DpControl
<1> DEFINE m == ClearHeader(mem["guest"], PktOf("guest", j))
           S == IF build.vio_header THEN HdrBytes("guest", j) ELSE {}
<1>1. /\ DpControl /\ "guest" \in Pools
      /\ Turn("send_nf", "set_len") /\ mem' = [mem EXCEPT !["guest"] = m]
      /\ desc_len' = [desc_len EXCEPT ![j] = PacketLength("guest", m, j)]
  BY DEF DpInv, SendNf, Pools
<1>2. Follows("send_nf", "set_len")
  BY Stages DEF Follows, Marks
<1>3. UNCHANGED <<build, bufs, dp_round>> /\ dp_step = "send_nf"
  BY <1>1 DEF Turn
<1>4. PacketLength("guest", mem["guest"], j) = PKT_SIZE
  <2>1. Past("reset_nf", j)
    BY <1>1, <1>3, EarlierLoops, Stages
  <2> QED
    BY <2>1 DEF DpInv, Done
<1>5. DOMAIN m \subseteq Nat
  BY <1>1, HeaderCleared DEF DpControl
<1>6. mem'["guest"] = m
  BY <1>1, Written
<1>7. Touches("guest", S)
  BY <1>1, <1>6, HeaderCleared DEF Touches
<1>8. \A k \in Packets : Kept("guest", k)
  BY <1>1, <1>3, <1>7, KeptByHeader, KeptByNothing
<1>9. S = {} \/ (S = HdrBytes("guest", j) /\ build.vio_header)
  OBVIOUS
<1> HIDE DEF m, S
<1>10. PacketLength("guest", m, j) = PKT_SIZE
  <2>1. PacketLength("guest", mem["guest"], j)' = PacketLength("guest", mem'["guest"], j)
    BY <1>1, <1>3, SamePlace
  <2> QED
    BY <1>4, <1>6, <1>8, <2>1 DEF Kept
<1>11. /\ desc_len' \in [Packets -> Nat]
       /\ \A k \in Packets : desc_len'[k] = desc_len[k] \/ desc_len'[k] = PKT_SIZE
  BY <1>1, <1>10 DEF DpControl, PKT_SIZE
<1>12. Achieved("send_nf", j)
  BY DEF Achieved
<1> QED
  BY <1>1, <1>2, <1>5, <1>7, <1>8, <1>9, <1>11, <1>12, Step

LEMMA SetLenStep ==
  ASSUME DpInv, SetLen
  PROVE  DpInv' /\ Stays
<1> PICK j \in Packets : j = dp_k
  BY DEF DpInv, DpControl
<1>1. DpControl /\ "tx" \in Pools /\ Turn("set_len", "copy_tx") /\ UNCHANGED desc_len
  BY DEF DpInv, SetLen, Pools
<1>2. Follows("set_len", "copy_tx")
  BY Stages DEF Follows, Marks
<1>3. UNCHANGED <<build, bufs, dp_round>> /\ dp_step = "set_len"
  BY <1>1 DEF Turn
<1>4. desc_len[j] = PKT_SIZE
  <2>1. Past("copy_rx", j)
    BY <1>1, <1>3, EarlierLoops, Stages
  <2> QED
    BY <2>1 DEF DpInv, Done
<1>5. PICK m, S :
        /\ mem' = [mem EXCEPT !["tx"] = m] /\ DOMAIN m \subseteq Nat
        /\ Touches("tx", S) /\ S = MdBytes("tx", j)
        /\ PacketLength("tx", mem["tx"], j)' = PKT_SIZE
  <2>1. CASE build.metadata_size = 0
    <3>1. UNCHANGED mem
      BY <2>1 DEF SetLen
    <3>2. mem' = [mem EXCEPT !["tx"] = mem["tx"]] /\ DOMAIN mem["tx"] \subseteq Nat
      BY <1>1, <3>1, Unwritten
    <3>3. Touches("tx", MdBytes("tx", j))
      BY <3>1 DEF Touches
    <3>4. PacketLength("tx", mem["tx"], j)' = PKT_SIZE
      BY <1>3, <2>1 DEF PacketLength, PKT_SIZE
    <3> QED
      BY <3>2, <3>3, <3>4
  <2>2. CASE build.metadata_size # 0
    <3> PICK a \in Nat : a = MdOf("tx", j)
      BY <1>1, Inside
    <3> PICK l \in Nat : l = PktLenBytes(build)
      BY DEF PktLenBytes
    <3> PICK w \in Nat : w = MdWritten(build)
      BY <1>1, BuildTypes, WrittenWithin
    <3> PICK data : data = LenBytes(PKT_SIZE)
      OBVIOUS
    <3>1. l <= w
      BY <1>1, <2>2, BuildTypes, WrittenWithin
    <3>2. mem' = [mem EXCEPT !["tx"] = Put(mem["tx"], a, data)]
      BY <1>4, <2>2 DEF SetLen, Write
    <3>3. mem'["tx"] = Put(mem["tx"], a, data)
      BY <1>1, <3>2, Written
    <3>4. Sized(data, l) /\ \A n \in 1 .. PktLenBytes(build) : data[n] = ByteOf(PKT_SIZE, n)
      BY DEF Sized, LenBytes
    <3>5. MdBytes("tx", j) = a .. a + w - 1
      BY DEF MdBytes
    <3>6. \A x \in Int : a <= x /\ x < a + l => x \in MdBytes("tx", j)
      BY <3>1, <3>5
    <3>7. Touches("tx", MdBytes("tx", j)) /\ DOMAIN mem'["tx"] \subseteq Nat
      BY <1>1, <3>3, <3>4, <3>6, PutTouches
    <3>8. PacketLength("tx", mem["tx"], j)' = PacketLength("tx", mem'["tx"], j)
      BY <1>1, <1>3, SamePlace
    <3>9. PktLenBytes(build) <= l
      OBVIOUS
    <3>10. PacketLength("tx", mem'["tx"], j) = PKT_SIZE
      BY <1>1, <2>2, <3>3, <3>4, <3>9, LengthWritten
    <3> QED
      BY <3>2, <3>3, <3>7, <3>8, <3>10
  <2> QED
    BY <2>1, <2>2
<1>6. \A k \in Packets : Kept("tx", k)
  BY <1>1, <1>3, <1>5, KeptByMetadata
<1>7. Achieved("set_len", j)
  BY <1>5 DEF Achieved
<1>8. desc_len' \in [Packets -> Nat] /\ \A k \in Packets : desc_len'[k] = desc_len[k]
  BY <1>1 DEF DpControl
<1> QED
  BY <1>1, <1>2, <1>5, <1>6, <1>7, <1>8, Step

LEMMA CopyTxStep ==
  ASSUME DpInv, CopyTx
  PROVE  DpInv' /\ Stays
<1> PICK j \in Packets : j = dp_k
  BY DEF DpInv, DpControl
<1> DEFINE next == IF build.memcpy_md THEN "copy_md_tx" ELSE "done"
           m    == Put(mem["tx"], PktOf("tx", j),
                       Bytes(mem["guest"], PktOf("guest", j), PKT_SIZE))
<1>1. DpControl /\ dp_step = "copy_tx" /\ "guest" \in Pools /\ "tx" \in Pools
  BY DEF DpInv, CopyTx, Turn, Pools
<1>2. PacketLength("tx", mem["tx"], j) = PKT_SIZE /\ Holds("guest", j)
  <2>1. Past("set_len", j) /\ Past("copy_rx", j)
    BY <1>1, EarlierLoops, Stages
  <2> QED
    BY <2>1 DEF DpInv, Done
<1>3. PKT_SIZE # TOO_LONG
  BY DEF PKT_SIZE, TOO_LONG
<1>4. Turn("copy_tx", next) /\ mem' = [mem EXCEPT !["tx"] = m] /\ UNCHANGED desc_len
  BY <1>1, <1>2, <1>3, HostViewIs DEF CopyTx, Write
<1>5. Follows("copy_tx", next)
  BY Stages DEF Follows, Marks
<1>6. UNCHANGED <<build, bufs, dp_round>>
  BY <1>4 DEF Turn
<1>7. mem'["tx"] = m
  BY <1>1, <1>4, Written
<1>8. Touches("tx", PktBytes("tx", j)) /\ DOMAIN m \subseteq Nat /\ Holds("tx", j)'
  BY <1>1, <1>2, <1>6, <1>7, PacketCopied
<1>9. \A k \in Packets : Kept("tx", k)
  BY <1>1, <1>6, <1>8, KeptByPacket
<1>10. Achieved("copy_tx", j)
  BY <1>8 DEF Achieved
<1>11. desc_len' \in [Packets -> Nat] /\ \A k \in Packets : desc_len'[k] = desc_len[k]
  BY <1>1, <1>4 DEF DpControl
<1> HIDE DEF m, next
<1> QED
  BY <1>1, <1>4, <1>5, <1>8, <1>9, <1>10, <1>11, Step

LEMMA CopyMdTxStep ==
  ASSUME DpInv, CopyMdTx
  PROVE  DpInv' /\ Stays
<1> PICK j \in Packets : j = dp_k
  BY DEF DpInv, DpControl
<1> DEFINE a    == MdOf("tx", j)
           data == Bytes(mem["guest"], HostMdView(j), build.metadata_size)
           m    == Put(mem["tx"], a, data)
<1>1. /\ DpControl /\ Turn("copy_md_tx", "done") /\ UNCHANGED desc_len
      /\ mem' = [mem EXCEPT !["tx"] = m] /\ "tx" \in Pools
  BY DEF DpInv, CopyMdTx, Write, Pools
<1>2. build.memcpy_md /\ build.metadata_size = 0
  BY <1>1 DEF DpControl, Sound, Turn
<1>3. Follows("copy_md_tx", "done")
  BY <1>2, Stages DEF Follows, Marks
<1>4. UNCHANGED <<build, bufs, dp_round>>
  BY <1>1 DEF Turn
<1>5. Sized(data, 0)
  BY <1>2 DEF Sized, Bytes
<1> HIDE DEF a, data
<1>6. mem'["tx"] = m
  BY <1>1, Written
<1>7. Touches("tx", {}) /\ DOMAIN m \subseteq Nat
  BY <1>1, <1>5, <1>6, NothingTouched
<1>8. \A k \in Packets : Kept("tx", k)
  BY <1>1, <1>4, <1>7, KeptByNothing
<1>9. Achieved("copy_md_tx", j)
  BY DEF Achieved
<1>10. desc_len' \in [Packets -> Nat] /\ \A k \in Packets : desc_len'[k] = desc_len[k]
  BY <1>1 DEF DpControl
<1> HIDE DEF m
<1> QED
  BY <1>1, <1>3, <1>7, <1>8, <1>9, <1>10, Step

\* The same buffers in another order are as good.
LEMMA Reversed ==
  ASSUME NEW o \in Placements
  PROVE  Reverse(o) \in Placements
<1>1. BATCH \in Nat
  BY DataPathAssumption
<1>2. o \in [1 .. BATCH -> 0 .. PKTBUF_NUM - 1] /\ IsInjective(o)
  BY DEF Placements, Packets
<1>3. Len(o) = BATCH
  BY <1>1, <1>2
<1>4. Reverse(o) = [i \in 1 .. BATCH |-> o[BATCH - i + 1]]
  BY <1>3 DEF Reverse
<1>5. \A i \in 1 .. BATCH : BATCH - i + 1 \in 1 .. BATCH
  BY <1>1
<1>6. Reverse(o) \in [1 .. BATCH -> 0 .. PKTBUF_NUM - 1]
  BY <1>2, <1>4, <1>5
<1>7. ASSUME NEW i \in 1 .. BATCH, NEW l \in 1 .. BATCH, Reverse(o)[i] = Reverse(o)[l]
      PROVE  i = l
  <2>1. o[BATCH - i + 1] = o[BATCH - l + 1]
    BY <1>4, <1>7
  <2>2. BATCH - i + 1 = BATCH - l + 1
    BY <1>2, <1>5, <2>1 DEF IsInjective
  <2> QED
    BY <1>1, <2>2
<1>8. IsInjective(Reverse(o))
  BY <1>6, <1>7 DEF IsInjective
<1> QED
  BY <1>6, <1>8 DEF Placements, Packets

LEMMA NextBatchStep ==
  ASSUME DpInv, NextBatch
  PROVE  DpInv' /\ Stays
<1>1. /\ DpControl /\ dp_k = 1 /\ dp_k' = 1 /\ dp_step' = "generate"
      /\ UNCHANGED <<build, mem, desc_len>>
  BY DEF DpInv, DpControl, NextBatch
<1>2. bufs' \in [Pools -> Placements]
  BY <1>1, Reversed DEF DpControl, NextBatch
<1>3. Sound(build) => Sound(build')
  BY <1>1
<1>4. dp_round' \in Nat
  BY <1>1 DEF DpControl, NextBatch
<1>5. "generate" \in DOMAIN Stage
  BY Stages
<1>6. DpControl'
  BY <1>1, <1>2, <1>3, <1>4, <1>5 DEF DpControl
<1>7. ASSUME NEW k \in Packets, NEW t \in DOMAIN Stage
      PROVE  ~Past(t, k)'
  <2>1. 1 <= k /\ k \in Nat
    BY <1>1, BuildTypes DEF Packets
  <2>2. Stage[t] >= 1
    BY <1>7 DEF Stage
  <2> QED
    BY <1>1, <2>1, <2>2, Stages DEF Past
<1>8. \A k \in Packets : Done(k)'
  BY <1>7, Stages DEF Done
<1>9. Stays
  BY <1>1 DEF Stays, Touches
<1> QED
  BY <1>6, <1>8, <1>9 DEF DpInv
-----------------------------------------------------------------------------
LEMMA DpStarts ==
  ASSUME SoundBuilds, DpInit
  PROVE  DpInv
<1>1. build \in BUILDS /\ Sound(build) /\ dp_step = "generate" /\ dp_k = 1 /\ dp_round = 1
  BY DEF DpInit, SoundBuilds
<1>2. BATCH \in Nat /\ 1 \in Packets
  BY DataPathAssumption DEF Packets
<1>3. bufs \in [Pools -> Placements]
  BY DataPathAssumption DEF DpInit
<1>4. mem = [p \in Pools |-> mem[p]] /\ \A p \in Pools : DOMAIN mem[p] \subseteq Nat
  BY DEF DpInit
<1>5. desc_len \in [Packets -> Nat]
  BY DEF DpInit
<1>6. DpControl
  BY <1>1, <1>2, <1>3, <1>4, <1>5, Stages DEF DpControl
<1>7. ASSUME NEW k \in Packets, NEW t \in DOMAIN Stage
      PROVE  ~Past(t, k)
  <2>1. 1 <= k /\ k \in Nat
    BY <1>2 DEF Packets
  <2>2. Stage[t] >= 1
    BY <1>7 DEF Stage
  <2> QED
    BY <1>1, <2>1, <2>2, Stages DEF Past
<1> QED
  BY <1>6, <1>7, Stages DEF DpInv, Done

LEMMA DpStep ==
  ASSUME DpInv, DpNext
  PROVE  DpInv' /\ Stays
BY GenerateStep, ResetRxStep, ClearRxStep, CopyMdRxStep, CopyRxStep, ResetNfStep, SendNfStep,
   SetLenStep, CopyTxStep, CopyMdTxStep, NextBatchStep DEF DpNext

LEMMA DpStutters ==
  ASSUME DpInv, UNCHANGED dpVars
  PROVE  DpInv'
<1>1. \A k \in Packets : Done(k) => Done(k)'
  BY DEF dpVars, Done, Past, Holds, PktOf, Id, PacketLength, MdOf, Group, InGroup, Length, Offloads
<1>2. DpControl => DpControl'
  BY DEF dpVars, DpControl
<1> QED
  BY <1>1, <1>2 DEF DpInv

(***************************************************************************)
(* In builds that are sound what a loop has done for a packet stays done,  *)
(* for every size, every order of the buffers and every number of packets. *)
(***************************************************************************)
THEOREM DoneStaysDone == SoundBuilds /\ DpSpec => []DpInv
<1>1. SoundBuilds /\ DpInit => DpInv
  BY DpStarts
<1>2. DpInv /\ [DpNext]_dpVars => DpInv'
  BY DpStep, DpStutters
<1> QED
  BY <1>1, <1>2, PTL DEF DpSpec

(***************************************************************************)
(* Every packet arrives as it was generated, in nf.out and in tx.out, and  *)
(* nobody gives up or copies too much (check_pkt, vhost_enqueue_offload).  *)
(***************************************************************************)
THEOREM PacketsArrive == SoundBuilds /\ DpSpec => []PacketsIntact
<1>1. ASSUME DpInv
      PROVE  PacketsIntact
  <2>1. DpControl /\ \A k \in Packets : Done(k)
    BY <1>1 DEF DpInv
  <2>2. dp_step \notin {"exited", "overrun"}
    BY <2>1, Stages DEF DpControl
  <2>3. ASSUME dp_step = "send_nf", NEW k \in Packets
        PROVE  Holds("guest", k)
    <3>1. Past("copy_rx", k)
      BY <2>1, <2>3, EarlierLoops, Stages
    <3> QED
      BY <2>1, <3>1 DEF Done
  <2>4. ASSUME dp_step = "done", NEW k \in Packets
        PROVE  Holds("tx", k)
    <3>1. Past("copy_tx", k)
      BY <2>1, <2>4, EarlierLoops, Stages
    <3> QED
      BY <2>1, <3>1 DEF Done
  <2> QED
    BY <2>2, <2>3, <2>4 DEF PacketsIntact
<1> QED
  BY <1>1, DoneStaysDone, PTL

(***************************************************************************)
(* And with the length it had (vhost_rx_batch, vio_recv_pkts,              *)
(* vioqueue_enqueue_burst_tx, vhost_tx_batch).                             *)
(***************************************************************************)
THEOREM LengthsArrive == SoundBuilds /\ DpSpec => []LengthsKept
<1>1. ASSUME DpInv
      PROVE  LengthsKept
  <2>1. DpControl /\ desc_len \in [Packets -> Nat] /\ \A k \in Packets : Done(k)
    BY <1>1 DEF DpInv, DpControl
  <2>2. ASSUME dp_step \in {"reset_nf", "send_nf", "set_len", "copy_tx", "copy_md_tx", "done"}
        PROVE  desc_len = [k \in Packets |-> PKT_SIZE]
    <3>1. Stage["copy_rx"] < Stage[dp_step]
      BY <2>2, Stages
    <3>2. \A k \in Packets : Past("copy_rx", k)
      BY <2>1, <3>1, EarlierLoops, Stages
    <3>3. \A k \in Packets : desc_len[k] = PKT_SIZE
      BY <2>1, <3>2 DEF Done
    <3> QED
      BY <2>1, <3>3
  <2>3. ASSUME dp_step = "send_nf", NEW k \in Packets
        PROVE  PacketLength("guest", mem["guest"], k) = PKT_SIZE
    <3>1. Past("reset_nf", k)
      BY <2>1, <2>3, EarlierLoops, Stages
    <3> QED
      BY <2>1, <3>1 DEF Done
  <2> QED
    BY <2>2, <2>3 DEF LengthsKept
<1> QED
  BY <1>1, DoneStaysDone, PTL

(***************************************************************************)
(* And no program writes into what belongs to another packet of the batch  *)
(* or to nobody.                                                           *)
(***************************************************************************)
THEOREM WritesInPlace == SoundBuilds /\ DpSpec => OthersUntouched
<1> DEFINE InPlace ==
      \A p \in Pools : \A a \in DOMAIN mem'[p] :
        Byte(mem'[p], a) # Byte(mem[p], a) => a \in Frame(p, dp_k) \cup MdSlot(p, dp_k)
<1>1. ASSUME DpInv, DpNext
      PROVE  InPlace
  <2>1. Stays /\ \A p \in Pools : DOMAIN mem'[p] \subseteq Nat
    BY <1>1, DpStep DEF DpInv, DpControl
  <2> QED
    BY <2>1 DEF Stays, Touches
<1>2. DpInv /\ [DpNext]_dpVars => [InPlace]_dpVars
  BY <1>1
<1> QED
  BY <1>2, DoneStaysDone, PTL DEF DpSpec, OthersUntouched
=============================================================================
