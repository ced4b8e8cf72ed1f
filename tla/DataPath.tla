------------------------------ MODULE DataPath ------------------------------
(***************************************************************************)
(* A batch on its way through the three programs, byte by byte: what they  *)
(* write where, in a build with given options.  The queues are left out:   *)
(* a batch is handed on whole, and its buffer indices arrive as they were  *)
(* sent.  What is checked is that all the addresses fit together.          *)
(*                                                                         *)
(* An action is one turn of a loop over the packets of the batch; dp_step  *)
(* is the loop:                                                            *)
(*   generate  init_pkt                 reset_rx    setup_metadata         *)
(*   clear_rx  vhost_enqueue_offload    copy_md_rx  vhost_memcpy_md_rx     *)
(*   copy_rx   memcpy in vhost_rx_batch                                    *)
(*   reset_nf  vio_recv_pkts            send_nf     vioqueue_enqueue_...   *)
(*   set_len   pkt_len in vhost_tx_batch                                   *)
(*   copy_tx   memcpy there             copy_md_tx  vhost_memcpy_md_tx     *)
(* or done: the batch has arrived; exited: vhost_enqueue_offload has given *)
(* up; overrun: a memcpy of 2^16 bytes or more has written over the pool.  *)
(* ROUNDS bounds the batches that are sent, one after the other, through   *)
(* buffers taken in the reverse order.                                     *)
(***************************************************************************)
EXTENDS Layout, SequencesExt

CONSTANTS
  BUILDS,             \* the builds to look at
  ORDERS,             \* the packet buffers a batch may be given, in order
  BATCH, ROUNDS

Packets    == 1 .. BATCH
Placements == {o \in [Packets -> 0 .. PKTBUF_NUM - 1] : IsInjective(o)}

ASSUME DataPathAssumption ==
  /\ BUILDS \subseteq {b \in Builds : Accepted(b) /\ ~(b.memcpy_md /\ b.host_aggregated_md)}
  /\ BATCH \in 1 .. PKTBUF_NUM /\ ROUNDS \in Nat
  /\ ORDERS \subseteq Placements

VARIABLES
  build,
  dp_step, dp_k,      \* the loop, and the packet it is at
  dp_round,
  bufs,               \* per pool, the packet buffers of the batch
  mem,                \* per pool, the bytes that have been written
  desc_len            \* the lengths in the descriptors of the batch

dpVars == <<build, dp_step, dp_k, dp_round, bufs, mem, desc_len>>

Pools == {"rx", "guest", "tx"}      \* host pool of rx.out, shared, host pool of tx.out
Side(pool) == IF pool = "guest" THEN "guest" ELSE "host"

DpInit ==
  /\ build \in BUILDS
  /\ dp_step = "generate" /\ dp_k = 1 /\ dp_round = 1
  /\ bufs \in [Pools -> ORDERS]
  /\ mem = [p \in Pools |-> <<>>]
  /\ desc_len = [k \in Packets |-> 0]
-----------------------------------------------------------------------------
\* Memory is zero where nothing has been written.
Byte(m, a)      == IF a \in DOMAIN m THEN m[a] ELSE 0
Bytes(m, a, n)  == [k \in 1 .. n |-> Byte(m, a + k - 1)]

\* data is a function on 1 .. n.
Put(m, a, data) ==
  LET written == {a + n - 1 : n \in DOMAIN data}
  IN  [x \in written \cup DOMAIN m |-> IF x \in written THEN data[x - a + 1] ELSE m[x]]

\* The n-th byte of a uint32_t, little-endian.
ByteOf(x, n) ==
  CASE n = 1 -> x % 256 [] n = 2 -> (x \div 256) % 256
    [] n = 3 -> (x \div 65536) % 256 [] n = 4 -> x \div 16777216

Id(k) == (dp_round - 1) * BATCH + k

\* id and verif; what is between them is never written.  id ^ VERIF_FLAG flips every bit.
IdBytes(id)    == [n \in 1 .. 4 |-> ByteOf(id, n)]
VerifBytes(id) == [n \in 1 .. 4 |-> 255 - ByteOf(id, n)]
VERIF_OFFSET   == PKT_SIZE - 4

InitPkt(m, a, id) == Put(Put(m, a, IdBytes(id)), a + VERIF_OFFSET, VerifBytes(id))

LenBytes(len) == [n \in 1 .. PktLenBytes(build) |-> ByteOf(len, n)]

\* pkt_len, port and nb_segs; the rest is zero.
MdImage(len, port) ==
  [n \in 1 .. MdWritten(build) |->
     CASE n <= PktLenBytes(build) -> ByteOf(len, n)
       [] n = 5 -> port [] n = 7 -> 1 [] OTHER -> 0]

Group(side)      == IF Aggregated(build, side) THEN build.aggregation_num ELSE 1
InGroup(side, k) == (k - 1) % Group(side)

\* Where the programs that own a pool have the metadata of its k-th packet.
MdOf(pool, k) ==
  LET side == Side(pool)
  IN  MdAddr(build, side, bufs[pool][k], bufs[pool][(k - 1) \div Group(side) + 1],
             InGroup(side, k))

PktOf(pool, k) == PktAddr(build, Side(pool), bufs[pool][k])

\* The k-th packet of the guest pool as the host finds it, and its metadata.
HostView(k)   == PktAddr(build, "host", bufs["guest"][k])
HostMdView(k) == GuestMdAddr(build, bufs["guest"][k], bufs["guest"][k])

\* A length of 2^16 and more is told by one value: no packet has it.
TOO_LONG == 65536
Length(m, a) ==
  IF \E n \in 2 .. PktLenBytes(build) - 1 : Byte(m, a + n) # 0 THEN TOO_LONG
  ELSE Byte(m, a) + 256 * Byte(m, a + 1)

PacketLength(pool, m, k) == IF build.metadata_size = 0 THEN PKT_SIZE ELSE Length(m, MdOf(pool, k))

\* Either of the two checksum bits of ol_flags: bits 52 and 53.
Offloads(m, k) ==
  /\ build.vio_header /\ build.metadata_size >= 16
  /\ (Byte(m, MdOf("rx", k) + 14) \div 16) % 4 # 0

\* Mutant: the header is taken to begin where the packet does.
ClearHeaderAt(m, pkt) ==
  IF build.vio_header THEN Put(m, pkt, [n \in 1 .. VIO_HEADER_SIZE |-> 0]) ELSE m

\* vio_tx_clear_net_hdr on the header in front of a packet.
ClearHeader(m, pkt) ==
  IF build.vio_header THEN Put(m, pkt - VIO_HEADER_SIZE, [n \in 1 .. VIO_HEADER_SIZE |-> 0])
  ELSE m
-----------------------------------------------------------------------------
\* One turn of a loop over the batch, after which comes the loop next.
Turn(step, next) ==
  /\ dp_step = step
  /\ IF dp_k < BATCH THEN dp_k' = dp_k + 1 /\ UNCHANGED dp_step
     ELSE dp_k' = 1 /\ dp_step' = next
  /\ UNCHANGED <<build, dp_round, bufs>>

GiveUp(step) == dp_step' = step /\ UNCHANGED <<build, dp_k, dp_round, bufs, mem, desc_len>>

Write(pool, a, data) == mem' = [mem EXCEPT ![pool] = Put(@, a, data)]

\* setup_metadata and vio_reset_md_rx for a packet: with HOST_LED it does nothing.
ResetMd(pool, len) ==
  /\ IF build.memcpy_md THEN UNCHANGED mem ELSE Write(pool, MdOf(pool, dp_k), MdImage(len, 3))
  /\ UNCHANGED desc_len

\* The aggregated variants give every group the lengths of the first.
LenIndex(side) == IF Aggregated(build, side) THEN InGroup(side, dp_k) + 1 ELSE dp_k
-----------------------------------------------------------------------------
\* rx.out generates a packet.
Generate ==
  /\ Turn("generate", "reset_rx")
  /\ mem' = [mem EXCEPT !["rx"] = InitPkt(@, PktOf("rx", dp_k), Id(dp_k))]
  /\ UNCHANGED desc_len

ResetRx == Turn("reset_rx", "clear_rx") /\ ResetMd("rx", PKT_SIZE)

\* vhost_enqueue_offload.
ClearRx ==
  IF Offloads(mem["rx"], dp_k) THEN dp_step = "clear_rx" /\ GiveUp("exited")
  ELSE /\ Turn("clear_rx", IF build.memcpy_md THEN "copy_md_rx" ELSE "copy_rx")
       /\ mem' = [mem EXCEPT !["guest"] = ClearHeader(@, HostView(dp_k))]
       /\ UNCHANGED desc_len

\* vhost_memcpy_md_rx: with memcpy_md the host copies the metadata, whole.
CopyMdRx ==
  /\ Turn("copy_md_rx", "copy_rx")
  /\ Write("guest", HostMdView(dp_k), Bytes(mem["rx"], MdOf("rx", dp_k), build.metadata_size))
  /\ UNCHANGED desc_len

\* vhost_rx_batch: nobody has written to rx.out's pool since the lengths were read.
CopyRx ==
  LET len == PacketLength("rx", mem["rx"], dp_k)
  IN  IF len = TOO_LONG THEN dp_step = "copy_rx" /\ GiveUp("overrun")
      ELSE /\ Turn("copy_rx", "reset_nf")
           /\ Write("guest", HostView(dp_k), Bytes(mem["rx"], PktOf("rx", dp_k), len))
           /\ desc_len' = [desc_len EXCEPT ![dp_k] = len]

\* vio_recv_pkts: nf.out writes the metadata of what it has received.
ResetNf == Turn("reset_nf", "send_nf") /\ ResetMd("guest", desc_len[LenIndex("guest")])

\* vioqueue_enqueue_burst_tx.
SendNf ==
  LET cleared == ClearHeader(mem["guest"], PktOf("guest", dp_k))
  IN  /\ Turn("send_nf", "set_len")
      /\ mem' = [mem EXCEPT !["guest"] = cleared]
      /\ desc_len' = [desc_len EXCEPT ![dp_k] = PacketLength("guest", cleared, dp_k)]

\* vhost_tx_batch: all the lengths, then the packets, then the metadata.
SetLen ==
  /\ Turn("set_len", "copy_tx")
  /\ IF build.metadata_size = 0 THEN UNCHANGED mem
     ELSE Write("tx", MdOf("tx", dp_k), LenBytes(desc_len[dp_k]))
  /\ UNCHANGED desc_len

CopyTx ==
  LET len == PacketLength("tx", mem["tx"], dp_k)
  IN  IF len = TOO_LONG THEN dp_step = "copy_tx" /\ GiveUp("overrun")
      ELSE /\ Turn("copy_tx", IF build.memcpy_md THEN "copy_md_tx" ELSE "done")
           /\ Write("tx", PktOf("tx", dp_k), Bytes(mem["guest"], HostView(dp_k), len))
           /\ UNCHANGED desc_len

\* vhost_memcpy_md_tx.
CopyMdTx ==
  /\ Turn("copy_md_tx", "done")
  /\ Write("tx", MdOf("tx", dp_k), Bytes(mem["guest"], HostMdView(dp_k), build.metadata_size))
  /\ UNCHANGED desc_len

\* The buffers come back and are taken again, the last one first.
NextBatch ==
  /\ dp_step = "done"
  /\ dp_round < ROUNDS
  /\ dp_step' = "generate" /\ dp_round' = dp_round + 1
  /\ bufs' = [p \in Pools |-> Reverse(bufs[p])]
  /\ UNCHANGED <<build, dp_k, mem, desc_len>>

DpNext ==
  \/ Generate \/ ResetRx \/ ClearRx \/ CopyMdRx \/ CopyRx
  \/ ResetNf \/ SendNf
  \/ SetLen \/ CopyTx \/ CopyMdTx \/ NextBatch

DpSpec == DpInit /\ [][DpNext]_dpVars
-----------------------------------------------------------------------------
Holds(pool, k) ==
  /\ Bytes(mem[pool], PktOf(pool, k), 4) = IdBytes(Id(k))
  /\ Bytes(mem[pool], PktOf(pool, k) + VERIF_OFFSET, 4) = VerifBytes(Id(k))

(***************************************************************************)
(* check_pkt finds every packet where the program that checks it looks for *)
(* it, with the id it was given and the verif that goes with it: in nf.out *)
(* from when its metadata has been written until it has been sent, and in  *)
(* tx.out at the end.  rx.out does not find offloads in the metadata it    *)
(* has just initialized, and no program copies more than a packet can have.*)
(***************************************************************************)
PacketsIntact ==
  /\ dp_step \notin {"exited", "overrun"}
  /\ dp_step = "send_nf" => \A k \in Packets : Holds("guest", k)
  /\ dp_step = "done" => \A k \in Packets : Holds("tx", k)

(***************************************************************************)
(* The length of a packet goes through two metadata buffers and two        *)
(* descriptors, and none of the fields written next to it changes it.      *)
(***************************************************************************)
LengthsKept ==
  /\ dp_step \in {"reset_nf", "send_nf", "set_len", "copy_tx", "copy_md_tx", "done"} =>
       desc_len = [k \in Packets |-> PKT_SIZE]
  /\ dp_step = "send_nf" /\ ~build.memcpy_md =>
       \A k \in Packets : PacketLength("guest", mem["guest"], k) = PKT_SIZE

\* The addresses in the k-th packet buffer of a pool, and those of its metadata.
Frame(pool, k) ==
  LET size == MemobjSize(build, Side(pool))
  IN  bufs[pool][k] * size .. bufs[pool][k] * size + size - 1

MdSlot(pool, k) ==
  LET side == Side(pool)
      size == IF Aggregated(build, side) THEN build.metadata_size ELSE MDBUF_SIZE(build, side)
  IN  MdOf(pool, k) .. MdOf(pool, k) + size - 1

(***************************************************************************)
(* Whatever a program writes when it is at a packet of the batch stays in  *)
(* that packet's buffer and its part of the metadata.                      *)
(***************************************************************************)
OthersUntouched ==
  [][\A p \in Pools : \A a \in DOMAIN mem'[p] :
       Byte(mem'[p], a) # Byte(mem[p], a) => a \in Frame(p, dp_k) \cup MdSlot(p, dp_k)]_dpVars
-----------------------------------------------------------------------------
(***************************************************************************)
(* A build that is sound: guest and host see the packets at the same place,*)
(* the metadata has the space that is written, and if the host copies the  *)
(* metadata there is none.                                                 *)
(***************************************************************************)
Sound(b) ==
  /\ SameView(b) /\ \A side \in Sides : MetadataFits(b, side)
  /\ b.memcpy_md => b.metadata_size = 0

SoundBuilds == \A b \in BUILDS : Sound(b)

\* The loops in their order, and the packets that have been through one of them.
Stage ==
  [generate |-> 1, reset_rx |-> 2, clear_rx |-> 3, copy_md_rx |-> 4, copy_rx |-> 5,
   reset_nf |-> 6, send_nf |-> 7, set_len |-> 8, copy_tx |-> 9, copy_md_tx |-> 10, done |-> 11]
Past(step, k) == Stage[step] < Stage[dp_step] \/ (dp_step = step /\ k < dp_k)

DpControl ==
  /\ build \in BUILDS /\ Sound(build)
  /\ dp_step \in DOMAIN Stage /\ dp_k \in Packets /\ dp_round \in Nat
  /\ dp_step = "done" => dp_k = 1
  /\ dp_step \in {"copy_md_rx", "copy_md_tx"} => build.memcpy_md
  /\ bufs \in [Pools -> Placements]
  /\ mem = [p \in Pools |-> mem[p]] /\ \A p \in Pools : DOMAIN mem[p] \subseteq Nat
  /\ desc_len \in [Packets -> Nat]

\* What the loops have done for the k-th packet.
Done(k) ==
  /\ Past("generate", k) => Holds("rx", k)
  /\ Past("reset_rx", k) =>
       PacketLength("rx", mem["rx"], k) = PKT_SIZE /\ ~Offloads(mem["rx"], k)
  /\ Past("copy_rx", k) => Holds("guest", k) /\ desc_len[k] = PKT_SIZE
  /\ Past("reset_nf", k) => PacketLength("guest", mem["guest"], k) = PKT_SIZE
  /\ Past("set_len", k) => PacketLength("tx", mem["tx"], k) = PKT_SIZE
  /\ Past("copy_tx", k) => Holds("tx", k)

(***************************************************************************)
(* Behind PacketsIntact and LengthsKept: what a loop has done for a packet *)
(* no later step undoes, whichever packet of the batch it is at and        *)
(* whatever is written in front of it, behind it or next to it.            *)
(***************************************************************************)
DpInv == DpControl /\ \A k \in Packets : Done(k)
=============================================================================
