# TLA+ models of EIVU

EIVU measures virtual network I/O between user-space processes on one machine. Three programs share
one memory segment:

```
 rx.out --- RX vioqueue ---> nf.out --- TX vioqueue ---> tx.out
 (host)                      (guest)                     (host)
```

`rx.out` generates packets and copies them into guest buffers, `nf.out` forwards these buffers without
copying, `tx.out` copies them out. There are no locks and no messages: the processes learn about each
other through one flag word per descriptor and two flags, `start` and `end`.

This directory holds models of these programs, the TLC configurations that check them on small
instances, and machine-checked proofs of the main safety results for all sizes. Line numbers below and
in the modules refer to the files under `src/`.

## 1. The system

| component | code | state | operations |
|---|---|---|---|
| vioqueue | `lib/vnwio/vioqueue.h` | descriptor array in shared memory (flag, buffer index); per process: `last_avail_idx`, `last_used_idx`, `vq_free_cnt` | `init_vq` |
| rx.out | `src/rx.c`, `vhost.h:27-118` | `pkt_counter`, the batch, cursors | wait for the start flag; generate a batch; `vhost_enqueue_burst` (twice per round) with `vhost_rx_batch` |
| nf.out | `src/nf.c`, `vio.h`, `md_buf/common/mdque.h` | guest pool, the batch, cursors of both queues | `vio_recv_pkts`, `vioqueue_refill_desc_rx`, `check_pkt`, `vio_xmit_pkts`, `virtio_xmit_cleanup` |
| tx.out | `src/tx.c`, `vhost.h:120-212` | `pkt_counter`, own packet copies, cursor | raise the start flag; `vhost_dequeue_burst` with `vhost_tx_batch`; `check_pkt`; raise the end flag |
| allocator | `lib/common/{memobj,ring,stack}.h`, `lib/mbuf/common/pktbuf_get_put.h` | ring of free indices, stack as a cache | `init_mpool`, `alloc_pktbuf`, `free_pktbuf` |
| metadata buffers | `lib/mbuf/md_buf/**` | pool of metadata buffers, the indices in `mbptrs` | `reset_mbptr`, `setup_metadata`, `alloc_aggregated_md_local`, `free_aggregated_md_local`, `free_md_bulk` |
| segment and startup | `lib/common/shm.h`, `nf.c:15-127`, `rx.c:25-78`, `tx.c:30-80`, `run.sh` | existence and contents of the segment | create or take over, initialize, assert, start handshake |
| options | `lib/common/option.h` | four 32-bit values per process | `parse_opt`; narrowing in `init_vq` and the bursts |
| build options | `meson.build`, `lib/mbuf/**/meson.build` | macros, one set for guest and one for host | the layout of buffers, metadata and descriptors |
| headers | `lib/vnwio/vio_hdr.h` | 12 bytes in front of a packet | cleared; never filled |

**What is hard here.** Every side decides on a whole batch from the flag of its *last* descriptor.
Flags go up one at a time while the other side reads them. `nf.out` tests the flag at one cursor and
writes at another. Buffers cross two queues and come back to their pool one turn of the queue later,
when the TX descriptor is used again. Bursts are halved when they do not fit or would run past the end
of the array, and what is left of a batch is generated anew. The ring of the allocator never wraps. The
start handshake has no protection against a process that is early. Guest and host are compiled with
macros of their own and started with command lines of their own, and nothing but assertions on the
descriptors tells whether they agree on sizes and addresses.

**What makes it correct.** No descriptor is used by two sides; each queue hands its descriptors over in
circular order; every guest buffer is in exactly one place; packets arrive once, in order and
unaltered; the allocator neither runs dry nor past its array; everything ends; the loops start on
initialized descriptors; the processes agree on the sizes; what one writes another finds at the same
address, and nothing else lies there. `PROJECT.json` lists each hazard at its line with the property that would
catch it.

## 2. Modules

| module | models | remarks |
|---|---|---|
| `Vioqueue` | flags, slots, the index mask, the contiguity check; `SharedOut`, how flags divide between two cursors | used by everything on the queues |
| `MemPool` | `alloc_pktbuf`/`free_pktbuf` as operators on a pool record | the ring is the sequence between `front` and `rear`, plus `rear` |
| `Shm` | the segment and the options, as `nf.out` leaves it before its loop | |
| `Rx`, `Nf`, `Tx` | the three processes, one action per flag access, packet copy or descriptor filled | program points in the header of each module |
| `Pipeline` | their composition, fairness, the properties | |
| `DescRing` | abstract: descriptors change hands singly, in circular order | |
| `PacketFlow` | abstract: two bounded FIFO queues and a batch between them; in order, exactly once | |
| `PipelineRefines` | refinement mappings of the pipeline onto both | |
| `PipelineInv` | the inductive invariant `IInv` | |
| `SizedPool` | pool and cache of sufficient size, and what follows | |
| `PacketInv` | the inductive invariant `FlowInv`: which ids the queues, the batch and the copies hold | |
| `MemObj` | the arrays, indices and guards of ring and stack, for any client | refines `MemPool`'s records and `Allocator` |
| `Allocator` | abstract: what a pool promises | |
| `MbufBatch` | host packet buffers and metadata buffers of one process, batch after batch, in five build variants, guest-led and host-led | an action is one turn of a loop over `mbptrs` |
| `MbufBatchInv` | its inductive invariant `MbInv` | |
| `Startup` | creation, initialization, assertions and handshake of the three processes | the loops are one state |
| `Options` | the command lines of three processes, the widths their values pass through, the assertions, and sessions that leave their segment to the next | each start is one step |
| `Layout` | the sizes and addresses that a build computes, for guest and host | no state |
| `DataPath` | a batch on its way, every byte that is written, and the inductive invariant `DpInv` | on top of `Layout`; no queue; an action is one turn of a loop over the batch |
| `StoreOrder` | the RX queue with a store buffer per core | the stores of `Rx` and `Nf` one by one |
| `StoreOrderInv` | its inductive invariant `SoInv` | |
| `VioqueueProofs`, `PipelineProofs`, `FlowProofs`, `StoreOrderProofs`, `MemObjProofs`, `StartupProofs` (with `Options`), `BufferProofs`, `DataPathProofs` (with `Layout`) | lemmas and theorems | section 5 |
| `*MC` with `.cfg` | instances for TLC | section 3 |

**Correspondence.** A variable is named after the C variable with the prefix of its process
(`rx_last_avail` is `last_avail_idx` in `rx.out`'s own `struct vioqueue`; `nf_shadow` is
`lai_shadow`). `*_pc` names the loop the process is in. `Wrap(x)` is `x & (nentries - 1)`: the sums
never reach `2 * nentries`. `PROJECT.json` maps every definition to its lines.

**Grain.** An action contains exactly one access to shared memory that the other side may make at the
same time - a flag read, a flag write, or a start/end flag - or one packet copied, or one descriptor
filled, together with the private computation around it. Reading a descriptor's buffer index
happens with the flag test that gave the right to it: `DescExclusive`, which the runs and a proof
establish, says that nobody else writes there. The models of the pipeline keep program order and one
memory. `StoreOrder` gives up the second: each core has a store buffer, which drains in order and at
any time, as on x86, where the release fences of `vhost.h` and `vio.h` are no instructions. Its mutants
are weaker memories: with stores reordered between two fences (`DrainableFences`) the last flag of a
batch no longer vouches for the others, and without fences (`DrainableUnfenced`) packets are read that
have not been written. So the code relies on x86, and on a compiler that keeps the order of the
accesses; machines that reorder loads are not modelled.

**Data.** In the pipeline a packet is its id. `pktmem` says which id each guest buffer holds;
`check_pkt` (`pkt.h:40-52`) is the invariant `InOrder`. That the id is at one place for all three
programs, that headers and metadata do not touch it and that its length survives the way is the
business of `DataPath`, which follows two batches byte by byte through one build after the other, with
the queues left out: what they hand on is the order of the buffer indices. A build is a record of the
options of `meson.options`; a record stands for everything meson derives from it.

**Mutants.** An operator commented `Mutant:` stands before the definition it would replace. It is a
plausible slip in the code, and the property named with it in `PROJECT.json` must then fail.

## 3. Runs

| run | question | instance | states |
|---|---|---|---|
| `pipeline` | Safety: `DescExclusive`, `BufferOwnership`, `InOrder`, `CursorsAgree`, `PayloadStable`, `PoolSuffices`, `CacheSuffices`, `CacheInv`. Does each queue implement `DescRing`, the whole `PacketFlow`? Do the inductive invariants `IInv` and `FlowInv` hold? | 4 descriptors, batch 3, 11 packets, pool 10, cache 2 | about 645 k |
| `liveness` | Does every process leave its loops (`Termination`)? | 7 packets | about 130 k |
| `small_pool` | With one buffer too few `nf.out` may exit in a refill. Does `tx.out` still receive what was sent (`Drained`)? | pool 9, 7 packets | about 113 k |
| `small_cache` | Is a buffer for which the cache has no room freed into the ring? **No**, section 4 | cache 1 | |
| `allocator` | Do the arrays implement the pool records and the abstract allocator, with frees in any order? Does `MemInv` hold? | 5 objects, cache 2 | 305 |
| `data_path` | In the builds that are sound, do packets and lengths arrive, and does nobody write outside the buffers of the packet he is at? Does `DpInv` hold? | 4 buffers of 60 to 512 bytes, batch 3, 2 rounds, groups of 2, all variants, metadata of 0 to 24 bytes | 120 128 |
| `odd_metadata` | And in a build that meson accepts all the same? **No**, section 4 | the same, metadata of 3 bytes | |
| `options` | Do the processes that pass their assertions agree on the queue size? Does what they assert fit into 16 bits: `--vqsz`, and `nf.out`'s `--batchsz`? Does a sound size start on every segment left behind? | a `uint16_t` of 16 values, pool 9, queue sizes 1 to 32, batch sizes to 18, two killed sessions | 823 012 |
| `big_batch` | Does every batch fit into `mbptrs`? **No**, section 4 | the same, `MAX_BATCH_SIZE` 4 | |
| `store_order` | With stores in flight, do the flags reach memory in order, and are packets read as they were sent? Do all get through? Does `SoInv` hold? | 4 descriptors, batch 3, 7 packets, 7 buffers, 4 stores per core | 16 423 |
| `mbuf_batch` | Are the buffers of a batch distinct, and all back after it, in each program and variant, guest-led or host-led? Does `MbInv` hold? | batch 5, groups of 2, 6 objects | 23 318 |
| `startup` | Launched as by `run.sh`, do the loops find initialized descriptors, whatever segment an earlier session left? Does everybody get there? Launched at any time on a new segment, do the assertions keep the hosts out until both queues are ready? Does `StartupInv` hold? | 2 descriptors, 4 buffers | 31 027 |

**Why these bounds.** Four descriptors with a batch of three make batches meet the end of the array at
every offset, so that contiguity, halving down to one and partly sent rounds occur; the guest's first
attempt is `RecvMax = 2` (three rounded down to a multiple of `DESC_PER_CACHELINE = 2`), the size of
the bursts of host and guest differs. Eleven packets turn each queue more than twice, so that buffers
are freed, cached, handed out again and sent again; the last round is shorter than a batch. The pool is
exactly `2 * NENTRIES + RecvMax` and the cache exactly `RecvMax`: with one less in either, the runs
`small_pool` and `small_cache` show what happens. Liveness needs fewer packets: seven still turn the
queues once and end on a short round. In `mbuf_batch` a batch of five with groups of two has a last
group that is not full and bursts of tx.out (5, 2, 1, 0) that cut through a group.
In `data_path` the metadata sizes are those at which another field is written and their neighbours, the
buffers are taken in order or across a gap and, by the second batch, in reverse, so that it finds what
the first one left for another packet; of the groups of a batch of three the last is not full. `options` has sizes below the minimum, powers of two and others, one equal to the
first value that is narrowed to zero, one that is narrowed to a sound size (18 to 2), and one beyond
the pool; two killed sessions leave a segment that two others have written. In `store_order` all stores
of a batch fit into the buffer with one of the batch before.

`PKT_NUM` bounds the counters; everything else is finite by itself. Deadlock is checked except where a
process may rightly stop: `nf.out` has exited (`small_pool`), the allocator's client has been refused
(`allocator`), all three run, or a host has failed its assertion (`startup`, `options`),
the last batch has arrived (`data_path`), or all packets have been checked (`store_order`).
`NfTypeOK` and `TxTypeOK` say only `Nat` of the packet counters of the two receivers;
that they stay within `PKT_NUM` follows from `PipelineIsFlow`, which is proved.

**Fairness.** Each process is bound to a core of its own (`bind_core(0/1/2)`) and polls without ever
blocking, hence weak fairness of each process as a whole (`RxStep`, `NfStep`, `TxStep`). No fairness is
assumed of single actions: in a polling process exactly one action is enabled at a time.
`Startup` assumes it of `nf.out`, `rx.out` and `tx.out` likewise; `HandshakeHolds`, a part of `StartupInv`, is the part of `AllLoop` that needs none. `StoreOrder` adds weak fairness of
the draining of each store buffer: a store does not stay in flight for ever. `Options` and `DataPath`
check safety only.

## 4. Findings

**A full cache makes `free_pktbuf` store past the ring** (run `small_cache`). The branch of
`free_pktbuf` commented "free a mobj without caching it" (`pktbuf_get_put.h:41`) enqueues into the ring
of the pool. `enqueue` (`ring.h:38-42`) compares `num` with `max`, but `rear` is `max` from the start,
because `init_mpool` fills the ring, and never wraps. The first such free after an
allocation from the ring stores beyond `ring->ptr`. It happens when `--mobjcache` is smaller than a
burst: the default of 512 with `--batchsz=1024 --vqsz=1024` is of this kind, and `parse_opt` accepts 0.
`rx.out` and `tx.out`, which free the host buffers of a whole batch, meet it in the same way. `run.sh`
passes `2*vqsz` and does not. `CacheSuffices`, proved for all sizes, says that a cache of
`RecvMax` entries is enough for `nf.out`.

**Metadata of 3 bytes** (run `odd_metadata`). `README.md:63` offers metadata sizes from 2 to 256.
`struct metadata` is written up to thresholds of its own (`mbuf_core.h:43-90`, `MdWritten`), and of all
sizes 1, 3 and 5 are smaller than what is written for them. Where the metadata of the packets of a
group lie 3 bytes apart, the low byte of the next packet's length lands in the high byte of the
previous one's: the length 60 becomes 60 + 60 * 2^24, and the run ends in rx.out's first `memcpy`
(`vhost.h:82`), of about 1 GB. In integrated buffers without headroom, header and alignment what
is written runs into the packet, of which `check_pkt` then finds another id.

**Batches beyond `MAX_BATCH_SIZE`** (run `big_batch`). `mbptrs` has 1024 entries and `--batchsz=2048
--vqsz=2048` is accepted by `parse_opt` and all assertions. Only `nf.out` compares the batch size with
anything at all, its own `--vqsz` (`nf.c:109`); `rx.out` and `tx.out` accept any, also one of 65536
and more, which the 16 bits of `nb_rx` (`rx.c:80`) never reach.

Three more were met in builds that the runs leave out; the modules have them, and the definitions named
here put in place of `Sounds` or `Keeping` in the `.cfg` show them:

- *Aggregation on one side* (`Mixed` of `DataPathMC`). `aggregated_md` without `host_aggregated_md`, or
  the other way round, is not among the combinations that `lib/mbuf/meson.build:8-14` refuses. Unless
  `separated_md` is given too, guest and host then compute different addresses for every packet
  (`SameView`), and no assertion notices.
- *Metadata copied by the host* (`HostLed` of `DataPathMC`). With `memcpy_md` nobody writes `pkt_len`,
  because `vio_reset_md_rx` is empty (`host_led/vio_reset_md.h:8`): `rx.out` copies 0 bytes of every
  packet. The function has another signature than its callers use, which newer compilers refuse.
- *And reused* (`Builds` of `MbufBatchMC`). With `host_aggregated_md` and `reuse` as well, `reset_mbptr`
  copies a struct whose metadata index `mbuf_alloc` has not set over the index that is to be kept
  (`reuse/mbuf.h:58`). What is then found depends on the compiler; where it is negative a new metadata
  buffer is taken for every group of every batch.

Three facts that need no model: `tiny_descs` (`meson.options:4`, "shrink descriptors in I/O queue") is
read by no build file and `DESC_SIZE` is never defined, so descriptors have 16 bytes in every build; `nf.out` reaches its second test of `vq_free_cnt` (`vio.h:126`) never with
a positive answer (`CursorsAgree`); and without the sleeps of `run.sh` a `tx.out` that is launched
early has its start flag lowered again by `nf.out` (`nf.c:127`), so that `rx.out` spins for ever - no
document promises otherwise, so it is a hazard and not a finding.

## 5. Proofs

All theorems hold for every value of the constants under the assumptions the modules declare:
in the modules of the pipeline and of the store buffers, `NENTRIES`, `BATCH_SIZE` and the other options positive, `BATCH_SIZE <= NENTRIES` (`nf.c:109`),
`POOL_NUM >= NENTRIES` (else `nf.out` exits in `init_descs_rx`). `FlowProofs` also
uses `CACHE_NUM >= RecvMax` and `POOL_NUM >= 2 * NENTRIES + RecvMax` (`SizedPool`), which no assertion of the
code ensures and the runs `small_cache` and `small_pool` show to be needed. `Options` assumes a pool that is smaller than what `uint16_t` can count and a
least queue size within it, as in the program (36864, 65536, 256). `MbufBatch` assumes that a batch fits into a
cache and into a pool, which `run.sh` sees to with `mobjcache=2*vqsz` and no assertion ensures; its theorems
are about the builds that keep their metadata indices, `KeepsIndices`, all but the one of the last bullet of
section 4. `DataPath` assumes that meson accepts its builds and that the host does not both copy and
aggregate metadata; its theorems are about builds that are sound, `SoundBuilds`, and `MostAreSound` says
which those are: all but the ones of the first two bullets of section 4 and those with metadata of 1, 3 or
5 bytes, some of which are sound as well.

| theorem | module | statement |
|---|---|---|
| `InductiveInvariant` | `PipelineProofs` | `Spec => []IInv` |
| `TypeCorrect` | `PipelineProofs` | `Spec => []TypeOK` |
| `DescriptorsExclusive` | `PipelineProofs` | `Spec => []DescExclusive` |
| `TxCursorsAgree` | `PipelineProofs` | `Spec => []CursorsAgree` |
| `RxRingRefinement` | `PipelineProofs` | `Spec => RxRingImplemented` |
| `TxRingRefinement` | `PipelineProofs` | `Spec => TxRingImplemented` |
| `BuffersOwned` | `PipelineProofs` | `Spec => []BufferOwnership` |
| `FreesAreCached` | `FlowProofs` | `Spec => []CacheSuffices` |
| `CacheBounded` | `FlowProofs` | `Spec => []CacheInv` |
| `RefillsSucceed` | `FlowProofs` | `Spec => []PoolSuffices` |
| `PacketsHeld` | `FlowProofs` | `Spec => []FlowInv` |
| `PacketsInOrder` | `FlowProofs` | `Spec => []InOrder` |
| `PayloadsStable` | `FlowProofs` | `Spec => PayloadStable` |
| `PipelineIsFlow` | `FlowProofs` | `Spec => FlowImplemented` |
| `StoreOrderInvariant` | `StoreOrderProofs` | `SoSpec => []SoInv` |
| `PacketsLoadedInOrder` | `StoreOrderProofs` | `SoSpec => []LoadedInOrder` |
| `StoresDrainInOrder` | `StoreOrderProofs` | `SoSpec => DrainedInOrder` |
| `MemoryInvariant` | `MemObjProofs` | `MemSpec => []MemInv` |
| `MemoryTyped` | `MemObjProofs` | `MemSpec => []MemTypeOK` |
| `ObjectsOnce` | `MemObjProofs` | `MemSpec => []EveryObjectOnce` |
| `RecordsImplemented` | `MemObjProofs` | `MemSpec => PoolImplemented` |
| `PoolIsAllocator` | `MemObjProofs` | `MemSpec => AllocatorImplemented` |
| `StartupInvariant` | `StartupProofs` | `StartupSpec => []StartupInv` |
| `StartupTyped` | `StartupProofs` | `StartupSpec => []StartupTypeOK` |
| `LoopsPrepared` | `StartupProofs` | `StartupSpec => []LoopsFindPrepared` |
| `AssertsGuard` | `StartupProofs` | `StartupSpec => []AssertsGuardLoops` |
| `RxWaitsForTx` | `StartupProofs` | `StartupSpec => []RxAfterTx` |
| `HandshakeIsSafe` | `StartupProofs` | `StartupSpec => []HandshakeHolds` |
| `SizesAgree` | `StartupProofs` | `OptSpec => []QueueSizesAgree` |
| `SizesFit` | `StartupProofs` | `OptSpec => []AssertedSizesFit` |
| `AlwaysStarts` | `StartupProofs` | `OptSpec => []StartsAgain` |
| `EachBufferInOnePlace` | `BufferProofs` | `KeepsIndices /\ MbSpec => []MbInv` |
| `BuffersExclusive` | `BufferProofs` | `KeepsIndices /\ MbSpec => []BatchExclusive` |
| `BuffersComeBack` | `BufferProofs` | `KeepsIndices /\ MbSpec => []NothingLost` |
| `ViewsAgree` | `DataPathProofs` | in a build with `SameView` guest and host agree on `PktAddr` of every buffer |
| `PacketsApart` | `DataPathProofs` | packets end before the next buffer and before the metadata pool |
| `SizesWithRoom` | `DataPathProofs` | in an accepted build the metadata have room, unless their size is 1, 3 or 5 |
| `MostAreSound` | `DataPathProofs` | which builds satisfy the hypothesis of the next four |
| `DoneStaysDone` | `DataPathProofs` | `SoundBuilds /\ DpSpec => []DpInv` |
| `PacketsArrive` | `DataPathProofs` | `SoundBuilds /\ DpSpec => []PacketsIntact` |
| `LengthsArrive` | `DataPathProofs` | `SoundBuilds /\ DpSpec => []LengthsKept` |
| `WritesInPlace` | `DataPathProofs` | `SoundBuilds /\ DpSpec => OthersUntouched` |

**The inductive invariant.** `DescExclusive` is not inductive: that the last descriptor of a batch is
AVAIL says nothing of the others unless the AVAIL descriptors are known to be an interval. `SharedOut`
says that they are: the `a` descriptors from the host's next flip up to the guest's, with what each
side has claimed inside its own part. `HostClaims` and `GuestClaims` (`VioqueueProofs`) are the heart
of the argument: one flag at distance `n` decides on all `n` descriptors. `HostHandsOver` and
`GuestHandsOver` are the flips. The cursors the code keeps are not always the next flip, so the rest
of `IInv` ties them to it at every program point; `NfTxCursors` contains the fact that makes the test
at `vio.h:121` right (no descriptor in reserve between bursts), `TxdCarries` that a TX descriptor has a
buffer before anybody follows its index. The preservation proof goes process by process
(`RxPreserves`, `NfReceivePreserves`, `NfTransmitPreserves`, `TxPreserves`), an action per step.

**Refinement of the queues.** With `IInv`, a flip is a step of `DescRing` and everything else stutters, since the
mapped cursors are the next flips.

**Ownership of the buffers.** That the places of a buffer are one in number says nothing of which
place it leaves in a step. `Owned` says that one of the five sets of places (`InCache`, `InRing`, `InRxd`,
`InTaken`, `InTxd`) has one element and the others none, and it is inductive relative to `IInv`. The proof
has one lemma per move: an allocation takes a buffer out of the pool (`AllocTakes`) into the descriptor
that stops being stale (`RefillMoves`), a take moves it from a descriptor into the batch (`TakeMoves`), a put
from the batch into a TX descriptor (`PutMoves`), a cleanup from there into the pool (`CleanupMoves`,
`FreeAdds`). `RxStale` and `TxStale` are what makes this true: the index that an emptied descriptor still
has does not count.

**The cache and the pool.** `CacheInv` is inductive relative to `IInv`: allocations of a batch take from
the cache first (`AllocShrinks`), and the batch frees no more than it has taken. `PoolSuffices` is not an
induction but a count: if the pool were empty during a refill, `Owned` would give every buffer a place
in a descriptor or in the batch, an injection into fewer places than there are buffers (`BufferLeft`).

**The packets.** `InOrder` needs to know what each buffer holds, and buffers are recycled. `FlowInv` says
it by four counters of what has passed a border (`RxSent`, `NfTaken`, `NfSent`, `TxReleased`): the USED RX
descriptors hold the ids after `NfTaken`, the batch those up to it, the TX descriptors from `tx.out`'s next
flip on the ids after `TxReleased`, those that are put and not published included. It is inductive
relative to `IInv` and `Owned` as long as the allocator does not fail (`FlowStep`). The crucial lemma is
`CopyElsewhere`: the one buffer that `rx.out` writes into is in an AVAIL RX descriptor, hence by `Owned`
nowhere else, hence no id that somebody still relies on changes; this is also `PayloadStable`.

**End to end.** By `FlowInv` the queues of `PacketFlow` are runs of consecutive ids (`FlowState`), and a step
of the pipeline moves at most one of the counters (`CountsMove`): `RxPublish` is `Send`, `NfTake` is
`Take` with the whole burst, `NfPublish` is `Forward`, `TxCopy` is `Receive` - `tx.out` copies before it
releases, so a packet is received one flip before its descriptor is free. `WindowSize` says that the
descriptors of a queue that carry a flag are as many as the counters say.

**Stores in flight.** With a store buffer per core no side sees the queue as it is: memory lags behind each
of them by its own stores. `SoInv` therefore counts from memory. `hd` and `gd` are the descriptors whose
flags change next in memory, `hf` and `gf` the flags of each side still in flight, `a` the descriptors
that memory has as AVAIL. Each side's cursor is ahead of its memory by its flags (`SharedInMemory`), so a
flag that a side loads from memory vouches for a whole batch as in the pipeline (`HostClaimed`,
`GuestClaimed`), however old it is: an old flag only understates. `RefillsInFlight` and `PayloadsInFlight` are the two fences: a
refill or a payload in flight is older than the flag that publishes its descriptor, so that when the
flag has drained nothing older is left (`HostDrainFlag`, `GuestDrainFlag`). `Own(s)` is the index of a
descriptor as `nf.out`'s core sees it. It is what `rx.out` loads too, because a descriptor that
`rx.out` may look at has no refill in flight (`NoRefillAhead`), and `BuffersApart` says
that no buffer is in two descriptors, or in one and in the batch or free. Hence a payload that drains
late cannot hit a buffer that has been used again, and `LoadedInOrder` is read off
`PayloadsArrived`. A store that drains either leaves `DrainedRing` as it is or, if it is a flag, moves `hd`
or `gd` by one, which makes it a step of `DescRing` (`StoresDrainInOrder`). The proof has one lemma for each
kind of step and for each kind of store that drains (`HostProbeStep` to `GuestDrainFlag`).

**The allocator.** `EveryObjectOnce` counts; it is not inductive, because a ring whose cells held an object
twice would satisfy it until both were taken out. `MemInv` says what is in the arrays: the cells are
still the ones `init_mpool` wrote, `rear` is at the end, `front` and `num` add up to it, and the objects
that `front` has passed are the cached and the held ones, each once. It holds up to the first store past
the ring - in other words nothing that is freed ever gets back into the ring in a valid way, which is the
finding `small_cache` seen from the inside. `PopTakes` and `PushAdds` are the two moves of the stack. On
it rest the refinements: `PopImplemented`, `DequeueImplemented`, `PushImplemented` and
`EnqueueImplemented` compare the arrays with the sequences that the pipeline uses for a pool
(`RecordsImplemented`), so that what is proved of the pipeline with records holds of the arrays; and
`FreeIs` (free is what is not held) makes each step one of `Allocator` (`PoolIsAllocator`).

**Startup.** The host processes look at the descriptors in the order in which `nf.out` writes them, and in
each at the flag before the index. On a new segment the index of the last TX descriptor is therefore the
last thing that changes (`LastDescLast`), and a host that finds it changed is behind all of `nf.out`'s
descriptors, however the two are interleaved (`AssertsSuffice`). On a segment with leftovers the
assertions say nothing, and the order of the launches (`Staggering`) has to do it. `Handshake` relates
the program points of the three: who has raised the start flag, and that nobody lowers it any more. `RxAfterTx`
is a conjunct of `StartupInv`, and the run checks it as such.

**Agreement of the sizes.** No process sees another's options; each only looks at `2 * vqsz`
descriptors. The assertions of two sizes `v < w` contradict each other at one descriptor: the first of
the TX queue of `v` is in the RX queue of `w`, and would have to be AVAIL and USED (`OneSize`). That
alone is not enough, because traffic changes the descriptors after `nf.out` has looked, so the
invariant says of each process in its loop what its queues have become by then, and that a host which
is launched later can only pass with the size of `nf.out`. `SizesFit` needs that `nf.out` never
makes more descriptors AVAIL than its pool has buffers (`AvailBounded`), and that the next session finds no
more than that. `AlwaysStarts` rests on `InitializedAsserted`: initialization followed by the assertions
succeeds on any segment.

**Buffers of a batch.** `BatchExclusive` speaks of batches in work only and `NothingLost` of the time between them,
so neither says anything of the loops that lead from one to the other. `MbInv` does: at each turn of each
loop it names the entries of `mbptrs` that hold a packet buffer (`HeldBufs`) and the heads of groups that
hold a metadata buffer (`HeldMds`), and `HeldAndFree` says that these and the pool share out all objects,
each once. `AllocShares` and `FreeShares` are the two moves between them, whatever the pool takes the
object from, cache or ring. The rest is arithmetic with a group size that is not known (`Division`,
`HeadsApart`): a loop in steps of a group goes from head to head and misses none (`HeadNext`, `HeadIsLast`),
and `FirstHeads` is the point where the code has to be right about a burst of `tx.out` that cuts a group -
the heads from `FirstHead(start_idx)` on are those from `start_idx` on, so the group that is cut keeps its
metadata buffer until its first part is freed too. `EntriesFollow` says that the other entries of a group
repeat the index of its head, with `reuse` also those that a short batch does not reach. `FreeCount`
and `HeadsCount` give the number of buffers that are back.

**Layout.** `MultiplyMonotone` and `RoundUpBounds` carry the arithmetic. `ViewsAgree` is why the
condition in `Sound` is `SameView` and not a list of builds; `PacketsApart` covers every size and
alignment, where the run has some. `SizesWithRoom` follows `struct metadata` field by field against
the space it is given.

**The data path.** `PacketsIntact` speaks of the two points at which somebody checks the packets, and a
packet is written and then left alone while the same loop, and many after it, write for other packets. So
it is not inductive. `DpInv` says for every packet what the loops it has been through (`Past`) have
done for it (`Done`), and the theorem is that no write takes anything of that away. It comes down to
where things are:

- `Apart`: what a program may write for one packet, its packet buffer and its part of the metadata, meets
  nothing of another packet's. `InFrame` and `FramesApart` have it for the buffers, `InMdBuf` and `MdsApart`
  for the metadata, where packets of one group share a metadata buffer and `Grouped` says in which group, and
  at which place in it, a packet is. `Inside` places header, packet and metadata of one packet next to
  each other without overlap. `HostViewIs` is `ViewsAgree` put to use: what the host has written the
  guest finds.
- `PutByte`, `PutInside`, `PutOutside`: memory after a write, byte by byte. From them `HoldsKept` and
  `LengthKept`: a packet and a length survive every write that is outside of them.
- `PacketCopied`, `HeaderCleared`, `LengthWritten`, `MetadataReset`: what a write does for its own packet.
  `MetadataReset` also has that the metadata a program initializes never has a checksum bit set, which
  is why `vhost_enqueue_offload` does not give up.
- `TurnPast`, `Stages`, `EarlierLoops`: a turn takes one packet past one loop, and whoever is past a loop
  is past the ones before it. `DoneNext` puts the two sides together, and each action has a lemma
  (`GenerateStep` to `NextBatchStep`).

Two conjuncts of `DpControl` are there because without them `DpInv` is not inductive: at the end the loop
counter is back at the first packet, and the loops that copy metadata are run only in builds that have
them. `OthersUntouched` is then read off the places of the writes (`StaysIn`, `PutTouches`).

**Only model-checked** is what is temporal under fairness: `Termination`, `Drained`, `AllLoop` and
`AllLoaded`; liveness and `ENABLED` are beyond the prover. The properties of the three runs that expect a
violation are false.

## 6. Not modelled

- `zero_copy` leaves out the copy of packets that then nobody checks (`developer_mode` excludes it);
  prefetches are hints.
- `md_queue`: the variant does not link at this commit. `same_mpool`: no build includes it.
- In `HOST_LED` builds the descriptors carry a metadata index next to the buffer index. `DataPath`
  has what is copied with it, but the pipeline does not follow it through the queues: with
  `memcpy_md` no packet gets that far (section 4).
- Memories that reorder loads, and what a compiler may make of plain accesses to shared memory.
- Sessions that overlap. `perfrun.sh` launches the next `nf.out` when `tx.out` has ended, a moment
  before the old `nf.out` unlinks the segment.
- Crashes of one process during the I/O loops: the code has no handling of them; what a killed session
  leaves behind is an initial state of `Startup` and a step of `Options`. A failing `mmap` or `malloc`
  ends a process at once.
- Values of `--pktnum` and `--mobjcache` beyond `int`: `atoi` is taken to return what was typed.
- `eval/`, the scripts around the measurements and the two manual test programs.

## 7. Plan

Done, in this order: the queue and the three processes with their safety; liveness; inductive
invariant, type and exclusion theorems; refinement of the queues with proofs; the allocator; startup;
buffers and metadata per batch; options and their proofs; layouts of the builds, their proofs and the
data path; store buffers; host-led metadata in the host programs; ownership of the buffers,
sufficiency of the pool, contents of the queues and the refinement of `PacketFlow`, all with proofs;
the proofs of the allocator's arrays, of startup, of the store buffers, of the buffers of a batch and of
the data path.

Next:

1. The second index of a host-led descriptor in the pipeline, once `memcpy_md` builds carry packets.
2. `StoreOrder` with the TX queue, where the cleanup reads an index a turn after it was written.
