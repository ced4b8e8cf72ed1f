----------------------------- MODULE MbufBatch ------------------------------
(***************************************************************************)
(* The private buffers of one process in the course of its batches: the    *)
(* host packet buffers of rx.out and tx.out, and the metadata buffers of   *)
(* any of the three, in the variants of lib/mbuf/md_buf:                   *)
(*   integrated  metadata is part of the packet buffer                     *)
(*   each_mpool  one metadata buffer per packet, from a pool               *)
(*   reuse       one per entry of mbptrs, taken once and kept              *)
(*   aggr_mpool  one for AGGREGATED_MD_NUM packets, from a pool            *)
(*   aggr_reuse  one for AGGREGATED_MD_NUM entries, taken once and kept    *)
(* HOST_LED (memcpy_md) is a matter of rx.out and tx.out here: in nf.out   *)
(* the metadata index then stays with the descriptor.  each_mpool takes    *)
(* and frees the same objects, in mbuf_alloc and mbuf_free.                *)
(*                                                                         *)
(* What the process does with the batch in between is left open: how many  *)
(* of its packets were received is any number the burst can return.        *)
(* An action is one turn of a loop over mbptrs.  The two pools know nothing*)
(* of each other, so the metadata buffers of each_mpool and reuse can be   *)
(* taken and freed in a loop of their own, with groups of one packet.      *)
(*                                                                         *)
(* mb_pc: idle; take, setup: the loops that take the buffers of a batch    *)
(* and its metadata buffers; work; give, unset: the loops that free them   *)
(* from mb_start on; received: the unused part of a batch of tx.out has    *)
(* gone back; exited: for want of a buffer.                                *)
(*                                                                         *)
(* Both pools have POOL_NUM objects here, so one set of MemPool operators  *)
(* serves both; md_pool and pktbuf_pool have the same cache size in the    *)
(* code as well.                                                           *)
(***************************************************************************)
EXTENDS MemPool, FiniteSets

CONSTANTS
  BATCH_SIZE, AGGREGATED_MD_NUM, DESC_PER_CACHELINE,
  BUILDS                        \* the variants to look at, and whether built with memcpy_md

\* A batch fits into the pools and into their caches (run.sh: --mobjcache=2*vqsz).
ASSUME BatchAssumption ==
  /\ {BATCH_SIZE, AGGREGATED_MD_NUM, DESC_PER_CACHELINE} \subseteq Nat \ {0}
  /\ BATCH_SIZE <= CACHE_NUM /\ BATCH_SIZE <= POOL_NUM
  /\ BUILDS \subseteq
       [variant: {"integrated", "each_mpool", "reuse", "aggr_mpool", "aggr_reuse"},
        host_led: BOOLEAN]

VARIABLES
  role, build,        \* which program, built in which variant: never change
  mb_pc,
  mb_num, mb_start,   \* the batch takes mb_num entries of mbptrs; mb_start: start_idx
  mb_i,               \* the index of the loops
  mb_buf, mb_md,      \* mbptrs[].mbuf_idx: dmidx and md_idx
  pktbuf_pool, md_pool

mbVars == <<role, build, mb_pc, mb_num, mb_start, mb_i, mb_buf, mb_md, pktbuf_pool, md_pool>>

Entries == 0 .. BATCH_SIZE - 1

MbInit ==
  /\ build \in BUILDS
  /\ role \in IF build.host_led THEN {"rx", "tx"} ELSE {"rx", "tx", "nf"}
  /\ mb_pc = "idle"
  /\ mb_num = BATCH_SIZE /\ mb_start = 0 /\ mb_i = 0
  /\ mb_buf = [i \in Entries |-> -1] /\ mb_md = [i \in Entries |-> -1]
  /\ pktbuf_pool = InitPool(0) /\ md_pool = InitPool(0)
-----------------------------------------------------------------------------
variant == build.variant
Pooled == variant \in {"each_mpool", "aggr_mpool"}
Reused == variant \in {"reuse", "aggr_reuse"}
Group  == IF variant \in {"aggr_mpool", "aggr_reuse"} THEN AGGREGATED_MD_NUM ELSE 1

\* Mutant: a group that begins before start_idx is taken for one behind it.
FirstHeadBelow(start) == (start \div Group) * Group

\* The head of the first group that begins at start_idx or behind it.
FirstHead(start) ==
  IF start % Group = 0 THEN start ELSE (start \div Group + 1) * Group

(***************************************************************************)
(* The metadata index in an entry when reset_mbptr has been there.  With   *)
(* HOST_LED the index is part of the struct that reset_mbptr copies, and   *)
(* mbuf_alloc of the aggregated variants has not set it: the copy leaves   *)
(* what was there (gcc -O2) or brings in a negative number (gcc -O0).      *)
(***************************************************************************)
AfterReset(md) ==
  IF build.host_led /\ variant = "aggr_reuse" THEN {md, -1} ELSE {md}

\* The group at mb_i needs a metadata buffer from the pool.
NeedsMd == Pooled \/ (Reused /\ mb_md[mb_i] < 0)

\* The loops over the packets of a batch, and over its groups.
GoesOn(step, pc) ==
  IF mb_i + step < mb_num THEN mb_i' = mb_i + step /\ UNCHANGED mb_pc
  ELSE mb_i' = 0 /\ mb_pc' = pc

\* alloc_pktbuf and alloc_md do not come back from an empty pool.
Exits == mb_pc' = "exited" /\ UNCHANGED <<mb_i, mb_buf, mb_md, pktbuf_pool, md_pool>>
-----------------------------------------------------------------------------
\* A batch of num packets begins.
Begin(num) ==
  /\ mb_pc = "idle" /\ mb_pc' = "take"
  /\ mb_num' = num /\ mb_i' = 0
  /\ UNCHANGED <<role, build, mb_start, mb_buf, mb_md, pktbuf_pool, md_pool>>

\* mbuf_alloc, which nf.out calls elsewhere, and reset_mbptr for a packet.
Take ==
  /\ mb_pc = "take"
  /\ IF role # "nf" /\ ~CanAlloc(pktbuf_pool) THEN Exits
     ELSE /\ IF role = "nf" THEN UNCHANGED <<mb_buf, pktbuf_pool>>
             ELSE /\ mb_buf' = [mb_buf EXCEPT ![mb_i] = AllocIdx(pktbuf_pool)]
                  /\ pktbuf_pool' = AfterAlloc(pktbuf_pool)
          /\ \E md \in AfterReset(mb_md[mb_i]) : mb_md' = [mb_md EXCEPT ![mb_i] = md]
          /\ GoesOn(1, "setup")
          /\ UNCHANGED md_pool
  /\ UNCHANGED <<role, build, mb_num, mb_start>>

\* setup_metadata or alloc_aggregated_md_local for a group.
Setup ==
  /\ mb_pc = "setup"
  /\ IF NeedsMd /\ ~CanAlloc(md_pool) THEN Exits
     ELSE /\ LET md == IF NeedsMd THEN AllocIdx(md_pool) ELSE mb_md[mb_i]
             IN  mb_md' = [i \in Entries |->
                            IF mb_i <= i /\ i < mb_i + Group /\ i < mb_num THEN md ELSE mb_md[i]]
          /\ md_pool' = IF NeedsMd THEN AfterAlloc(md_pool) ELSE md_pool
          /\ GoesOn(Group, "work")
          /\ UNCHANGED <<mb_buf, pktbuf_pool>>
  /\ UNCHANGED <<role, build, mb_num, mb_start>>

\* The packets from start on are done with.
GiveBack(start) ==
  /\ mb_start' = start /\ mb_i' = start /\ mb_pc' = "give"
  /\ UNCHANGED <<role, build, mb_num, mb_buf, mb_md, pktbuf_pool, md_pool>>

\* Mutant: the last packet is forgotten.
BufsGivenShort == role = "nf" \/ mb_i + 1 >= mb_num

\* nf.out gives no packet buffer back: they have gone into the TX queue.
BufsGiven == role = "nf" \/ mb_i >= mb_num

\* mbuf_free for a packet.
Give ==
  /\ mb_pc = "give"
  /\ IF BufsGiven THEN mb_pc' = "unset" /\ mb_i' = FirstHead(mb_start) /\ UNCHANGED pktbuf_pool
     ELSE IF CanFree(pktbuf_pool)
       THEN pktbuf_pool' = AfterFree(pktbuf_pool, mb_buf[mb_i]) /\ mb_i' = mb_i + 1 /\ UNCHANGED mb_pc
       ELSE mb_pc' = "exited" /\ UNCHANGED <<mb_i, pktbuf_pool>>
  /\ UNCHANGED <<role, build, mb_num, mb_start, mb_buf, mb_md, md_pool>>

\* free_aggregated_md_local or free_md_bulk for a group.
Unset ==
  /\ mb_pc = "unset" /\ Pooled /\ mb_i < mb_num
  /\ IF CanFree(md_pool)
       THEN md_pool' = AfterFree(md_pool, mb_md[mb_i]) /\ mb_i' = mb_i + Group /\ UNCHANGED mb_pc
       ELSE mb_pc' = "exited" /\ UNCHANGED <<mb_i, md_pool>>
  /\ UNCHANGED <<role, build, mb_num, mb_start, mb_buf, mb_md, pktbuf_pool>>

\* What is left of the batch are the packets before mb_start.
Given ==
  /\ mb_pc = "unset" /\ ~(Pooled /\ mb_i < mb_num)
  /\ mb_pc' = IF mb_start = 0 THEN "idle" ELSE "received"
  /\ mb_num' = IF mb_start = 0 THEN mb_num ELSE mb_start
  /\ mb_i' = 0
  /\ UNCHANGED <<role, build, mb_start, mb_buf, mb_md, pktbuf_pool, md_pool>>
-----------------------------------------------------------------------------
\* The sizes a burst of n can have after it has been halved.
Halvings(n) == {m \in 1 .. n : \E k \in 0 .. n : m = n \div 2^k}

\* rx.out: full batches, shorter ones when fewer packets are left to generate.
RxBegin == role = "rx" /\ \E num \in 1 .. mb_num : Begin(num)
RxEnd   == role = "rx" /\ mb_pc = "work" /\ GiveBack(0)

\* nf.out: the packets of a burst, until vio_xmit_pkts has sent all of them.
NfBurst == IF BATCH_SIZE > DESC_PER_CACHELINE
             THEN BATCH_SIZE - (BATCH_SIZE % DESC_PER_CACHELINE) ELSE BATCH_SIZE
NfBegin == role = "nf" /\ \E num \in Halvings(NfBurst) : Begin(num)
NfEnd   == role = "nf" /\ mb_pc = "work" /\ GiveBack(0)

(***************************************************************************)
(* tx.out takes buffers for a whole batch before it knows how many packets *)
(* there are, and vhost_dequeue_burst gives back those it did not fill.    *)
(***************************************************************************)
TxBegin   == role = "tx" /\ Begin(BATCH_SIZE)
TxReceive == role = "tx" /\ mb_pc = "work" /\ \E num \in Halvings(BATCH_SIZE) \cup {0} : GiveBack(num)
TxEnd     == role = "tx" /\ mb_pc = "received" /\ GiveBack(0)

MbNext ==
  \/ RxBegin \/ RxEnd
  \/ NfBegin \/ NfEnd
  \/ TxBegin \/ TxReceive \/ TxEnd
  \/ Take \/ Setup \/ Give \/ Unset \/ Given

MbSpec == MbInit /\ [][MbNext]_mbVars
-----------------------------------------------------------------------------
Left(p)     == Len(p.cache) + Len(p.ring)
PoolObjs(p) == {p.cache[k] : k \in DOMAIN p.cache} \cup {p.ring[k] : k \in DOMAIN p.ring}

(***************************************************************************)
(* While a batch is in work no two of its groups share a metadata buffer,  *)
(* no two packets of rx.out or tx.out share a packet buffer, and none of   *)
(* them is free: also for what is left of a batch of tx.out whose unused   *)
(* part has gone back, when the cut goes through a group.                  *)
(***************************************************************************)
BatchExclusive ==
  mb_pc \in {"work", "received"} =>
    /\ role # "nf" =>
         \A i, j \in 0 .. mb_num - 1 :
           mb_buf[i] \notin PoolObjs(pktbuf_pool) /\ (i # j => mb_buf[i] # mb_buf[j])
    /\ variant # "integrated" =>
         \A i, j \in 0 .. mb_num - 1 :
           /\ mb_md[i] \notin PoolObjs(md_pool)
           /\ mb_md[i] = mb_md[j] <=> i \div Group = j \div Group

(***************************************************************************)
(* Between two batches every packet buffer is back, and every metadata     *)
(* buffer but those the reusing variants keep, one per group of mbptrs at  *)
(* most; nothing is back twice, no batch ever finds its pools empty, and   *)
(* nothing that is freed is stored past the end of a ring.                 *)
(***************************************************************************)
NothingLost ==
  /\ mb_pc # "exited" /\ ~Overrun(pktbuf_pool) /\ ~Overrun(md_pool)
  /\ mb_pc = "idle" =>
       /\ PoolObjs(pktbuf_pool) = Objs /\ Left(pktbuf_pool) = POOL_NUM
       /\ PoolObjs(md_pool) = Objs \ (IF Reused THEN {mb_md[i] : i \in Entries} ELSE {})
       /\ Left(md_pool) = Cardinality(PoolObjs(md_pool))
       /\ Left(md_pool) >= POOL_NUM - (BATCH_SIZE + Group - 1) \div Group
=============================================================================
