-------------------------------- MODULE Nf ----------------------------------
(***************************************************************************)
(* nf.out (src/nf.c, lib/vnwio/vio.h): takes filled buffers off the RX     *)
(* queue, gives the RX descriptors fresh buffers from the guest pool,      *)
(* verifies the packets (developer_mode) and hands the same buffers, not   *)
(* copied, to the TX queue.  A buffer returns to the guest pool when its   *)
(* TX descriptor is about to be used again.                                *)
(*                                                                         *)
(* Program points (nf_pc):                                                 *)
(*   poll      the do-while of vioqueue_dequeue_burst_rx                   *)
(*   refill    vioqueue_refill_desc_rx: a new buffer per descriptor        *)
(*   offer     vioqueue_refill_desc_rx: the flag loop, after the fence     *)
(*   check     check_pkt on every packet of the batch                      *)
(*   xmit      the entry of vio_xmit_pkts                                  *)
(*   cleanup   virtio_xmit_cleanup                                         *)
(*   put       vioqueue_enqueue_burst_tx                                   *)
(*   publish   the flag loop of vio_xmit_pkts, after the fence             *)
(*   wait      while (!*is_end)                                            *)
(*   exhausted exit(EXIT_FAILURE) in alloc_pktbuf                          *)
(*   failed    exit(EXIT_FAILURE) in free_pktbuf                           *)
(*   overrun   the allocator stored past the end of its ring               *)
(***************************************************************************)
EXTENDS Shm

VARIABLES
  nf_pc,
  nf_counter, nf_prev,           \* pkt_counter, prev_pkt_id
  nf_num, nf_i,                  \* num of the burst (then nb_rx), loop index
  nf_bufs,                       \* mbptrs[].mbuf_idx.dmidx
  nf_shadow,                     \* lai_shadow
  nf_rx_avail, nf_rx_used,       \* cursors of vq_rx
  nf_tx_avail, nf_tx_used,       \* cursors of vq_tx
  nf_free_cnt,                   \* vq_tx.vq_free_cnt
  nf_pool                        \* the guest pktbuf_pool

nfVars == <<nf_pc, nf_counter, nf_prev, nf_num, nf_i, nf_bufs, nf_shadow,
            nf_rx_avail, nf_rx_used, nf_tx_avail, nf_tx_used, nf_free_cnt, nf_pool>>

\* vio_recv_pkts rounds a large burst down to whole cache lines of descriptors.
RecvMax == IF BATCH_SIZE > DESC_PER_CACHELINE
             THEN BATCH_SIZE - (BATCH_SIZE % DESC_PER_CACHELINE)
             ELSE BATCH_SIZE

\* init_descs_rx has taken the first nentries buffers from the pool.
NfInit ==
  /\ nf_pc = "poll"
  /\ nf_counter = 0 /\ nf_prev = 0
  /\ nf_num = RecvMax /\ nf_i = 0
  /\ nf_bufs = <<>>
  /\ nf_shadow = 0
  /\ nf_rx_avail = 0 /\ nf_rx_used = 0
  /\ nf_tx_avail = 0 /\ nf_tx_used = 0
  /\ nf_free_cnt = 0
  /\ nf_pool = InitPool(NENTRIES)

\* Mutant: the flag of the first descriptor of the burst is looked at.
NfMayTakeFirst == rxd_flags[nf_rx_used] = USED_FLAG

\* The last descriptor of the burst decides for all of them.
NfMayTake == rxd_flags[Wrap(nf_rx_used + nf_num - 1)] = USED_FLAG

NfTake ==
  /\ nf_pc = "poll"
  /\ NfMayTake
  /\ nf_bufs' = [j \in 1 .. nf_num |-> rxd_buf[Wrap(nf_rx_used + j - 1)]]
  /\ nf_rx_used' = Wrap(nf_rx_used + nf_num)
  /\ nf_shadow' = nf_rx_avail
  /\ nf_i' = 0
  /\ nf_pc' = "refill"
  /\ UNCHANGED <<nf_counter, nf_prev, nf_num, nf_rx_avail, nf_tx_avail,
                 nf_tx_used, nf_free_cnt, nf_pool, shmVars>>

\* num >>= 1; when nothing is left the main loop starts over with a full burst.
NfHalve ==
  /\ nf_pc = "poll"
  /\ ~NfMayTake
  /\ nf_num' = IF nf_num > 1 THEN nf_num \div 2 ELSE RecvMax
  /\ UNCHANGED <<nf_pc, nf_counter, nf_prev, nf_i, nf_bufs, nf_shadow, nf_rx_avail,
                 nf_rx_used, nf_tx_avail, nf_tx_used, nf_free_cnt, nf_pool, shmVars>>

NfRefill ==
  /\ nf_pc = "refill"
  /\ CanAlloc(nf_pool)
  /\ rxd_buf' = [rxd_buf EXCEPT ![nf_rx_avail] = AllocIdx(nf_pool)]
  /\ nf_pool' = AfterAlloc(nf_pool)
  /\ nf_rx_avail' = Wrap(nf_rx_avail + 1)
  /\ IF nf_i + 1 < nf_num
       THEN nf_i' = nf_i + 1 /\ UNCHANGED nf_pc
       ELSE nf_i' = 0 /\ nf_pc' = "offer"
  /\ UNCHANGED <<nf_counter, nf_prev, nf_num, nf_bufs, nf_shadow, nf_rx_used,
                 nf_tx_avail, nf_tx_used, nf_free_cnt, rxd_flags, txd_flags,
                 txd_buf, pktmem, is_start, is_end>>

NfExhausted ==
  /\ nf_pc = "refill"
  /\ ~CanAlloc(nf_pool)
  /\ nf_pc' = "exhausted"
  /\ UNCHANGED <<nf_counter, nf_prev, nf_num, nf_i, nf_bufs, nf_shadow, nf_rx_avail,
                 nf_rx_used, nf_tx_avail, nf_tx_used, nf_free_cnt, nf_pool, shmVars>>

\* Mutant: the flags are raised from last_avail_idx on, not from its shadow.
NfOfferSlotAhead == Wrap(nf_rx_avail + nf_i)

\* The descriptor whose flag goes up next.
NfOfferSlot == Wrap(nf_shadow + nf_i)

\* The flags go up in order; after the last one vio_recv_pkts has returned.
NfOffer ==
  /\ nf_pc = "offer"
  /\ rxd_flags' = [rxd_flags EXCEPT ![NfOfferSlot] = AVAIL_FLAG]
  /\ IF nf_i + 1 < nf_num
       THEN nf_i' = nf_i + 1 /\ UNCHANGED <<nf_pc, nf_counter>>
       ELSE nf_i' = 0 /\ nf_pc' = "check" /\ nf_counter' = nf_counter + nf_num
  /\ UNCHANGED <<nf_prev, nf_num, nf_bufs, nf_shadow, nf_rx_avail, nf_rx_used,
                 nf_tx_avail, nf_tx_used, nf_free_cnt, nf_pool, rxd_buf,
                 txd_flags, txd_buf, pktmem, is_start, is_end>>

NfCheck ==
  /\ nf_pc = "check"
  /\ nf_prev' = pktmem[nf_bufs[nf_i + 1]]
  /\ IF nf_i + 1 < nf_num
       THEN nf_i' = nf_i + 1 /\ UNCHANGED nf_pc
       ELSE nf_i' = 0 /\ nf_pc' = "xmit"
  /\ UNCHANGED <<nf_counter, nf_num, nf_bufs, nf_shadow, nf_rx_avail, nf_rx_used,
                 nf_tx_avail, nf_tx_used, nf_free_cnt, nf_pool, shmVars>>

\* Mutant: the flag of the first descriptor of the batch is looked at.
NfMayXmitFirst == txd_flags[nf_tx_used] = USED_FLAG

(***************************************************************************)
(* vio_xmit_pkts sends the whole batch or nothing.  While the last         *)
(* descriptor it needs is not used it returns 0 and nf.c calls it again.   *)
(***************************************************************************)
NfMayXmit == txd_flags[Wrap(nf_tx_used + nf_num - 1)] = USED_FLAG

NfXmit ==
  /\ nf_pc = "xmit"
  /\ NfMayXmit
  /\ nf_shadow' = nf_tx_avail
  /\ nf_pc' = IF nf_num > nf_free_cnt THEN "cleanup" ELSE "put"
  /\ UNCHANGED <<nf_counter, nf_prev, nf_num, nf_i, nf_bufs, nf_rx_avail, nf_rx_used,
                 nf_tx_avail, nf_tx_used, nf_free_cnt, nf_pool, shmVars>>

(***************************************************************************)
(* One iteration of virtio_xmit_cleanup: the buffer of the descriptor, if  *)
(* it has one, goes back to the pool.  After the last iteration the        *)
(* descriptors count as free, and the batch is put if they are enough.     *)
(***************************************************************************)
NfCleanup ==
  LET b     == txd_buf[nf_tx_used]
      last  == nf_i + 1 = nf_num - nf_free_cnt
      count == IF last THEN nf_free_cnt + nf_i + 1 ELSE nf_free_cnt
  IN /\ nf_pc = "cleanup"
     /\ nf_pool' = IF b = NoBuf THEN nf_pool ELSE AfterFree(nf_pool, b)
     /\ nf_tx_used' = Wrap(nf_tx_used + 1)
     /\ nf_i' = IF last THEN 0 ELSE nf_i + 1
     /\ nf_free_cnt' = count
     /\ nf_pc' = IF b # NoBuf /\ ~CanFree(nf_pool) THEN "failed"
                 ELSE IF Overrun(nf_pool') THEN "overrun"
                 ELSE IF ~last THEN "cleanup"
                 ELSE IF nf_num > count THEN "xmit" ELSE "put"
     /\ UNCHANGED <<nf_counter, nf_prev, nf_num, nf_bufs, nf_shadow, nf_rx_avail,
                    nf_rx_used, nf_tx_avail, shmVars>>

\* Mutant: vq_free_cnt is not counted down.
NfPutUncounted ==
  /\ nf_pc = "put"
  /\ txd_buf' = [txd_buf EXCEPT ![nf_tx_avail] = nf_bufs[nf_i + 1]]
  /\ nf_tx_avail' = Wrap(nf_tx_avail + 1)
  /\ IF nf_i + 1 < nf_num
       THEN nf_i' = nf_i + 1 /\ UNCHANGED nf_pc
       ELSE nf_i' = 0 /\ nf_pc' = "publish"
  /\ UNCHANGED <<nf_counter, nf_prev, nf_num, nf_bufs, nf_shadow, nf_rx_avail,
                 nf_rx_used, nf_tx_used, nf_free_cnt, nf_pool, rxd_flags, rxd_buf,
                 txd_flags, pktmem, is_start, is_end>>

NfPut ==
  /\ nf_pc = "put"
  /\ txd_buf' = [txd_buf EXCEPT ![nf_tx_avail] = nf_bufs[nf_i + 1]]
  /\ nf_tx_avail' = Wrap(nf_tx_avail + 1)
  /\ nf_free_cnt' = nf_free_cnt - 1
  /\ IF nf_i + 1 < nf_num
       THEN nf_i' = nf_i + 1 /\ UNCHANGED nf_pc
       ELSE nf_i' = 0 /\ nf_pc' = "publish"
  /\ UNCHANGED <<nf_counter, nf_prev, nf_num, nf_bufs, nf_shadow, nf_rx_avail,
                 nf_rx_used, nf_tx_used, nf_pool, rxd_flags, rxd_buf, txd_flags,
                 pktmem, is_start, is_end>>

\* After the last flag nf.c polls again, or waits for tx.out to finish.
NfPublish ==
  /\ nf_pc = "publish"
  /\ txd_flags' = [txd_flags EXCEPT ![Wrap(nf_shadow + nf_i)] = AVAIL_FLAG]
  /\ IF nf_i + 1 < nf_num
       THEN /\ nf_i' = nf_i + 1
            /\ UNCHANGED <<nf_pc, nf_num, nf_bufs>>
       ELSE /\ nf_i' = 0
            /\ nf_num' = RecvMax
            /\ nf_bufs' = <<>>
            /\ nf_pc' = IF nf_counter >= PKT_NUM THEN "wait" ELSE "poll"
  /\ UNCHANGED <<nf_counter, nf_prev, nf_shadow, nf_rx_avail, nf_rx_used,
                 nf_tx_avail, nf_tx_used, nf_free_cnt, nf_pool, rxd_flags,
                 rxd_buf, txd_buf, pktmem, is_start, is_end>>

NfExit ==
  /\ nf_pc = "wait"
  /\ is_end
  /\ nf_pc' = "done"
  /\ UNCHANGED <<nf_counter, nf_prev, nf_num, nf_i, nf_bufs, nf_shadow, nf_rx_avail,
                 nf_rx_used, nf_tx_avail, nf_tx_used, nf_free_cnt, nf_pool, shmVars>>

NfNext ==
  \/ NfTake
  \/ NfHalve
  \/ NfRefill
  \/ NfExhausted
  \/ NfOffer
  \/ NfCheck
  \/ NfXmit
  \/ NfCleanup
  \/ NfPut
  \/ NfPublish
  \/ NfExit
=============================================================================
