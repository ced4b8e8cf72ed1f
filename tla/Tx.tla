-------------------------------- MODULE Tx ----------------------------------
(***************************************************************************)
(* tx.out (src/tx.c): copies packets out of the TX queue into its own      *)
(* buffers with vhost_dequeue_burst (lib/vnwio/vhost.h), gives the         *)
(* descriptors back and verifies the packets (developer_mode).  It raises  *)
(* the start flag when it is ready and the end flag after the last packet. *)
(*                                                                         *)
(* Program points (tx_pc):                                                 *)
(*   start    before *is_start = true                                      *)
(*   poll     the do-while of vhost_dequeue_burst                          *)
(*   copy     the memcpy loop of vhost_tx_batch                            *)
(*   release  its flag loop, after the fence                               *)
(*   check    check_pkt on every packet of the batch                       *)
(***************************************************************************)
EXTENDS Shm

VARIABLES
  tx_pc,
  tx_counter, tx_prev,   \* pkt_counter, prev_pkt_id
  tx_count, tx_i,        \* batchsz of the burst (then nb_rx), loop index
  tx_bufs,               \* buf_idxs, dead after the copy
  tx_pkts,               \* the packets in tx.out's own buffers, in batch order
  tx_last_avail          \* cursor of vq_tx

txVars == <<tx_pc, tx_counter, tx_prev, tx_count, tx_i, tx_bufs, tx_pkts, tx_last_avail>>

TxInit ==
  /\ tx_pc = "start"
  /\ tx_counter = 0 /\ tx_prev = 0
  /\ tx_count = BATCH_SIZE /\ tx_i = 0
  /\ tx_bufs = <<>> /\ tx_pkts = <<>>
  /\ tx_last_avail = 0

TxStart ==
  /\ tx_pc = "start"
  /\ is_start' = TRUE
  /\ tx_pc' = "poll"
  /\ UNCHANGED <<tx_counter, tx_prev, tx_count, tx_i, tx_bufs, tx_pkts, tx_last_avail,
                 rxd_flags, rxd_buf, txd_flags, txd_buf, pktmem, is_end>>

\* Mutant: the flag of the first descriptor of the batch is looked at.
TxMayClaimFirst ==
  /\ txd_flags[tx_last_avail] = AVAIL_FLAG
  /\ Contiguous(tx_last_avail, tx_count)

\* Mutant: last_avail_idx + batchsz instead of last_avail_idx + batchsz - 1.
TxMayClaimPast ==
  /\ txd_flags[Wrap(tx_last_avail + tx_count)] = AVAIL_FLAG
  /\ Contiguous(tx_last_avail, tx_count)

\* The last descriptor of the batch decides, and the batch must be contiguous.
TxMayClaim ==
  /\ txd_flags[Wrap(tx_last_avail + tx_count - 1)] = AVAIL_FLAG
  /\ Contiguous(tx_last_avail, tx_count)

TxClaim ==
  /\ tx_pc = "poll"
  /\ TxMayClaim
  /\ tx_bufs' = [j \in 1 .. tx_count |-> txd_buf[tx_last_avail + j - 1]]
  /\ tx_i' = 0
  /\ tx_pc' = "copy"
  /\ UNCHANGED <<tx_counter, tx_prev, tx_count, tx_pkts, tx_last_avail, shmVars>>

\* batchsz >>= 1; when nothing is left the main loop starts a full burst again.
TxHalve ==
  /\ tx_pc = "poll"
  /\ ~TxMayClaim
  /\ tx_count' = IF tx_count > 1 THEN tx_count \div 2 ELSE BATCH_SIZE
  /\ UNCHANGED <<tx_pc, tx_counter, tx_prev, tx_i, tx_bufs, tx_pkts, tx_last_avail, shmVars>>

TxCopy ==
  /\ tx_pc = "copy"
  /\ tx_pkts' = Append(tx_pkts, pktmem[tx_bufs[tx_i + 1]])
  /\ IF tx_i + 1 < tx_count
       THEN tx_i' = tx_i + 1 /\ UNCHANGED <<tx_pc, tx_bufs>>
       ELSE tx_i' = 0 /\ tx_pc' = "release" /\ tx_bufs' = <<>>
  /\ UNCHANGED <<tx_counter, tx_prev, tx_count, tx_last_avail, shmVars>>

TxRelease ==
  /\ tx_pc = "release"
  /\ txd_flags' = [txd_flags EXCEPT ![tx_last_avail + tx_i] = USED_FLAG]
  /\ IF tx_i + 1 < tx_count
       THEN /\ tx_i' = tx_i + 1
            /\ UNCHANGED <<tx_pc, tx_counter, tx_last_avail>>
       ELSE /\ tx_i' = 0
            /\ tx_last_avail' = Wrap(tx_last_avail + tx_count)
            /\ tx_counter' = tx_counter + tx_count
            /\ tx_pc' = "check"
  /\ UNCHANGED <<tx_prev, tx_count, tx_bufs, tx_pkts, rxd_flags, rxd_buf,
                 txd_buf, pktmem, is_start, is_end>>

\* After the last check tx.out polls again, or raises the end flag and stops.
TxCheck ==
  /\ tx_pc = "check"
  /\ tx_prev' = tx_pkts[tx_i + 1]
  /\ IF tx_i + 1 < tx_count
       THEN /\ tx_i' = tx_i + 1
            /\ UNCHANGED <<tx_pc, tx_count, tx_pkts, is_end>>
       ELSE /\ tx_i' = 0
            /\ tx_count' = BATCH_SIZE
            /\ tx_pkts' = <<>>
            /\ IF tx_counter >= PKT_NUM
                 THEN is_end' = TRUE /\ tx_pc' = "done"
                 ELSE tx_pc' = "poll" /\ UNCHANGED is_end
  /\ UNCHANGED <<tx_counter, tx_bufs, tx_last_avail, rxd_flags, rxd_buf,
                 txd_flags, txd_buf, pktmem, is_start>>

TxNext ==
  \/ TxStart
  \/ TxClaim
  \/ TxHalve
  \/ TxCopy
  \/ TxRelease
  \/ TxCheck
=============================================================================
