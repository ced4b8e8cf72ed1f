-------------------------------- MODULE Rx ----------------------------------
(***************************************************************************)
(* rx.out (src/rx.c): generates the packets 1 .. PKT_NUM in batches and    *)
(* puts them into the RX queue with vhost_enqueue_burst (lib/vnwio/        *)
(* vhost.h).  A burst that finds no room is tried once more and what is    *)
(* still left is generated again, with the same ids, in the next round.    *)
(*                                                                         *)
(* Program points (rx_pc):                                                 *)
(*   spin      while (!*is_start)                                          *)
(*   generate  the head of the for loop                                    *)
(*   probe     the do-while of vhost_enqueue_burst                         *)
(*   copy      the memcpy loop of vhost_rx_batch                           *)
(*   publish   its flag loop, after the release fence                      *)
(***************************************************************************)
EXTENDS Shm

VARIABLES
  rx_pc,
  rx_counter,                    \* pkt_counter
  rx_nb, rx_sent,                \* nb_rx and nb_tx of the current round
  rx_second,                     \* in the second vhost_enqueue_burst of the round
  rx_count, rx_i,                \* count of the burst, loop index
  rx_bufs,                       \* buf_idxs, dead after the copy
  rx_last_avail, rx_last_used    \* cursors of rx.out's own struct vioqueue

rxVars == <<rx_pc, rx_counter, rx_nb, rx_sent, rx_second, rx_count, rx_i,
            rx_bufs, rx_last_avail, rx_last_used>>

RxInit ==
  /\ rx_pc = "spin"
  /\ rx_counter = 0
  /\ rx_nb = 0 /\ rx_sent = 0
  /\ rx_second = FALSE
  /\ rx_count = 0 /\ rx_i = 0
  /\ rx_bufs = <<>>
  /\ rx_last_avail = 0 /\ rx_last_used = 0

RxStart ==
  /\ rx_pc = "spin"
  /\ is_start
  /\ rx_pc' = "generate"
  /\ UNCHANGED <<rx_counter, rx_nb, rx_sent, rx_second, rx_count, rx_i,
                 rx_bufs, rx_last_avail, rx_last_used, shmVars>>

\* Mutant: a last batch that is not cut down to the packets left.
RxFreshWhole == BATCH_SIZE

\* One batch of fresh packets: as many as are left, at most batch_size.
RxFresh == IF BATCH_SIZE <= PKT_NUM - rx_counter THEN BATCH_SIZE ELSE PKT_NUM - rx_counter

RxGenerate ==
  /\ rx_pc = "generate"
  /\ rx_counter < PKT_NUM
  /\ rx_nb' = RxFresh
  /\ rx_count' = rx_nb'
  /\ rx_sent' = 0
  /\ rx_second' = FALSE
  /\ rx_pc' = "probe"
  /\ UNCHANGED <<rx_counter, rx_i, rx_bufs, rx_last_avail, rx_last_used, shmVars>>

RxExit ==
  /\ rx_pc = "generate"
  /\ rx_counter >= PKT_NUM
  /\ rx_pc' = "done"
  /\ UNCHANGED <<rx_counter, rx_nb, rx_sent, rx_second, rx_count, rx_i,
                 rx_bufs, rx_last_avail, rx_last_used, shmVars>>

\* Mutant: the flag of the first descriptor of the batch is looked at.
RxMayClaimFirst ==
  /\ rxd_flags[rx_last_avail] = AVAIL_FLAG
  /\ Contiguous(rx_last_avail, rx_count)

(***************************************************************************)
(* vhost_enqueue_burst looks at the flag of the last descriptor of the     *)
(* batch only, and asks vhost_rx_batch, which refuses a batch that is not  *)
(* contiguous.                                                             *)
(***************************************************************************)
RxMayClaim ==
  /\ rxd_flags[Wrap(rx_last_avail + rx_count - 1)] = AVAIL_FLAG
  /\ Contiguous(rx_last_avail, rx_count)

RxClaim ==
  /\ rx_pc = "probe"
  /\ RxMayClaim
  /\ rx_bufs' = [j \in 1 .. rx_count |-> rxd_buf[rx_last_avail + j - 1]]
  /\ rx_last_avail' = Wrap(rx_last_avail + rx_count)
  /\ rx_i' = 0
  /\ rx_pc' = "copy"
  /\ UNCHANGED <<rx_counter, rx_nb, rx_sent, rx_second, rx_count, rx_last_used, shmVars>>

RxHalve ==
  /\ rx_pc = "probe"
  /\ ~RxMayClaim
  /\ rx_count > 1
  /\ rx_count' = rx_count \div 2
  /\ UNCHANGED <<rx_pc, rx_counter, rx_nb, rx_sent, rx_second, rx_i,
                 rx_bufs, rx_last_avail, rx_last_used, shmVars>>

\* Mutant: pkt_counter += nb_rx, as if nothing were ever left of a batch.
RxBurstReturnsAll(sent) ==
  /\ rx_sent' = sent
  /\ IF sent < rx_nb /\ ~rx_second
       THEN /\ rx_second' = TRUE
            /\ rx_count' = rx_nb - sent
            /\ rx_pc' = "probe"
            /\ UNCHANGED rx_counter
       ELSE /\ rx_counter' = rx_counter + rx_nb
            /\ rx_pc' = "generate"
            /\ UNCHANGED <<rx_second, rx_count>>

(***************************************************************************)
(* A burst that put `sent' packets of the round in total returns: the      *)
(* second burst takes the rest of the batch, and the round ends after it   *)
(* or when nothing is left.  The host buffers are freed either way.        *)
(***************************************************************************)
RxBurstReturns(sent) ==
  /\ rx_sent' = sent
  /\ IF sent < rx_nb /\ ~rx_second
       THEN /\ rx_second' = TRUE
            /\ rx_count' = rx_nb - sent
            /\ rx_pc' = "probe"
            /\ UNCHANGED rx_counter
       ELSE /\ rx_counter' = rx_counter + sent
            /\ rx_pc' = "generate"
            /\ UNCHANGED <<rx_second, rx_count>>

RxGiveUp ==
  /\ rx_pc = "probe"
  /\ ~RxMayClaim
  /\ rx_count = 1
  /\ RxBurstReturns(rx_sent)
  /\ UNCHANGED <<rx_nb, rx_i, rx_bufs, rx_last_avail, rx_last_used, shmVars>>

\* Mutant: the second burst is given &mbptrs[0] instead of &mbptrs[nb_tx].
RxPktIdFromStart == rx_counter + rx_i + 1

\* The id of the packet that is copied next.
RxPktId == rx_counter + rx_sent + rx_i + 1

\* memcpy of the next packet of the batch into the buffer of its descriptor.
RxCopy ==
  /\ rx_pc = "copy"
  /\ pktmem' = [pktmem EXCEPT ![rx_bufs[rx_i + 1]] = RxPktId]
  /\ IF rx_i + 1 < rx_count
       THEN rx_i' = rx_i + 1 /\ UNCHANGED <<rx_pc, rx_bufs>>
       ELSE rx_i' = 0 /\ rx_pc' = "publish" /\ rx_bufs' = <<>>
  /\ UNCHANGED <<rx_counter, rx_nb, rx_sent, rx_second, rx_count, rx_last_avail,
                 rx_last_used, rxd_flags, rxd_buf, txd_flags, txd_buf, is_start, is_end>>

RxPublish ==
  /\ rx_pc = "publish"
  /\ rxd_flags' = [rxd_flags EXCEPT ![rx_last_used + rx_i] = USED_FLAG]
  /\ IF rx_i + 1 < rx_count
       THEN /\ rx_i' = rx_i + 1
            /\ UNCHANGED <<rx_pc, rx_counter, rx_sent, rx_second, rx_count, rx_last_used>>
       ELSE /\ rx_i' = 0
            /\ rx_last_used' = Wrap(rx_last_used + rx_count)
            /\ RxBurstReturns(rx_sent + rx_count)
  /\ UNCHANGED <<rx_nb, rx_bufs, rx_last_avail, rxd_buf, txd_flags, txd_buf,
                 pktmem, is_start, is_end>>

RxNext ==
  \/ RxStart
  \/ RxGenerate
  \/ RxExit
  \/ RxClaim
  \/ RxHalve
  \/ RxGiveUp
  \/ RxCopy
  \/ RxPublish
=============================================================================
