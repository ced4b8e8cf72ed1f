----------------------------- MODULE PacketInv ------------------------------
(***************************************************************************)
(* Where the packets are: the counters of the three processes say which    *)
(* ids the descriptors of both queues, the batch of nf.out and the copies  *)
(* of tx.out hold.                                                         *)
(***************************************************************************)
EXTENDS SizedPool

\* How many packets each process has passed on: the last id that has gone by.
RxSent     == FlowSent
NfTaken    == nf_counter + (IF nf_pc \in {"refill", "offer"} THEN nf_num ELSE 0)
NfSent     == IF nf_pc \in {"check", "xmit", "cleanup", "put"} THEN nf_counter - nf_num
              ELSE IF nf_pc = "publish" THEN nf_counter - nf_num + nf_i ELSE nf_counter
TxReleased == tx_counter + (IF tx_pc = "release" THEN tx_i ELSE 0)

\* The packets in the RX queue and in the TX queue.
InRxq == RxSent - NfTaken
InTxq == NfSent - TxReleased

\* Put into TX descriptors and not published yet.
NfUnpublished == IF nf_pc = "put" THEN nf_i
                 ELSE IF nf_pc = "publish" THEN nf_num - nf_i ELSE 0

\* The USED descriptors are those of the packets, and those nf.out refills.
RxqHolds ==
  /\ InRxq \in 0 .. NENTRIES - NfRxLeft
  /\ RxFlip = Wrap(nf_rx_used + InRxq)
  /\ \A s \in Slots : rxd_flags[s] = USED_FLAG <=>
       Ahead(s, nf_rx_used) < InRxq \/ Ahead(s, nf_rx_used) >= NENTRIES - NfRxLeft
  /\ \A s \in Slots : Ahead(s, nf_rx_used) < InRxq =>
       pktmem[rxd_buf[s]] = NfTaken + 1 + Ahead(s, nf_rx_used)

\* What rx.out has copied and not published.
RxHolds ==
  /\ rx_pc = "copy" =>
       \A j \in 1 .. rx_count : rx_bufs[j] = rxd_buf[rx_last_used + j - 1]
  /\ rx_pc \in {"copy", "publish"} =>
       \A j \in 1 .. rx_count : (IF rx_pc = "copy" THEN j <= rx_i ELSE j > rx_i) =>
         pktmem[rxd_buf[rx_last_used + j - 1]] = rx_counter + rx_sent + j

\* The batch of nf.out, in mbptrs and then in the TX descriptors from shadow on.
NfHolds ==
  /\ \A k \in InBatch : pktmem[nf_bufs[k]] = NfTaken - nf_num + k
  /\ nf_pc \in {"put", "publish"} =>
       \A k \in 1 .. NfPutSoFar : txd_buf[Wrap(nf_shadow + k - 1)] = nf_bufs[k]
  /\ nf_prev = IF nf_pc = "check" THEN nf_counter - nf_num + nf_i ELSE nf_counter

TxqHolds ==
  /\ InTxq \in 0 .. NENTRIES - NfTxLeft
  /\ NfTxFlip = Wrap(TxFlip + InTxq)
  /\ \A s \in Slots : txd_flags[s] = AVAIL_FLAG <=> Ahead(s, TxFlip) < InTxq
  /\ \A s \in Slots : Ahead(s, TxFlip) < InTxq + NfUnpublished =>
       pktmem[txd_buf[s]] = TxReleased + 1 + Ahead(s, TxFlip)

\* What tx.out has copied, and checked.
TxHolds ==
  LET base == IF tx_pc = "check" THEN tx_counter - tx_count ELSE tx_counter
  IN  /\ tx_pc = "copy" =>
           \A j \in 1 .. tx_count : tx_bufs[j] = txd_buf[tx_last_avail + j - 1]
      /\ \A j \in 1 .. Len(tx_pkts) : tx_pkts[j] = base + j
      /\ tx_prev = IF tx_pc = "check" THEN base + tx_i ELSE base

(***************************************************************************)
(* Every id is where the counters say, in buffers that change hands twice  *)
(* and are recycled (rx.c, nf.c, tx.c with vhost.h and vio.h).             *)
(***************************************************************************)
FlowInv == RxqHolds /\ RxHolds /\ NfHolds /\ TxqHolds /\ TxHolds
=============================================================================
