-------------------------- MODULE PipelineRefines ---------------------------
(***************************************************************************)
(* The refinement mappings of the pipeline: each of its two queues onto    *)
(* DescRing, and the whole onto PacketFlow.                                *)
(***************************************************************************)
EXTENDS Pipeline

RxRing == INSTANCE DescRing WITH
  flags <- rxd_flags, host <- RxFlip, guest <- NfRxFlip

TxRing == INSTANCE DescRing WITH
  flags <- txd_flags, host <- TxFlip, guest <- NfTxFlip

(***************************************************************************)
(* The packets of n descriptors from cursor c on.                          *)
(***************************************************************************)
Packets(bufs, c, n) == [k \in 1 .. n |-> pktmem[bufs[Wrap(c + k - 1)]]]
Marked(flags, f)    == Cardinality({s \in Slots : flags[s] = f})

\* Published by rx.out: the flag loop counts one by one.
FlowSent == rx_counter
              + (IF rx_pc \in {"probe", "copy", "publish"} THEN rx_sent ELSE 0)
              + (IF rx_pc = "publish" THEN rx_i ELSE 0)

\* Published and not taken by nf.out.
FlowRxq == Packets(rxd_buf, nf_rx_used, Marked(rxd_flags, USED_FLAG) - NfRxLeft)

\* Taken and not published by nf.out.
FlowBatch ==
  IF nf_pc \in {"poll", "wait", "done"} THEN <<>>
  ELSE LET gone == IF nf_pc = "publish" THEN nf_i ELSE 0
       IN  [k \in 1 .. nf_num - gone |-> pktmem[nf_bufs[gone + k]]]

\* Published by nf.out and not copied by tx.out, which copies before it releases.
FlowTxq ==
  LET copied == IF tx_pc = "copy" THEN tx_i
                ELSE IF tx_pc = "release" THEN TxLeft ELSE 0
  IN  Packets(txd_buf, Wrap(TxFlip + copied), Marked(txd_flags, AVAIL_FLAG) - copied)

FlowReceived == IF tx_pkts = <<>> THEN tx_prev ELSE tx_pkts[Len(tx_pkts)]

Flow == INSTANCE PacketFlow WITH
  PACKETS <- PKT_NUM, ROOM <- NENTRIES, MAX_BATCH <- RecvMax,
  sent <- FlowSent, rxq <- FlowRxq, batch <- FlowBatch, txq <- FlowTxq,
  received <- FlowReceived

(***************************************************************************)
(* The batched flag protocol of vhost.h and vio.h on the RX queue hands    *)
(* the descriptors over one by one in circular order.                      *)
(***************************************************************************)
RxRingImplemented == RxRing!RingSpec

(***************************************************************************)
(* The same of the TX queue, where the guest reclaims a batch of used      *)
(* descriptors when it sends the next one and not when it is told.         *)
(***************************************************************************)
TxRingImplemented == TxRing!RingSpec

(***************************************************************************)
(* Packets cross the two queues and the zero-copy forwarding of nf.out     *)
(* exactly once, in order and unaltered: what a receiver finds in the      *)
(* shared buffers are the queues of PacketFlow.                            *)
(***************************************************************************)
FlowImplemented == Flow!FlowSpec
=============================================================================
