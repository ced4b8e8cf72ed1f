---------------------------- MODULE PipelineInv -----------------------------
(***************************************************************************)
(* The inductive invariant of the pipeline.                                *)
(***************************************************************************)
EXTENDS PipelineRefines

\* A round of rx.out: the burst is part of what is left of the batch.
RxBurst ==
  rx_pc \in {"probe", "copy", "publish"} =>
    /\ rx_nb \in 1 .. PKT_NUM - rx_counter
    /\ rx_count \in 1 .. rx_nb - rx_sent

\* The two cursors of rx.out are a batch apart, and the batch is contiguous.
RxCursors ==
  IF rx_pc \in {"copy", "publish"}
    THEN /\ rx_i < rx_count
         /\ rx_last_used + rx_count <= NENTRIES
         /\ rx_last_avail = Wrap(rx_last_used + rx_count)
         /\ rx_pc = "copy" => Len(rx_bufs) = rx_count
    ELSE rx_last_avail = rx_last_used

NfIndex ==
  /\ nf_pc \in {"poll", "xmit"} => nf_i = 0
  /\ nf_pc \in {"refill", "exhausted", "offer", "check", "cleanup", "put", "publish"}
       => nf_i < nf_num
  /\ nf_pc \in {"refill", "exhausted", "offer", "check", "xmit", "cleanup", "put", "publish"}
       => Len(nf_bufs) = nf_num

\* lai_shadow is where the batch of RX descriptors in work begins.
NfRxCursors ==
  IF nf_pc \in {"refill", "exhausted"}
    THEN /\ nf_rx_avail = Wrap(nf_shadow + nf_i)
         /\ nf_rx_used = Wrap(nf_shadow + nf_num)
  ELSE IF nf_pc = "offer"
    THEN /\ nf_rx_avail = Wrap(nf_shadow + nf_num)
         /\ nf_rx_used = nf_rx_avail
  ELSE nf_rx_used = nf_rx_avail

\* lai_shadow is where the batch of TX descriptors in work begins.
NfTxCursors ==
  IF nf_pc \in {"cleanup", "failed", "overrun"}
    THEN nf_pc = "cleanup" => /\ nf_free_cnt = 0
                              /\ nf_shadow = nf_tx_avail
                              /\ nf_tx_used = Wrap(nf_shadow + nf_i)
  ELSE IF nf_pc = "put"
    THEN /\ nf_free_cnt = nf_num - nf_i
         /\ nf_tx_avail = Wrap(nf_shadow + nf_i)
         /\ nf_tx_used = Wrap(nf_shadow + nf_num)
  ELSE /\ nf_free_cnt = 0
       /\ nf_tx_used = nf_tx_avail
       /\ nf_pc = "publish" => nf_tx_avail = Wrap(nf_shadow + nf_num)

\* An AVAIL descriptor of the TX queue carries a buffer, and so does one that
\* nf.out has put and not published yet.
NfPutSoFar == IF nf_pc = "put" THEN nf_i ELSE IF nf_pc = "publish" THEN nf_num ELSE 0

TxdCarries ==
  \A s \in Slots : txd_flags[s] = AVAIL_FLAG \/ s \in Window(nf_shadow, NfPutSoFar)
                     => txd_buf[s] \in Objs

TxBurst ==
  /\ tx_pc \in {"copy", "release", "check"} => tx_i < tx_count
  /\ tx_pc \in {"copy", "release"} => tx_last_avail + tx_count <= NENTRIES
  /\ tx_pc = "copy" => Len(tx_bufs) = tx_count
  /\ Len(tx_pkts) = IF tx_pc = "copy" THEN tx_i
                    ELSE IF tx_pc \in {"release", "check"} THEN tx_count ELSE 0

RxdShared == SharedOut(rxd_flags, RxFlip, NfRxFlip, RxLeft, NfRxLeft)
TxdShared == SharedOut(txd_flags, TxFlip, NfTxFlip, TxLeft, NfTxLeft)

(***************************************************************************)
(* Type correctness, the cursors and indices of the three processes, and   *)
(* for each queue how its flags are shared out between the two cursors     *)
(* (nf.c, rx.c, tx.c with vhost.h and vio.h).                              *)
(***************************************************************************)
IInv ==
  /\ TypeOK
  /\ RxBurst /\ RxCursors
  /\ NfIndex /\ NfRxCursors /\ NfTxCursors
  /\ TxBurst /\ TxdCarries
  /\ RxdShared /\ TxdShared
=============================================================================
