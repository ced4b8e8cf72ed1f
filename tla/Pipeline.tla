------------------------------ MODULE Pipeline ------------------------------
(***************************************************************************)
(* The three processes of EIVU on one shared memory segment:               *)
(*                                                                         *)
(*    rx.out --- RX vioqueue --> nf.out --- TX vioqueue --> tx.out         *)
(*                                                                         *)
(* An action is one access to a flag word, or one packet copied or one     *)
(* descriptor filled by the process that owns it at that time, together    *)
(* with the private computation around it.                                 *)
(***************************************************************************)
EXTENDS Rx, Nf, Tx, FiniteSets

vars == <<shmVars, rxVars, nfVars, txVars>>

Init == ShmInit /\ RxInit /\ NfInit /\ TxInit

RxStep == RxNext /\ UNCHANGED <<nfVars, txVars>>
NfStep == NfNext /\ UNCHANGED <<rxVars, txVars>>
TxStep == TxNext /\ UNCHANGED <<rxVars, nfVars>>

Finished == rx_pc = "done" /\ nf_pc = "done" /\ tx_pc = "done"
Terminating == Finished /\ UNCHANGED vars

Next == RxStep \/ NfStep \/ TxStep \/ Terminating

Spec == Init /\ [][Next]_vars

(***************************************************************************)
(* Each process is bound to a core of its own (bind_core) and spins, so    *)
(* none of them stops while it can take a step.                            *)
(***************************************************************************)
Fairness == WF_vars(RxStep) /\ WF_vars(NfStep) /\ WF_vars(TxStep)
FairSpec == Spec /\ Fairness
-----------------------------------------------------------------------------
(***************************************************************************)
(* Types.                                                                  *)
(***************************************************************************)
Cursor == 0 .. NENTRIES - 1

ShmTypeOK ==
  /\ rxd_flags \in [Slots -> Flags]
  /\ rxd_buf \in [Slots -> Objs]
  /\ txd_flags \in [Slots -> Flags]
  /\ txd_buf \in [Slots -> Objs \cup {NoBuf}]
  /\ pktmem \in [Objs -> Ids]
  /\ is_start \in BOOLEAN
  /\ is_end \in BOOLEAN

RxTypeOK ==
  /\ rx_pc \in {"spin", "generate", "probe", "copy", "publish", "done"}
  /\ rx_counter \in 0 .. PKT_NUM
  /\ rx_nb \in 0 .. BATCH_SIZE
  /\ rx_sent \in 0 .. BATCH_SIZE
  /\ rx_second \in BOOLEAN
  /\ rx_count \in 0 .. BATCH_SIZE
  /\ rx_i \in 0 .. BATCH_SIZE
  /\ rx_bufs \in Seq(Objs)
  /\ rx_last_avail \in Cursor
  /\ rx_last_used \in Cursor

NfTypeOK ==
  /\ nf_pc \in {"poll", "refill", "offer", "check", "xmit", "cleanup", "put",
                "publish", "wait", "exhausted", "failed", "overrun", "done"}
  /\ nf_counter \in Nat
  /\ nf_prev \in Ids
  /\ nf_num \in 1 .. BATCH_SIZE
  /\ nf_i \in 0 .. BATCH_SIZE
  /\ nf_bufs \in Seq(Objs)
  /\ nf_shadow \in Cursor
  /\ nf_rx_avail \in Cursor
  /\ nf_rx_used \in Cursor
  /\ nf_tx_avail \in Cursor
  /\ nf_tx_used \in Cursor
  /\ nf_free_cnt \in 0 .. BATCH_SIZE
  /\ nf_pool \in [ring : Seq(Objs), rear : Nat, cache : Seq(Objs)]

TxTypeOK ==
  /\ tx_pc \in {"start", "poll", "copy", "release", "check", "done"}
  /\ tx_counter \in Nat
  /\ tx_prev \in Ids
  /\ tx_count \in 1 .. BATCH_SIZE
  /\ tx_i \in 0 .. BATCH_SIZE
  /\ tx_bufs \in Seq(Objs)
  /\ tx_pkts \in Seq(Ids)
  /\ tx_last_avail \in Cursor

TypeOK == ShmTypeOK /\ RxTypeOK /\ NfTypeOK /\ TxTypeOK
-----------------------------------------------------------------------------
(***************************************************************************)
(* Where each side flips its next descriptor, and how many descriptors it  *)
(* has claimed (seen the flag of the last one) and not flipped yet.        *)
(***************************************************************************)
RxFlip == IF rx_pc = "publish" THEN Wrap(rx_last_used + rx_i) ELSE rx_last_used
RxLeft == IF rx_pc = "copy" THEN rx_count
          ELSE IF rx_pc = "publish" THEN rx_count - rx_i ELSE 0

NfRxFlip == IF nf_pc \in {"refill", "exhausted"} THEN nf_shadow
            ELSE IF nf_pc = "offer" THEN Wrap(nf_shadow + nf_i) ELSE nf_rx_avail
NfRxLeft == IF nf_pc = "refill" THEN nf_num
            ELSE IF nf_pc = "offer" THEN nf_num - nf_i ELSE 0

NfTxFlip == IF nf_pc = "put" THEN nf_shadow
            ELSE IF nf_pc = "publish" THEN Wrap(nf_shadow + nf_i) ELSE nf_tx_avail
NfTxLeft == IF nf_pc \in {"cleanup", "put"} THEN nf_num
            ELSE IF nf_pc = "publish" THEN nf_num - nf_i ELSE 0

TxFlip == IF tx_pc = "release" THEN Wrap(tx_last_avail + tx_i) ELSE tx_last_avail
TxLeft == IF tx_pc = "copy" THEN tx_count
          ELSE IF tx_pc = "release" THEN tx_count - tx_i ELSE 0

RxClaimed   == Window(RxFlip, RxLeft)
NfRxClaimed == Window(NfRxFlip, NfRxLeft)
NfTxClaimed == Window(NfTxFlip, NfTxLeft)
TxClaimed   == Window(TxFlip, TxLeft)

(***************************************************************************)
(* No descriptor is worked on by both sides of its queue, although every   *)
(* side looks only at the flag of the last descriptor of a batch           *)
(* (vhost.h:108,196, vio.h:25,121): a descriptor claimed by the host side  *)
(* is AVAIL and one claimed by the guest side is USED.                     *)
(***************************************************************************)
DescExclusive ==
  /\ \A s \in RxClaimed : rxd_flags[s] = AVAIL_FLAG
  /\ \A s \in NfRxClaimed : rxd_flags[s] = USED_FLAG
  /\ \A s \in NfTxClaimed : txd_flags[s] = USED_FLAG
  /\ \A s \in TxClaimed : txd_flags[s] = AVAIL_FLAG
-----------------------------------------------------------------------------
(***************************************************************************)
(* The places that hold guest buffer b: the free pool, a descriptor of the *)
(* RX queue, the batch nf.out is working on, a descriptor of the TX queue. *)
(* A descriptor that nf.out has emptied and not refilled keeps an index    *)
(* that counts no more.                                                    *)
(***************************************************************************)
RxStale == IF nf_pc \in {"refill", "exhausted"}
             THEN Window(nf_rx_avail, nf_num - nf_i) ELSE {}
TxStale == IF nf_pc = "cleanup" THEN Window(nf_shadow, nf_i)
           ELSE IF nf_pc = "put" THEN Window(nf_tx_avail, nf_num - nf_i) ELSE {}
InBatch == IF nf_pc \in {"refill", "exhausted", "offer", "check", "xmit", "cleanup"}
             THEN 1 .. nf_num
           ELSE IF nf_pc = "put" THEN nf_i + 1 .. nf_num ELSE {}

InCache(b)  == {k \in DOMAIN nf_pool.cache : nf_pool.cache[k] = b}
InRing(b)   == {k \in DOMAIN nf_pool.ring : nf_pool.ring[k] = b}
InRxd(b)    == {s \in Slots \ RxStale : rxd_buf[s] = b}
InTaken(b)  == {k \in InBatch : nf_bufs[k] = b}
InTxd(b)    == {s \in Slots \ TxStale : txd_buf[s] = b}

Places(b) ==
       {<<"cache", k>> : k \in InCache(b)}
  \cup {<<"ring", k>> : k \in InRing(b)}
  \cup {<<"rxd", s>> : s \in InRxd(b)}
  \cup {<<"batch", k>> : k \in InTaken(b)}
  \cup {<<"txd", s>> : s \in InTxd(b)}

(***************************************************************************)
(* A guest buffer is in exactly one place at any time: it is never leaked, *)
(* freed twice, or handed out while a descriptor or the batch still refers *)
(* to it, although it crosses two queues without being copied.             *)
(***************************************************************************)
BufferOwnership ==
  nf_pc \notin {"failed", "overrun"} => \A b \in Objs : Cardinality(Places(b)) = 1

(***************************************************************************)
(* check_pkt (pkt.h:41) never complains, neither in nf.out nor in tx.out:  *)
(* every packet follows its predecessor, whatever the bursts, retries and  *)
(* recycled buffers on the way.                                            *)
(***************************************************************************)
InOrder ==
  /\ nf_pc = "check" => pktmem[nf_bufs[nf_i + 1]] = nf_prev + 1
  /\ tx_pc = "check" => tx_pkts[tx_i + 1] = tx_prev + 1

(***************************************************************************)
(* Between two bursts nf.out has no descriptor of the TX queue in reserve: *)
(* vq_free_cnt is 0 and both cursors point at the same descriptor, so the  *)
(* flag that vio_xmit_pkts tests (vio.h:121) is that of the last           *)
(* descriptor it will write, and its second test of vq_free_cnt            *)
(* (vio.h:126) never succeeds.                                             *)
(***************************************************************************)
CursorsAgree ==
  nf_pc \in {"poll", "refill", "offer", "check", "xmit", "wait", "done"} =>
    nf_free_cnt = 0 /\ nf_tx_used = nf_tx_avail

(***************************************************************************)
(* The payload of a buffer changes only while the buffer sits in an        *)
(* AVAIL descriptor of the RX queue: rx.out never overwrites a packet that *)
(* nf.out or tx.out has still to read.                                     *)
(***************************************************************************)
PayloadStable ==
  [][\A b \in Objs : pktmem'[b] # pktmem[b] =>
       Places(b) \subseteq {<<"rxd", s>> : s \in {s \in Slots : rxd_flags[s] = AVAIL_FLAG}}]_vars

(***************************************************************************)
(* Every process leaves its loops: all packets are generated, forwarded    *)
(* and received, and the end flag reaches nf.out.                          *)
(***************************************************************************)
Termination == <>Finished
=============================================================================
