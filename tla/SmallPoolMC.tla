---------------------------- MODULE SmallPoolMC -----------------------------
(***************************************************************************)
(* The pipeline with one buffer less than PoolSizeAssumption asks for, as  *)
(* with --vqsz=32768 and PKTBUF_NUM = 36864: nf.out may exit in the middle *)
(* of a refill.                                                            *)
(***************************************************************************)
EXTENDS PipelineInv

(***************************************************************************)
(* When nf.out exits in alloc_pktbuf, tx.out still receives every packet   *)
(* that nf.out handed to the TX queue before: the packets nf.out has       *)
(* counted are all of them, and none of the batch it died on.              *)
(***************************************************************************)
Drained == nf_pc = "exhausted" ~> tx_pc = "poll" /\ tx_counter = nf_counter
=============================================================================
