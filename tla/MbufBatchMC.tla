---------------------------- MODULE MbufBatchMC -----------------------------
EXTENDS MbufBatchInv

(***************************************************************************)
(* Every build that compiles but one: with memcpy_md the individual reuse  *)
(* variant has no md_idx where it looks for it, and in the aggregated one  *)
(* AfterReset loses the metadata buffers of the batch before.              *)
(***************************************************************************)
Builds ==
  [variant: {"integrated", "each_mpool", "reuse", "aggr_mpool", "aggr_reuse"},
   host_led: BOOLEAN]
Keeping == {b \in Builds : b.host_led => b.variant \notin {"reuse", "aggr_reuse"}}
=============================================================================
