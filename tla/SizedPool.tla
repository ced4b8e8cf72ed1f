----------------------------- MODULE SizedPool ------------------------------
(***************************************************************************)
(* The pipeline with a guest pool and a cache that are large enough.  The  *)
(* code asserts neither: run.sh passes --mobjcache=2*vqsz, and PKTBUF_NUM  *)
(* (lib/mbuf/common/mbuf_core.h) is a constant.                            *)
(***************************************************************************)
EXTENDS PipelineInv

\* A buffer for every descriptor of both queues, and for the batch in between.
ASSUME PoolSizeAssumption == POOL_NUM >= 2 * NENTRIES + RecvMax

\* The cache takes every buffer that one batch sets free.
ASSUME CacheSizeAssumption == CACHE_NUM >= RecvMax

(***************************************************************************)
(* nf.out never stops in alloc_pktbuf: there is always a buffer for a used *)
(* RX descriptor, although the buffers of sent packets come back only when *)
(* their TX descriptors are used again.                                    *)
(***************************************************************************)
PoolSuffices == nf_pc # "exhausted"

(***************************************************************************)
(* free_pktbuf never falls back to the ring of the pool, which does not    *)
(* wrap around: it neither runs past the end of the ring nor stops.        *)
(***************************************************************************)
CacheSuffices == nf_pc \notin {"failed", "overrun"}

(***************************************************************************)
(* How full the cache is at each point of nf.out's loop: a batch takes its *)
(* buffers from the cache first and returns as many at most.               *)
(***************************************************************************)
CacheInv ==
  /\ nf_num <= RecvMax
  /\ nf_pool.rear = POOL_NUM
  /\ Len(nf_pool.cache) <=
       CASE nf_pc = "refill" -> RecvMax - nf_i
         [] nf_pc \in {"offer", "check", "xmit"} -> RecvMax - nf_num
         [] nf_pc = "cleanup" -> RecvMax - nf_num + nf_i
         [] OTHER -> RecvMax
=============================================================================
