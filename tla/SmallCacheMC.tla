---------------------------- MODULE SmallCacheMC ----------------------------
(***************************************************************************)
(* The pipeline with a cache smaller than a batch, which parse_opt accepts *)
(* (option.h:67): the default is 512, and a batch may have 1024 packets.   *)
(***************************************************************************)
EXTENDS Pipeline

(***************************************************************************)
(* What pktbuf_get_put.h:41 promises: a buffer that the cache has no room  *)
(* for is freed "without caching it", into the ring of the pool.           *)
(***************************************************************************)
FreeWithoutCaching == nf_pc # "overrun"
=============================================================================
