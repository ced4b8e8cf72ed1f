---------------------------- MODULE MbufBatchInv ----------------------------
(***************************************************************************)
(* The inductive invariant of MbufBatch: at each turn of the loops the two *)
(* pools and the entries of mbptrs share out all buffers.                  *)
(***************************************************************************)
EXTENDS MbufBatch

\* The builds in which reset_mbptr leaves an index alone that is to be kept.
KeepsIndices == \A b \in BUILDS : ~(b.host_led /\ b.variant = "aggr_reuse")

\* The entry at the head of the group of entry i has its metadata index.
HeadOf(i) == i - (i % Group)
IsHead(i) == i % Group = 0

Before(n)     == {i \in Entries : i < n}
Between(m, n) == {i \in Entries : m <= i /\ i < n}
HeadsIn(R)    == {i \in R : IsHead(i)}

\* The entries whose packet buffer is the process's, and the heads of the groups
\* whose metadata buffer is.
HeldBufs ==
  CASE role = "nf" \/ mb_pc = "idle"         -> {}
    [] role # "nf" /\ mb_pc = "take"         -> Before(mb_i)
    [] role # "nf" /\ mb_pc \in {"setup", "work", "received"} -> Before(mb_num)
    [] role # "nf" /\ mb_pc = "give"         -> Before(mb_start) \cup Between(mb_i, mb_num)
    [] role # "nf" /\ mb_pc = "unset"        -> Before(mb_start)

HeldMds ==
  CASE Reused                                     -> {i \in HeadsIn(Entries) : mb_md[i] >= 0}
    [] Pooled /\ mb_pc = "setup"                  -> HeadsIn(Before(mb_i))
    [] Pooled /\ mb_pc \in {"work", "give", "received"} -> HeadsIn(Before(mb_num))
    [] Pooled /\ mb_pc = "unset"                  -> HeadsIn(Before(mb_start) \cup Between(mb_i, mb_num))
    [] OTHER                                      -> {}

\* No object is twice in a pool.
NoneTwice(p) ==
  /\ \A j, k \in DOMAIN p.cache : p.cache[j] = p.cache[k] => j = k
  /\ \A j, k \in DOMAIN p.ring : p.ring[j] = p.ring[k] => j = k
  /\ \A j \in DOMAIN p.cache, k \in DOMAIN p.ring : p.cache[j] # p.ring[k]

Pools == [ring : Seq(Objs), rear : {POOL_NUM}, cache : Seq(Objs)]

(***************************************************************************)
(* Every object is in the pool or at an index of f in R, and in one place  *)
(* only; the cache has room for what is at R.                              *)
(***************************************************************************)
HeldAndFree(p, f, R) ==
  /\ p \in Pools /\ NoneTwice(p)
  /\ \A i \in R : f[i] \in Objs \ PoolObjs(p)
  /\ \A i, j \in R : f[i] = f[j] => i = j
  /\ \A b \in Objs \ PoolObjs(p) : \E i \in R : f[i] = b
  /\ Left(p) = POOL_NUM - Cardinality(R)
  /\ Len(p.cache) + Cardinality(R) <= BATCH_SIZE

MbControl ==
  /\ build \in BUILDS /\ ~(build.host_led /\ variant = "aggr_reuse")
  /\ role \in {"rx", "tx", "nf"}
  /\ mb_pc \in {"idle", "take", "setup", "work", "give", "unset", "received"}
  /\ mb_num \in 1 .. BATCH_SIZE /\ mb_start \in 0 .. mb_num /\ mb_i \in Nat
  /\ mb_pc \in {"idle", "take", "setup", "work"} => mb_start = 0
  /\ role = "tx" /\ mb_pc \in {"take", "setup", "work"} => mb_num = BATCH_SIZE
  /\ mb_pc \in {"take", "setup"} => mb_i < mb_num
  /\ mb_pc \in {"give", "unset"} => mb_start <= mb_i
  /\ mb_pc \in {"setup", "unset"} => IsHead(mb_i)
  /\ mb_pc = "received" => mb_num = mb_start
  /\ mb_buf \in [Entries -> Objs \cup {-1}] /\ mb_md \in [Entries -> Objs \cup {-1}]

\* The entries of mbptrs that have been set up for the batch.
SetUp == IF mb_pc = "setup" THEN mb_i
         ELSE IF mb_pc \in {"work", "received"} THEN mb_num
         ELSE IF mb_pc \in {"give", "unset"} THEN mb_start ELSE 0

\* They have the metadata index of the head of their group; with the reusing variants
\* an entry that is not set up has it too, unless it has never had one.
EntriesFollow ==
  /\ Pooled \/ Reused =>
       \A i \in Before(SetUp) : HeadOf(i) \in HeldMds /\ mb_md[i] = mb_md[HeadOf(i)]
  /\ Reused => \A i \in Entries : mb_md[i] = -1 \/ mb_md[i] = mb_md[HeadOf(i)]

(***************************************************************************)
(* Behind BatchExclusive and NothingLost: whatever size the batches have   *)
(* and wherever a burst of tx.out cuts one, each buffer is in one place    *)
(* (mpool/aggregated_md.h:24-40, reuse/aggregated_md.h:43-66).             *)
(***************************************************************************)
MbInv ==
  /\ MbControl
  /\ HeldAndFree(pktbuf_pool, mb_buf, HeldBufs)
  /\ HeldAndFree(md_pool, mb_md, HeldMds)
  /\ EntriesFollow
=============================================================================
