----------------------------- MODULE FlowProofs ------------------------------
(***************************************************************************)
(* Proofs with a pool and a cache that are large enough: that they are,    *)
(* that the packets are where the counters say, that they arrive in order, *)
(* and that the pipeline implements PacketFlow.                            *)
(***************************************************************************)
EXTENDS PacketInv, PipelineProofs

(***************************************************************************)
(* The cache of the guest pool suffices, and the pool itself.              *)
(***************************************************************************)

\* Popping a sequence shortens it by one.
LEMMA PopLength ==
  ASSUME NEW S, NEW c \in Seq(S), c # <<>>
  PROVE  Len(SubSeq(c, 1, Len(c) - 1)) = Len(c) - 1
<1> DEFINE n == Len(c) - 1
<1>1. Len(c) \in Nat /\ Len(c) >= 1
  OBVIOUS
<1>2. n \in Nat /\ n = Len(c) - 1
  BY <1>1
<1> HIDE DEF n
<1>3. Len(SubSeq(c, 1, n)) = n
  BY <1>1, <1>2, SMT
<1> QED
  BY <1>2, <1>3

\* alloc_pktbuf takes from the cache as long as it holds anything.
LEMMA AllocShrinks ==
  ASSUME NEW p \in [ring : Seq(Objs), rear : Nat, cache : Seq(Objs)], CanAlloc(p)
  PROVE  /\ AfterAlloc(p).rear = p.rear
         /\ \/ Len(AfterAlloc(p).cache) = Len(p.cache) - 1
            \/ Len(AfterAlloc(p).cache) = 0
<1>1. CASE p.cache # <<>>
  <2>1. p.cache \in Seq(Objs)
    OBVIOUS
  <2>2. Len(SubSeq(p.cache, 1, Len(p.cache) - 1)) = Len(p.cache) - 1
    BY <1>1, <2>1, PopLength
  <2>3. /\ AfterAlloc(p).cache = SubSeq(p.cache, 1, Len(p.cache) - 1)
        /\ AfterAlloc(p).rear = p.rear
    BY <1>1 DEF AfterAlloc
  <2> QED
    BY <2>2, <2>3
<1>2. CASE p.cache = <<>>
  BY <1>2 DEF AfterAlloc
<1> QED
  BY <1>1, <1>2

LEMMA FreeGrows ==
  ASSUME NEW p \in [ring : Seq(Objs), rear : Nat, cache : Seq(Objs)], NEW b \in Objs,
         Cacheable(p)
  PROVE  /\ CanFree(p)
         /\ AfterFree(p, b).rear = p.rear
         /\ Len(AfterFree(p, b).cache) = Len(p.cache) + 1
<1>1. Len(Append(p.cache, b)) = Len(p.cache) + 1
  OBVIOUS
<1>2. AfterFree(p, b) = [p EXCEPT !.cache = Append(p.cache, b)]
  BY DEF AfterFree
<1> QED
  BY <1>1, <1>2 DEF CanFree

LEMMA CacheInit == Init => CacheInv /\ CacheSuffices
<1> SUFFICES ASSUME Init
             PROVE  CacheInv /\ CacheSuffices
  OBVIOUS
<1>1. nf_pool.rear = POOL_NUM /\ Len(nf_pool.cache) = 0
  BY DEF Init, NfInit, InitPool
<1>2. RecvMax \in Nat
  BY RecvMaxBounds, OptionAssumption, NEntriesAssumption
<1> QED
  BY <1>1, <1>2 DEF Init, NfInit, CacheInv, CacheSuffices

(***************************************************************************)
(* CacheInv is inductive relative to IInv, and while it holds every buffer *)
(* that is set free finds room in the cache.                               *)
(***************************************************************************)
LEMMA CacheStep ==
  ASSUME IInv, CacheInv, CacheSuffices, [Next]_vars
  PROVE  CacheInv' /\ CacheSuffices'
<1> USE OptionAssumption, NEntriesAssumption, PoolAssumption
<1>0. /\ RecvMax \in 1 .. BATCH_SIZE /\ CACHE_NUM \in Nat
      /\ nf_num \in 1 .. BATCH_SIZE /\ nf_i \in Nat
      /\ nf_pool \in [ring : Seq(Objs), rear : Nat, cache : Seq(Objs)]
      /\ Len(nf_pool.cache) \in Nat
      /\ NfIndex /\ NfTxCursors
  BY RecvMaxBounds DEF IInv, TypeOK, NfTypeOK
<1>1. CASE UNCHANGED nfVars
  BY <1>1 DEF nfVars, CacheInv, CacheSuffices
<1>2. CASE NfNext
  <2>1. CASE NfTake
    BY <1>0, <2>1 DEF NfTake, CacheInv, CacheSuffices
  <2>2. CASE NfHalve
    BY <1>0, <2>2 DEF NfHalve, CacheInv, CacheSuffices
  <2>3. CASE NfRefill
    <3>1. /\ nf_pool'.rear = nf_pool.rear
          /\ Len(nf_pool'.cache) = Len(nf_pool.cache) - 1 \/ Len(nf_pool'.cache) = 0
      BY <1>0, <2>3, AllocShrinks DEF NfRefill
    <3>2. nf_pc = "refill" /\ nf_i < nf_num
      BY <1>0, <2>3 DEF NfRefill, NfIndex
    <3>3. CASE nf_i + 1 < nf_num
      BY <1>0, <2>3, <3>1, <3>2, <3>3, SMTT(30) DEF NfRefill, CacheInv, CacheSuffices
    <3>4. CASE ~(nf_i + 1 < nf_num)
      <4>1. nf_i + 1 = nf_num /\ nf_pc' = "offer" /\ nf_num' = nf_num
        BY <1>0, <2>3, <3>2, <3>4 DEF NfRefill
      <4>2. /\ Len(nf_pool.cache) <= RecvMax - nf_i
            /\ nf_num <= RecvMax /\ nf_pool.rear = POOL_NUM
        BY <3>2 DEF CacheInv
      <4>3. Len(nf_pool'.cache) <= RecvMax - nf_num
        BY <1>0, <3>1, <4>1, <4>2
      <4>4. RecvMax' = RecvMax
        BY DEF RecvMax
      <4> QED
        BY <3>1, <4>1, <4>2, <4>3, <4>4 DEF CacheInv, CacheSuffices
    <3> QED
      BY <3>3, <3>4
  <2>4. CASE NfExhausted
    BY <1>0, <2>4 DEF NfExhausted, CacheInv, CacheSuffices
  <2>5. CASE NfOffer
    BY <1>0, <2>5 DEF NfOffer, CacheInv, CacheSuffices
  <2>6. CASE NfCheck
    BY <1>0, <2>6 DEF NfCheck, CacheInv, CacheSuffices
  <2>7. CASE NfXmit
    <3>1. nf_i = 0 /\ nf_pc' = "cleanup"
      BY <1>0, <2>7 DEF NfXmit, NfIndex, NfTxCursors
    <3> QED
      BY <1>0, <2>7, <3>1 DEF NfXmit, CacheInv, CacheSuffices
  <2>8. CASE NfCleanup
    <3>1. nf_pc = "cleanup" /\ nf_i < nf_num /\ nf_free_cnt = 0
      BY <1>0, <2>8 DEF NfCleanup, NfIndex, NfTxCursors
    <3>2. Cacheable(nf_pool)
      BY <1>0, <3>1, CacheSizeAssumption DEF CacheInv, Cacheable
    <3>3. /\ nf_pool'.rear = nf_pool.rear
          /\ Len(nf_pool'.cache) \in Nat
          /\ Len(nf_pool'.cache) <= Len(nf_pool.cache) + 1
          /\ CanFree(nf_pool)
      <4>1. txd_buf[nf_tx_used] \in Objs \cup {NoBuf}
        BY DEF IInv, TypeOK, ShmTypeOK, NfTypeOK, Cursor, Slots
      <4>2. CASE txd_buf[nf_tx_used] = NoBuf
        BY <1>0, <2>8, <3>2, <4>2 DEF NfCleanup, CanFree
      <4>3. CASE txd_buf[nf_tx_used] # NoBuf
        BY <1>0, <2>8, <3>2, <4>1, <4>3, FreeGrows DEF NfCleanup
      <4> QED
        BY <4>2, <4>3
    <3>4. ~Overrun(nf_pool')
      BY <1>0, <3>3 DEF CacheInv, Overrun
    <3>5. /\ nf_num' = nf_num
          /\ \/ nf_i + 1 < nf_num /\ nf_i' = nf_i + 1 /\ nf_pc' = "cleanup"
             \/ nf_i + 1 = nf_num /\ nf_pc' = "put"
      BY <1>0, <2>8, <3>1, <3>3, <3>4 DEF NfCleanup
    <3>6. /\ Len(nf_pool.cache) <= RecvMax - nf_num + nf_i
          /\ nf_num <= RecvMax /\ nf_pool.rear = POOL_NUM
      BY <3>1 DEF CacheInv
    <3>7. CASE nf_i + 1 < nf_num
      <4>1. nf_pc' = "cleanup" /\ nf_i' = nf_i + 1
        BY <1>0, <3>5, <3>7
      <4>2. Len(nf_pool'.cache) <= RecvMax - nf_num' + nf_i'
        BY <1>0, <3>3, <3>5, <3>6, <4>1
      <4>3. RecvMax' = RecvMax
        BY DEF RecvMax
      <4> QED
        BY <3>3, <3>5, <3>6, <4>1, <4>2, <4>3 DEF CacheInv, CacheSuffices
    <3>8. CASE nf_i + 1 = nf_num
      <4>1. nf_pc' = "put"
        BY <1>0, <3>5, <3>8
      <4>2. Len(nf_pool'.cache) <= RecvMax
        BY <1>0, <3>3, <3>6, <3>8
      <4> QED
        BY <3>3, <3>5, <3>6, <4>1, <4>2 DEF CacheInv, CacheSuffices
    <3> QED
      BY <3>5, <3>7, <3>8
  <2>9. CASE NfPut
    BY <1>0, <2>9 DEF NfPut, CacheInv, CacheSuffices
  <2>10. CASE NfPublish
    BY <1>0, <2>10 DEF NfPublish, CacheInv, CacheSuffices
  <2>11. CASE NfExit
    BY <1>0, <2>11 DEF NfExit, CacheInv, CacheSuffices
  <2> QED
    BY <1>2, <2>1, <2>2, <2>3, <2>4, <2>5, <2>6, <2>7, <2>8, <2>9, <2>10, <2>11 DEF NfNext
<1> QED
  BY <1>1, <1>2 DEF Next, RxStep, NfStep, TxStep, Terminating, vars

(***************************************************************************)
(* With a cache of at least RecvMax entries free_pktbuf never reaches the  *)
(* ring, which does not wrap (ring.h:41), for every queue and pool size.   *)
(***************************************************************************)
THEOREM FreesAreCached == Spec => []CacheSuffices
<1>1. IInv /\ CacheInv /\ CacheSuffices /\ [Next]_vars => CacheInv' /\ CacheSuffices'
  BY CacheStep
<1> QED
  BY <1>1, CacheInit, InductiveInvariant, PTL DEF Spec
(***************************************************************************)
(* How full the cache of the guest pool (obj_stack.h) can be at each point *)
(* of nf.out's loop: a batch makes room in it before it returns anything.  *)
(***************************************************************************)
THEOREM CacheBounded == Spec => []CacheInv
<1>1. IInv /\ CacheInv /\ CacheSuffices /\ [Next]_vars => CacheInv' /\ CacheSuffices'
  BY CacheStep
<1> QED
  BY <1>1, CacheInit, InductiveInvariant, PTL DEF Spec
-----------------------------------------------------------------------------
(***************************************************************************)
(* While nf.out refills RX descriptors (vio.h:31-37) the pool has a buffer *)
(* left: the others are in descriptors of the two queues and in the batch, *)
(* and what the descriptors to be refilled still refer to is in the batch. *)
(***************************************************************************)
LEMMA BufferLeft ==
  ASSUME IInv, Owned, CacheInv, nf_pc = "refill"
  PROVE  CanAlloc(nf_pool)
<1> SUFFICES ASSUME ~CanAlloc(nf_pool)
             PROVE  FALSE
  OBVIOUS
<1> USE NEntriesAssumption, PoolAssumption
<1>1. /\ nf_num \in 1 .. BATCH_SIZE /\ nf_num <= RecvMax /\ nf_i \in 0 .. nf_num - 1
      /\ nf_num \in 1 .. NENTRIES
      /\ nf_rx_avail \in Slots
  <2>1. nf_num <= RecvMax
    BY DEF CacheInv
  <2>2. nf_num \in 1 .. BATCH_SIZE /\ nf_i \in 0 .. nf_num - 1 /\ nf_rx_avail \in Slots
    BY DEF IInv, TypeOK, NfTypeOK, NfIndex, Cursor, Slots
  <2> QED
    BY <2>1, <2>2, OptionAssumption
<1> DEFINE fresh == NENTRIES - (nf_num - nf_i)
           all == fresh + nf_num + NENTRIES
           holder == [n \in 0 .. all - 1 |->
                        IF n < fresh THEN rxd_buf[Wrap(nf_rx_avail + (NENTRIES - fresh) + n)]
                        ELSE IF n < fresh + nf_num THEN nf_bufs[n - fresh + 1]
                        ELSE txd_buf[n - fresh - nf_num]]
<1>2. /\ fresh \in 0 .. NENTRIES - 1 /\ NENTRIES - fresh = nf_num - nf_i
      /\ all \in Nat /\ all < 2 * NENTRIES + RecvMax
  BY <1>1, RecvMaxBounds, OptionAssumption
<1>3. \A b \in Objs : InCache(b) = {} /\ InRing(b) = {} /\ OnePlace(b)
  BY DEF CanAlloc, InCache, InRing, Owned
<1>4. RxStale = Window(nf_rx_avail, nf_num - nf_i) /\ TxStale = {} /\ InBatch = 1 .. nf_num
  BY DEF RxStale, TxStale, InBatch
<1> HIDE DEF fresh
<1>5. \A b \in Objs : \E n \in 0 .. all - 1 : holder[n] = b
  <2> TAKE b \in Objs
  <2>1. CASE \E s : s \in InRxd(b)
    <3>1. PICK s \in Slots : s \notin RxStale /\ rxd_buf[s] = b
      BY <2>1 DEF InRxd
    <3>2. Ahead(s, nf_rx_avail) \in 0 .. NENTRIES - 1 /\ Wrap(nf_rx_avail + Ahead(s, nf_rx_avail)) = s
      BY <1>1, AheadBounds
    <3>3. Ahead(s, nf_rx_avail) >= NENTRIES - fresh
      BY <1>1, <1>2, <1>4, <3>1, <3>2 DEF Window
    <3> DEFINE n == Ahead(s, nf_rx_avail) - (NENTRIES - fresh)
    <3>4. n \in 0 .. all - 1 /\ n < fresh
      BY <1>1, <1>2, <3>2, <3>3
    <3>5. nf_rx_avail + (NENTRIES - fresh) + n = nf_rx_avail + Ahead(s, nf_rx_avail)
      BY <1>1, <1>2, <3>2 DEF Slots
    <3>6. holder[n] = rxd_buf[Wrap(nf_rx_avail + (NENTRIES - fresh) + n)]
      BY <3>4
    <3> QED
      BY <3>1, <3>2, <3>4, <3>5, <3>6
  <2>2. CASE \E k : k \in InTaken(b)
    <3>1. PICK k \in 1 .. nf_num : nf_bufs[k] = b
      BY <1>4, <2>2 DEF InTaken
    <3> DEFINE n == fresh + k - 1
    <3>2. /\ n \in 0 .. all - 1 /\ ~(n < fresh)
          /\ n < fresh + nf_num /\ n - fresh + 1 = k
      BY <1>1, <1>2, <3>1
    <3>3. holder[n] = nf_bufs[n - fresh + 1]
      BY <3>2
    <3> QED
      BY <3>1, <3>2, <3>3
  <2>3. CASE \E s : s \in InTxd(b)
    <3>1. PICK s \in Slots : txd_buf[s] = b
      BY <2>3 DEF InTxd
    <3> DEFINE n == fresh + nf_num + s
    <3>2. /\ n \in 0 .. all - 1 /\ ~(n < fresh)
          /\ ~(n < fresh + nf_num) /\ n - fresh - nf_num = s
      BY <1>1, <1>2, <3>1 DEF Slots
    <3>3. holder[n] = txd_buf[n - fresh - nf_num]
      BY <3>2
    <3> QED
      BY <3>1, <3>2, <3>3
  <2> QED
    BY <1>3, <2>1, <2>2, <2>3 DEF OnePlace, ExactlyOne
<1> DEFINE place == [b \in Objs |-> CHOOSE n \in 0 .. all - 1 : holder[n] = b]
<1>6. \A b \in Objs : place[b] \in 0 .. all - 1 /\ holder[place[b]] = b
  BY <1>5
<1> HIDE DEF all, holder, place
<1>7. place \in Injection(Objs, 0 .. all - 1)
  <2>1. place \in [Objs -> 0 .. all - 1]
    BY <1>6 DEF place
  <2> QED
    BY <1>6, <2>1 DEF Injection, IsInjective
<1>8. /\ IsFiniteSet(0 .. all - 1) /\ Cardinality(0 .. all - 1) = all
      /\ Cardinality(Objs) = POOL_NUM
  <2>1. \A n \in Nat : IsFiniteSet(0 .. n - 1) /\ Cardinality(0 .. n - 1) = n
    <3> TAKE n \in Nat
    <3>1. 0 \in Int /\ n - 1 \in Int
      OBVIOUS
    <3>2. /\ IsFiniteSet(0 .. n - 1)
          /\ Cardinality(0 .. n - 1) = IF 0 > n - 1 THEN 0 ELSE n - 1 - 0 + 1
      BY <3>1, FS_Interval
    <3> QED
      BY <3>2
  <2> QED
    BY <1>2, <2>1 DEF Objs
<1>9. Cardinality(Objs) <= Cardinality(0 .. all - 1)
  BY <1>7, <1>8, FS_Injection
<1>10. RecvMax \in Nat
  BY RecvMaxBounds, OptionAssumption
<1> QED
  BY <1>2, <1>8, <1>9, <1>10, PoolSizeAssumption

(***************************************************************************)
(* alloc_pktbuf always finds a buffer (vio.h:33), with a pool that has one *)
(* for every descriptor of both queues and for the batch in between.       *)
(***************************************************************************)
THEOREM RefillsSucceed == Spec => []PoolSuffices
<1>1. Init => PoolSuffices
  BY DEF Init, NfInit, PoolSuffices
<1>2. IInv /\ Owned /\ CacheInv /\ PoolSuffices /\ [Next]_vars => PoolSuffices'
  <2> SUFFICES ASSUME IInv, Owned, CacheInv, PoolSuffices, [Next]_vars
               PROVE  PoolSuffices'
    OBVIOUS
  <2>1. ~NfExhausted
    BY BufferLeft DEF NfExhausted
  <2>2. CASE UNCHANGED nfVars
    BY <2>2 DEF nfVars, PoolSuffices
  <2>3. CASE NfNext
    BY <2>1, <2>3 DEF PoolSuffices, NfNext, NfTake, NfHalve, NfRefill, NfOffer, NfCheck,
                      NfXmit, NfCleanup, NfPut, NfPublish, NfExit
  <2> QED
    BY <2>2, <2>3 DEF Next, RxStep, NfStep, TxStep, Terminating, vars
<1>3. IInv /\ CacheInv /\ CacheSuffices /\ [Next]_vars => CacheInv' /\ CacheSuffices'
  BY CacheStep
<1>4. IInv /\ Owned /\ [Next]_vars => Owned'
  BY OwnedStep
<1> QED
  BY <1>1, <1>2, <1>3, <1>4, CacheInit, OwnedInit, InductiveInvariant, PTL DEF Spec
-----------------------------------------------------------------------------
\* Counting from a cursor that has moved by n.
LEMMA AheadFrom ==
  ASSUME NEW s \in Slots, NEW c \in Slots, NEW n \in 0 .. NENTRIES
  PROVE  Ahead(s, Wrap(c + n)) =
           IF Ahead(s, c) >= n THEN Ahead(s, c) - n ELSE Ahead(s, c) - n + NENTRIES
BY NEntriesAssumption DEF Ahead, Wrap, Slots

\* What holds besides FlowInv, and what the steps below use of it.
Sound == IInv /\ Owned /\ nf_pc \notin {"exhausted", "failed", "overrun"}

LEMMA Facts ==
  ASSUME IInv
  PROVE  /\ NENTRIES \in Nat \ {0} /\ BATCH_SIZE \in 1 .. NENTRIES /\ PKT_NUM \in Nat \ {0}
         /\ RxTypeOK /\ NfTypeOK /\ TxTypeOK /\ ShmTypeOK
         /\ RxBurst /\ RxCursors /\ NfIndex /\ NfRxCursors /\ NfTxCursors /\ TxBurst
         /\ TxdCarries
         /\ RxFlip \in Slots /\ RxLeft \in Nat /\ NfRxFlip \in Slots /\ NfRxLeft \in Nat
         /\ NfTxFlip \in Slots /\ NfTxLeft \in Nat /\ TxFlip \in Slots /\ TxLeft \in Nat
         /\ nf_num \in 1 .. NENTRIES /\ nf_i \in Nat
         /\ nf_rx_used \in Slots /\ nf_rx_avail \in Slots
         /\ nf_tx_used \in Slots /\ nf_tx_avail \in Slots /\ nf_shadow \in Slots
         /\ rx_last_used \in Slots /\ rx_last_avail \in Slots /\ tx_last_avail \in Slots
         /\ RxSent \in Int /\ NfTaken \in Int /\ NfSent \in Int /\ TxReleased \in Int
         /\ InRxq \in Int /\ InTxq \in Int /\ NfUnpublished \in Int
<1>1. /\ RxTypeOK /\ NfTypeOK /\ TxTypeOK /\ ShmTypeOK
      /\ RxBurst /\ RxCursors /\ NfIndex /\ NfRxCursors /\ NfTxCursors /\ TxBurst
      /\ TxdCarries
  BY DEF IInv, TypeOK
<1>2. NENTRIES \in Nat \ {0} /\ BATCH_SIZE \in 1 .. NENTRIES /\ PKT_NUM \in Nat \ {0}
  BY OptionAssumption, NEntriesAssumption
<1>3. /\ nf_num \in 1 .. NENTRIES /\ nf_i \in Nat
      /\ nf_rx_used \in Slots /\ nf_rx_avail \in Slots
      /\ nf_tx_used \in Slots /\ nf_tx_avail \in Slots /\ nf_shadow \in Slots
      /\ rx_last_used \in Slots /\ rx_last_avail \in Slots /\ tx_last_avail \in Slots
  BY <1>1, <1>2 DEF RxTypeOK, NfTypeOK, TxTypeOK, Cursor, Slots
<1>4. RxSent \in Int
  BY <1>1, <1>2 DEF RxTypeOK, RxSent, FlowSent
<1>5. NfTaken \in Int /\ NfSent \in Int /\ NfUnpublished \in Int
  BY <1>1, <1>3 DEF NfTypeOK, NfTaken, NfSent, NfUnpublished
<1>6. TxReleased \in Int
  BY <1>1, <1>2 DEF TxTypeOK, TxReleased
<1> QED
  BY <1>1, <1>2, <1>3, <1>4, <1>5, <1>6, FlipTypes DEF InRxq, InTxq

LEMMA RxFacts ==
  ASSUME IInv, rx_pc \in {"copy", "publish"}
  PROVE  /\ rx_count \in 1 .. NENTRIES /\ rx_i \in 0 .. rx_count - 1
         /\ rx_last_used \in Slots /\ rx_last_used + rx_count <= NENTRIES
         /\ rx_last_avail = Wrap(rx_last_used + rx_count) /\ NENTRIES \in Nat
         /\ rx_counter \in Nat /\ rx_sent \in Nat /\ rx_nb \in Nat
         /\ rx_sent + rx_count <= rx_nb
<1>1. /\ rx_i < rx_count /\ rx_last_used + rx_count <= NENTRIES
      /\ rx_last_avail = Wrap(rx_last_used + rx_count)
      /\ rx_nb \in 1 .. PKT_NUM - rx_counter
      /\ rx_count \in 1 .. rx_nb - rx_sent
  BY Facts DEF RxCursors, RxBurst
<1>2. /\ rx_count \in 0 .. BATCH_SIZE /\ rx_i \in 0 .. BATCH_SIZE /\ rx_last_used \in Slots
      /\ rx_counter \in Nat /\ rx_sent \in Nat /\ rx_nb \in Nat
  BY Facts DEF RxTypeOK
<1>3. NENTRIES \in Nat /\ BATCH_SIZE \in 1 .. NENTRIES
  BY Facts
<1> QED
  BY <1>1, <1>2, <1>3

LEMMA NfBatch ==
  ASSUME IInv, nf_pc \in {"refill", "offer", "check", "cleanup", "put", "publish"}
  PROVE  nf_i \in 0 .. nf_num - 1 /\ Len(nf_bufs) = nf_num /\ nf_counter \in Nat
<1>1. nf_i < nf_num /\ Len(nf_bufs) = nf_num
  BY Facts DEF NfIndex
<1>2. NfTypeOK /\ nf_num \in 1 .. NENTRIES /\ NENTRIES \in Nat
  BY Facts
<1>3. nf_num \in Nat /\ nf_i \in Nat /\ nf_counter \in Nat
  BY <1>2, Facts DEF NfTypeOK
<1> QED
  BY <1>1, <1>3

\* The holders look at these variables only.
LEMMA SameRxq ==
  ASSUME RxqHolds,
         UNCHANGED <<InRxq, NfTaken, RxFlip, NfRxLeft, nf_rx_used, rxd_flags, rxd_buf, pktmem>>
  PROVE  RxqHolds'
BY DEF RxqHolds

LEMMA SameRx ==
  ASSUME RxHolds, UNCHANGED <<rxVars, rxd_buf, pktmem>>
  PROVE  RxHolds'
BY DEF RxHolds, rxVars

LEMMA SameNf ==
  ASSUME NfHolds, UNCHANGED <<nfVars, txd_buf, pktmem>>
  PROVE  NfHolds'
BY DEF NfHolds, nfVars, InBatch, NfTaken, NfPutSoFar

LEMMA SameTxq ==
  ASSUME TxqHolds,
         UNCHANGED <<InTxq, TxReleased, NfTxFlip, NfTxLeft, TxFlip, NfUnpublished,
                     txd_flags, txd_buf, pktmem>>
  PROVE  TxqHolds'
BY DEF TxqHolds

LEMMA SameTx ==
  ASSUME TxHolds, UNCHANGED <<txVars, txd_buf>>
  PROVE  TxHolds'
BY DEF TxHolds, txVars

\* A process that stands still leaves these where they are.
LEMMA NfStill ==
  ASSUME UNCHANGED nfVars
  PROVE  UNCHANGED <<NfTaken, NfSent, NfRxFlip, NfRxLeft, NfTxFlip, NfTxLeft, NfUnpublished,
                     nf_rx_used, RxStale, TxStale, InBatch>>
BY DEF nfVars, NfTaken, NfSent, NfRxFlip, NfRxLeft, NfTxFlip, NfTxLeft, NfUnpublished,
       RxStale, TxStale, InBatch

LEMMA HostsStill ==
  /\ UNCHANGED rxVars => UNCHANGED <<RxSent, RxFlip, RxLeft>>
  /\ UNCHANGED txVars => UNCHANGED <<TxReleased, TxFlip, TxLeft>>
BY DEF rxVars, txVars, RxSent, FlowSent, RxFlip, RxLeft, TxReleased, TxFlip, TxLeft
-----------------------------------------------------------------------------
\* rx.out starts a round or a burst, or gives one up.
LEMMA RxQuietFlow ==
  ASSUME Sound, FlowInv, RxStart \/ RxGenerate \/ RxExit \/ RxClaim \/ RxHalve \/ RxGiveUp,
         UNCHANGED <<nfVars, txVars>>
  PROVE  FlowInv' /\ UNCHANGED RxSent
<1>1. UNCHANGED shmVars
  BY DEF RxStart, RxGenerate, RxExit, RxClaim, RxHalve, RxGiveUp
<1>2. RxTypeOK
  BY Facts DEF Sound
<1>3. UNCHANGED <<RxSent, RxFlip>>
  <2>1. CASE RxStart \/ RxExit \/ RxClaim \/ RxHalve
    BY <2>1 DEF RxStart, RxExit, RxClaim, RxHalve, RxSent, FlowSent, RxFlip
  <2>2. CASE RxGenerate
    BY <1>2, <2>2 DEF RxGenerate, RxTypeOK, RxSent, FlowSent, RxFlip
  <2>3. CASE RxGiveUp
    BY <1>2, <2>3 DEF RxGiveUp, RxBurstReturns, RxTypeOK, RxSent, FlowSent, RxFlip
  <2> QED
    BY <2>1, <2>2, <2>3
<1>4. RxHolds'
  <2>1. CASE RxClaim
    <3>1. rx_last_avail = rx_last_used /\ rx_count \in Nat
      BY <1>2, <2>1, Facts DEF Sound, RxCursors, RxClaim, RxTypeOK
    <3> QED
      BY <1>1, <2>1, <3>1 DEF RxClaim, RxHolds, shmVars
  <2>2. CASE RxGiveUp
    BY <2>2 DEF RxGiveUp, RxBurstReturns, RxHolds
  <2>3. CASE RxStart \/ RxGenerate \/ RxExit \/ RxHalve
    BY <2>3 DEF RxStart, RxGenerate, RxExit, RxHalve, RxHolds
  <2> QED
    BY <2>1, <2>2, <2>3
<1>5. RxqHolds' /\ TxqHolds'
  BY <1>1, <1>3, NfStill, HostsStill, SameRxq, SameTxq DEF FlowInv, InRxq, InTxq, shmVars
<1>6. NfHolds' /\ TxHolds'
  BY <1>1, SameNf, SameTx DEF FlowInv, shmVars
<1> QED
  BY <1>3, <1>4, <1>5, <1>6 DEF FlowInv

\* The descriptors that nf.out has still to refill are not rx.out's.
LEMMA StaleIsClaimed ==
  ASSUME IInv
  PROVE  \A s \in RxStale : nf_pc # "exhausted" => s \in NfRxClaimed
<1> SUFFICES ASSUME NEW s \in RxStale, nf_pc # "exhausted"
             PROVE  s \in NfRxClaimed
  OBVIOUS
<1>1. /\ nf_pc = "refill" /\ s \in Slots /\ Ahead(s, nf_rx_avail) < nf_num - nf_i
  BY DEF RxStale, Window
<1>2. /\ nf_num \in 1 .. NENTRIES /\ nf_i \in 0 .. NENTRIES /\ nf_i < nf_num
      /\ nf_shadow \in Slots /\ nf_rx_avail = Wrap(nf_shadow + nf_i)
      /\ NENTRIES \in Nat
  BY <1>1, Facts, SMTT(30) DEF NfIndex, NfRxCursors
<1>3. /\ Ahead(s, nf_rx_avail) = IF Ahead(s, nf_shadow) >= nf_i THEN Ahead(s, nf_shadow) - nf_i
                                 ELSE Ahead(s, nf_shadow) - nf_i + NENTRIES
      /\ Ahead(s, nf_shadow) \in 0 .. NENTRIES - 1
  BY <1>1, <1>2, AheadFrom, AheadBounds
<1>4. Ahead(s, nf_shadow) < nf_num
  BY <1>1, <1>2, <1>3
<1> QED
  BY <1>1, <1>4 DEF NfRxClaimed, NfRxFlip, NfRxLeft, Window

\* The buffer that is written is in one RX descriptor and nowhere else (vhost.h:83).
LEMMA CopyElsewhere ==
  ASSUME Sound, RxHolds, RxCopy
  PROVE  LET s == rx_last_used + rx_i
             x == rxd_buf[s]
         IN  /\ s \in Slots /\ x \in Objs /\ rxd_flags[s] = AVAIL_FLAG
             /\ pktmem' = [pktmem EXCEPT ![x] = RxPktId]
             /\ OnePlace(x) /\ s \in InRxd(x)
             /\ \A t \in Slots : t # s /\ t \notin RxStale => rxd_buf[t] # x
             /\ \A k \in InBatch : nf_bufs[k] # x
             /\ \A t \in Slots \ TxStale : txd_buf[t] # x
<1> DEFINE s == rx_last_used + rx_i
           x == rxd_buf[s]
<1>1. /\ rx_pc = "copy" /\ rx_count \in 1 .. NENTRIES /\ rx_i \in 0 .. rx_count - 1
      /\ rx_last_used \in Slots /\ rx_last_used + rx_count <= NENTRIES /\ NENTRIES \in Nat
  BY RxFacts DEF Sound, RxCopy
<1>2. s \in Slots /\ Ahead(s, rx_last_used) = rx_i
  BY <1>1 DEF Slots, Ahead
<1>3. x \in Objs
  BY <1>2, Facts DEF Sound, ShmTypeOK
<1>4. rx_bufs[rx_i + 1] = x
  <2>1. rx_i + 1 \in 1 .. rx_count /\ rx_last_used + (rx_i + 1) - 1 = s
    BY <1>1 DEF Slots
  <2> QED
    BY <1>1, <2>1 DEF RxHolds
<1>5. pktmem' = [pktmem EXCEPT ![x] = RxPktId]
  BY <1>4 DEF RxCopy
<1>6. rxd_flags[s] = AVAIL_FLAG
  <2>1. s \in RxClaimed
    BY <1>1, <1>2 DEF RxClaimed, RxFlip, RxLeft, Window
  <2> QED
    BY <2>1, InvExclusive DEF Sound, DescExclusive
<1>7. s \notin RxStale
  BY <1>6, StaleIsClaimed, InvExclusive DEF Sound, DescExclusive, AVAIL_FLAG, USED_FLAG
<1>8. s \in InRxd(x) /\ OnePlace(x)
  BY <1>2, <1>3, <1>7 DEF InRxd, Sound, Owned
<1>9. InRxd(x) = {s} /\ InTaken(x) = {} /\ InTxd(x) = {}
  BY <1>8 DEF OnePlace, ExactlyOne
<1>10. \A t \in Slots : t # s /\ t \notin RxStale => rxd_buf[t] # x
  BY <1>9 DEF InRxd
<1>11. /\ \A k \in InBatch : nf_bufs[k] # x
       /\ \A t \in Slots \ TxStale : txd_buf[t] # x
  BY <1>9 DEF InTaken, InTxd
<1> QED
  BY <1>2, <1>3, <1>5, <1>6, <1>8, <1>10, <1>11

\* A TX descriptor that nf.out has not refilled holds no packet.
LEMMA TxStaleBeyond ==
  ASSUME Sound, TxqHolds
  PROVE  \A s \in TxStale : ~(Ahead(s, TxFlip) < InTxq + NfUnpublished)
<1> SUFFICES ASSUME NEW s \in TxStale
             PROVE  ~(Ahead(s, TxFlip) < InTxq + NfUnpublished)
  OBVIOUS
<1>1. nf_pc \in {"cleanup", "put"} /\ s \in Slots
  BY DEF TxStale, Window
<1>2. /\ NENTRIES \in Nat /\ TxFlip \in Slots /\ nf_shadow \in Slots
      /\ nf_num \in 1 .. NENTRIES /\ nf_i \in 0 .. nf_num - 1
      /\ InTxq \in 0 .. NENTRIES - nf_num
      /\ nf_shadow = Wrap(TxFlip + InTxq)
      /\ nf_tx_avail = Wrap(nf_shadow + (IF nf_pc = "put" THEN nf_i ELSE 0))
  BY <1>1, Facts, WrapZero, SMTT(30) DEF Sound, NfIndex, NfTxCursors, TxqHolds, NfTxLeft, NfTxFlip
<1>3. Ahead(s, nf_shadow) = IF Ahead(s, TxFlip) >= InTxq THEN Ahead(s, TxFlip) - InTxq
                            ELSE Ahead(s, TxFlip) - InTxq + NENTRIES
  BY <1>1, <1>2, AheadFrom
<1>4. Ahead(s, TxFlip) \in 0 .. NENTRIES - 1 /\ Ahead(s, nf_shadow) \in 0 .. NENTRIES - 1
  BY <1>1, <1>2, AheadBounds
<1>5. CASE nf_pc = "cleanup"
  <2>1. Ahead(s, nf_shadow) < nf_i /\ NfUnpublished = 0
    BY <1>5 DEF TxStale, Window, NfUnpublished
  <2> QED
    BY <1>2, <1>3, <1>4, <2>1
<1>6. CASE nf_pc = "put"
  <2>1. Ahead(s, nf_tx_avail) < nf_num - nf_i /\ NfUnpublished = nf_i
    BY <1>6 DEF TxStale, Window, NfUnpublished
  <2>2. Ahead(s, nf_tx_avail) = IF Ahead(s, nf_shadow) >= nf_i THEN Ahead(s, nf_shadow) - nf_i
                                ELSE Ahead(s, nf_shadow) - nf_i + NENTRIES
    BY <1>1, <1>2, <1>6, AheadFrom
  <2> QED
    BY <1>2, <1>3, <1>4, <2>1, <2>2
<1> QED
  BY <1>1, <1>5, <1>6

\* rx.out copies a packet (vhost.h:83).
LEMMA RxCopyFlow ==
  ASSUME Sound, FlowInv, RxCopy, UNCHANGED <<nfVars, txVars>>
  PROVE  FlowInv' /\ UNCHANGED RxSent
<1> DEFINE h == rx_last_used + rx_i
           x == rxd_buf[h]
<1>1. /\ h \in Slots /\ x \in Objs /\ rxd_flags[h] = AVAIL_FLAG
      /\ pktmem' = [pktmem EXCEPT ![x] = RxPktId] /\ pktmem \in [Objs -> Ids]
      /\ \A t \in Slots : t # h /\ t \notin RxStale => rxd_buf[t] # x
      /\ \A k \in InBatch : nf_bufs[k] # x
      /\ \A t \in Slots \ TxStale : txd_buf[t] # x
  BY CopyElsewhere, Facts DEF Sound, FlowInv, ShmTypeOK
<1>2. /\ rx_pc = "copy" /\ rx_count \in 1 .. NENTRIES /\ rx_i \in 0 .. rx_count - 1
      /\ rx_last_used \in Slots /\ rx_last_used + rx_count <= NENTRIES /\ NENTRIES \in Nat
      /\ rx_counter \in Nat /\ rx_sent \in Nat
  BY RxFacts DEF Sound, RxCopy
<1>3. UNCHANGED <<rxd_flags, rxd_buf, txd_flags, txd_buf, rx_last_used, rx_count, rx_counter, rx_sent>>
  BY DEF RxCopy
<1>4. /\ UNCHANGED <<RxSent, RxFlip>>
      /\ \/ rx_i + 1 < rx_count /\ rx_i' = rx_i + 1 /\ rx_pc' = "copy" /\ rx_bufs' = rx_bufs
         \/ rx_i + 1 = rx_count /\ rx_i' = 0 /\ rx_pc' = "publish"
  <2>1. \/ rx_i + 1 < rx_count /\ rx_i' = rx_i + 1 /\ rx_pc' = "copy" /\ rx_bufs' = rx_bufs
        \/ rx_i + 1 = rx_count /\ rx_i' = 0 /\ rx_pc' = "publish"
    BY <1>2 DEF RxCopy
  <2>2. RxSent' = RxSent
    BY <1>2, <1>3, <2>1 DEF RxSent, FlowSent
  <2>3. RxFlip' = RxFlip
    BY <1>2, <1>3, <2>1, WrapZero DEF RxFlip
  <2> QED
    BY <2>1, <2>2, <2>3
<1>5. UNCHANGED <<NfTaken, NfSent, NfRxLeft, NfTxFlip, NfTxLeft, NfUnpublished, nf_rx_used,
                  InBatch, TxReleased, TxFlip, InRxq, InTxq>>
  BY <1>4, NfStill, HostsStill DEF InRxq, InTxq
<1>6. RxqHolds'
  <2>1. \A s \in Slots : Ahead(s, nf_rx_used) < InRxq => pktmem'[rxd_buf[s]] = pktmem[rxd_buf[s]]
    <3> SUFFICES ASSUME NEW s \in Slots, Ahead(s, nf_rx_used) < InRxq
                 PROVE  rxd_buf[s] # x
      BY <1>1
    <3>1. rxd_flags[s] = USED_FLAG
      BY DEF FlowInv, RxqHolds
    <3>2. s # h
      BY <1>1, <3>1 DEF AVAIL_FLAG, USED_FLAG
    <3>3. s \notin RxStale
      <4> SUFFICES ASSUME s \in RxStale
                   PROVE  FALSE
        OBVIOUS
      <4>1. s \in Window(NfRxFlip, NfRxLeft) /\ nf_pc = "refill"
        BY StaleIsClaimed DEF Sound, NfRxClaimed, RxStale
      <4>2. /\ NfRxFlip = nf_shadow /\ NfRxLeft = nf_num /\ nf_num \in 0 .. NENTRIES
            /\ nf_shadow \in Slots /\ nf_rx_used = Wrap(nf_shadow + nf_num)
            /\ InRxq \in 0 .. NENTRIES - nf_num
        BY <4>1, Facts DEF NfRxFlip, NfRxLeft, Sound, NfRxCursors, FlowInv, RxqHolds
      <4>3. /\ Ahead(s, nf_rx_used) = IF Ahead(s, nf_shadow) >= nf_num
                                        THEN Ahead(s, nf_shadow) - nf_num
                                      ELSE Ahead(s, nf_shadow) - nf_num + NENTRIES
            /\ Ahead(s, nf_shadow) \in 0 .. NENTRIES - 1 /\ Ahead(s, nf_shadow) < nf_num
        BY <4>1, <4>2, AheadFrom, AheadBounds DEF Window
      <4> QED
        BY <1>2, <4>2, <4>3
    <3> QED
      BY <1>1, <3>2, <3>3
  <2> QED
    BY <1>3, <1>4, <1>5, <2>1 DEF FlowInv, RxqHolds
<1>7. RxHolds'
  <2>1. pktmem'[x] = rx_counter + rx_sent + (rx_i + 1)
    BY <1>1, <1>2 DEF RxPktId
  <2>2. \A j \in 1 .. rx_count : j <= rx_i =>
           pktmem'[rxd_buf[rx_last_used + j - 1]] = pktmem[rxd_buf[rx_last_used + j - 1]]
    <3> SUFFICES ASSUME NEW j \in 1 .. rx_count, j <= rx_i
                 PROVE  rxd_buf[rx_last_used + j - 1] # x
      BY <1>1
    <3> DEFINE t == rx_last_used + j - 1
    <3>1. t \in Slots /\ t # h /\ Ahead(t, rx_last_used) < rx_count
      BY <1>2 DEF Slots, Ahead
    <3>2. rxd_flags[t] = AVAIL_FLAG
      <4>1. t \in RxClaimed
        BY <1>2, <3>1 DEF RxClaimed, RxFlip, RxLeft, Window
      <4> QED
        BY <4>1, InvExclusive DEF Sound, DescExclusive
    <3>3. t \notin RxStale
      BY <3>2, StaleIsClaimed, InvExclusive DEF Sound, DescExclusive, AVAIL_FLAG, USED_FLAG
    <3> QED
      BY <1>1, <3>1, <3>3
  <2>3. \A j \in 1 .. rx_count : j <= rx_i + 1 =>
           pktmem'[rxd_buf[rx_last_used + j - 1]] = rx_counter + rx_sent + j
    <3> SUFFICES ASSUME NEW j \in 1 .. rx_count, j <= rx_i + 1
                 PROVE  pktmem'[rxd_buf[rx_last_used + j - 1]] = rx_counter + rx_sent + j
      OBVIOUS
    <3>1. CASE j <= rx_i
      BY <1>2, <2>2, <3>1 DEF FlowInv, RxHolds
    <3>2. CASE j = rx_i + 1
      <4>1. rx_last_used + j - 1 = h
        BY <1>2, <3>2 DEF Slots
      <4> QED
        BY <2>1, <3>2, <4>1
    <3> QED
      BY <1>2, <3>1, <3>2
  <2>4. \A j \in 1 .. rx_count : rx_bufs[j] = rxd_buf[rx_last_used + j - 1]
    BY <1>2 DEF FlowInv, RxHolds
  <2>5. CASE rx_i + 1 < rx_count /\ rx_i' = rx_i + 1 /\ rx_pc' = "copy" /\ rx_bufs' = rx_bufs
    BY <1>3, <2>3, <2>4, <2>5 DEF RxHolds
  <2>6. CASE rx_i + 1 = rx_count /\ rx_i' = 0 /\ rx_pc' = "publish"
    <3>1. \A j \in 1 .. rx_count : j <= rx_i + 1
      BY <1>2, <2>6
    <3> QED
      BY <1>3, <2>3, <2>6, <3>1 DEF RxHolds
  <2> QED
    BY <1>4, <2>5, <2>6
<1>8. NfHolds'
  <2>1. \A k \in InBatch : pktmem'[nf_bufs[k]] = pktmem[nf_bufs[k]]
    BY <1>1
  <2> QED
    BY <1>3, <1>5, <2>1 DEF FlowInv, NfHolds, nfVars, NfPutSoFar
<1>9. TxqHolds'
  <2>1. \A s \in Slots : Ahead(s, TxFlip) < InTxq + NfUnpublished =>
           pktmem'[txd_buf[s]] = pktmem[txd_buf[s]]
    <3> SUFFICES ASSUME NEW s \in Slots, Ahead(s, TxFlip) < InTxq + NfUnpublished
                 PROVE  txd_buf[s] # x
      BY <1>1
    <3> QED
      BY <1>1, TxStaleBeyond DEF FlowInv
  <2> QED
    BY <1>3, <1>5, <2>1 DEF FlowInv, TxqHolds
<1>10. TxHolds'
  BY <1>3, SameTx DEF FlowInv
<1> QED
  BY <1>4, <1>6, <1>7, <1>8, <1>9, <1>10 DEF FlowInv

\* rx.out hands a descriptor with a packet over (vhost.h:92).
LEMMA RxPublishFlow ==
  ASSUME Sound, FlowInv, RxPublish, UNCHANGED <<nfVars, txVars>>
  PROVE  FlowInv' /\ RxSent' = RxSent + 1
<1> DEFINE h == rx_last_used + rx_i
<1>1. /\ rx_pc = "publish" /\ rx_count \in 1 .. NENTRIES /\ rx_i \in 0 .. rx_count - 1
      /\ rx_last_used \in Slots /\ rx_last_used + rx_count <= NENTRIES /\ NENTRIES \in Nat \ {0}
      /\ rx_counter \in Nat /\ rx_sent \in Nat
      /\ nf_rx_used \in Slots /\ NfRxLeft \in Nat /\ rxd_flags \in [Slots -> Flags]
      /\ NfTaken \in Int /\ RxSent \in Int
  BY RxFacts, Facts DEF Sound, RxPublish, ShmTypeOK
<1>2. h \in Slots /\ RxFlip = h /\ Ahead(h, rx_last_used) = rx_i
  BY <1>1 DEF Slots, Ahead, RxFlip, Wrap
<1>3. UNCHANGED <<rxd_buf, txd_flags, txd_buf, pktmem, rx_bufs>>
      /\ rxd_flags' = [rxd_flags EXCEPT ![h] = USED_FLAG]
  BY DEF RxPublish
<1>4. RxSent' = RxSent + 1
  <2>1. CASE rx_i + 1 < rx_count
    BY <1>1, <2>1 DEF RxPublish, RxSent, FlowSent
  <2>2. CASE ~(rx_i + 1 < rx_count)
    <3>1. /\ rx_i + 1 = rx_count /\ RxBurstReturns(rx_sent + rx_count) /\ rx_i' = 0
      BY <1>1, <2>2 DEF RxPublish
    <3> QED
      BY <1>1, <3>1 DEF RxBurstReturns, RxSent, FlowSent
  <2> QED
    BY <2>1, <2>2
<1>5. RxFlip' = Wrap(h + 1)
  <2>1. CASE rx_i + 1 < rx_count
    <3>1. RxFlip' = Wrap(rx_last_used + (rx_i + 1)) /\ rx_last_used + (rx_i + 1) = h + 1
      BY <1>1, <2>1 DEF RxPublish, RxFlip, Slots
    <3> QED
      BY <3>1
  <2>2. CASE ~(rx_i + 1 < rx_count)
    <3>1. /\ rx_i + 1 = rx_count /\ RxBurstReturns(rx_sent + rx_count)
          /\ rx_last_used' = Wrap(rx_last_used + rx_count)
      BY <1>1, <2>2 DEF RxPublish
    <3>2. RxFlip' = Wrap(rx_last_used + rx_count) /\ rx_last_used + rx_count = h + 1
      BY <1>1, <3>1 DEF RxBurstReturns, RxFlip, Slots
    <3> QED
      BY <3>2
  <2> QED
    BY <2>1, <2>2
<1>6. UNCHANGED <<NfTaken, NfSent, NfRxLeft, NfTxFlip, NfTxLeft, NfUnpublished, nf_rx_used,
                  TxReleased, TxFlip, InTxq>>
  BY NfStill, HostsStill DEF InTxq
<1>7. /\ InRxq \in 0 .. NENTRIES - NfRxLeft /\ h = Wrap(nf_rx_used + InRxq)
      /\ \A s \in Slots : rxd_flags[s] = USED_FLAG <=>
           Ahead(s, nf_rx_used) < InRxq \/ Ahead(s, nf_rx_used) >= NENTRIES - NfRxLeft
      /\ \A s \in Slots : Ahead(s, nf_rx_used) < InRxq =>
           pktmem[rxd_buf[s]] = NfTaken + 1 + Ahead(s, nf_rx_used)
  BY <1>2 DEF FlowInv, RxqHolds
<1>8. rxd_flags[h] = AVAIL_FLAG
  <2>1. h \in RxClaimed
    <3>1. Wrap(rx_last_used + rx_i) = h /\ Ahead(h, h) = 0 /\ rx_count - rx_i > 0
      BY <1>1, <1>2, AheadZero DEF RxFlip
    <3> QED
      BY <1>1, <1>2, <3>1 DEF RxClaimed, RxLeft, Window
  <2> QED
    BY <2>1, InvExclusive DEF Sound, DescExclusive
<1>9. InRxq < NENTRIES - NfRxLeft /\ Ahead(h, nf_rx_used) = InRxq
  <2>1. ~(Ahead(h, nf_rx_used) < InRxq) /\ ~(Ahead(h, nf_rx_used) >= NENTRIES - NfRxLeft)
    BY <1>2, <1>7, <1>8 DEF AVAIL_FLAG, USED_FLAG
  <2>2. Ahead(h, nf_rx_used) \in 0 .. NENTRIES - 1
    BY <1>1, <1>2, AheadBounds
  <2>3. InRxq \in 0 .. NENTRIES - 1
    BY <1>1, <1>7, <2>1, <2>2
  <2>4. Ahead(h, nf_rx_used) = InRxq
    BY <1>1, <1>7, <2>3, AheadWrap
  <2> QED
    BY <1>1, <1>7, <2>1, <2>4
<1>10. InRxq' = InRxq + 1
  BY <1>1, <1>4, <1>6 DEF InRxq
<1>11. RxqHolds'
  <2>1. InRxq' \in 0 .. NENTRIES - NfRxLeft
    BY <1>1, <1>7, <1>9, <1>10
  <2>2. RxFlip' = Wrap(nf_rx_used + InRxq')
    <3>1. Wrap(Wrap(nf_rx_used + InRxq) + 1) = Wrap(nf_rx_used + InRxq + 1)
      BY <1>1, <1>7, <1>9, WrapWrap
    <3>2. nf_rx_used + InRxq + 1 = nf_rx_used + (InRxq + 1)
      BY <1>1, <1>7 DEF Slots
    <3> QED
      BY <1>5, <1>7, <1>10, <3>1, <3>2
  <2>3. ASSUME NEW s \in Slots
        PROVE  /\ rxd_flags'[s] = USED_FLAG <=>
                    Ahead(s, nf_rx_used) < InRxq' \/ Ahead(s, nf_rx_used) >= NENTRIES - NfRxLeft
               /\ Ahead(s, nf_rx_used) < InRxq' =>
                    pktmem[rxd_buf[s]] = NfTaken + 1 + Ahead(s, nf_rx_used)
    <3>1. CASE s = h
      <4>1. rxd_flags'[s] = USED_FLAG
        BY <1>1, <1>2, <1>3, <3>1
      <4>2. pktmem[rxd_buf[h]] = NfTaken + 1 + InRxq
        <5>1. rx_i + 1 \in 1 .. rx_count /\ rx_i + 1 > rx_i /\ rx_last_used + (rx_i + 1) - 1 = h
          BY <1>1 DEF Slots
        <5>2. pktmem[rxd_buf[h]] = rx_counter + rx_sent + (rx_i + 1)
          BY <1>1, <5>1 DEF FlowInv, RxHolds
        <5>3. RxSent = rx_counter + rx_sent + rx_i
          BY <1>1 DEF RxSent, FlowSent
        <5> QED
          BY <1>1, <5>2, <5>3 DEF InRxq
      <4> QED
        BY <1>7, <1>9, <1>10, <3>1, <4>1, <4>2
    <3>2. CASE s # h
      <4>1. rxd_flags'[s] = rxd_flags[s]
        BY <1>1, <1>3, <3>2
      <4>2. Ahead(s, nf_rx_used) # InRxq /\ Ahead(s, nf_rx_used) \in 0 .. NENTRIES - 1
        BY <1>1, <1>7, <3>2, AheadBounds
      <4>3. Ahead(s, nf_rx_used) < InRxq' <=> Ahead(s, nf_rx_used) < InRxq
        BY <1>7, <1>10, <4>2
      <4> QED
        BY <1>7, <4>1, <4>3
    <3> QED
      BY <3>1, <3>2
  <2> QED
    BY <1>3, <1>6, <2>1, <2>2, <2>3 DEF RxqHolds
<1>12. RxHolds'
  <2>1. CASE rx_i + 1 < rx_count
    <3>1. /\ rx_pc' = "publish" /\ rx_i' = rx_i + 1
          /\ UNCHANGED <<rx_count, rx_counter, rx_sent, rx_last_used>>
      BY <2>1, <1>1 DEF RxPublish
    <3>2. \A j \in 1 .. rx_count : j > rx_i =>
             pktmem[rxd_buf[rx_last_used + j - 1]] = rx_counter + rx_sent + j
      BY <1>1 DEF FlowInv, RxHolds
    <3>3. \A j \in 1 .. rx_count : j > rx_i + 1 => j > rx_i
      BY <1>1
    <3> QED
      BY <1>3, <3>1, <3>2, <3>3 DEF RxHolds
  <2>2. CASE ~(rx_i + 1 < rx_count)
    BY <2>2 DEF RxPublish, RxBurstReturns, RxHolds
  <2> QED
    BY <2>1, <2>2
<1>13. NfHolds' /\ TxHolds'
  BY <1>3, SameNf, SameTx DEF FlowInv
<1>14. TxqHolds'
  BY <1>3, <1>6, SameTxq DEF FlowInv
<1> QED
  BY <1>4, <1>11, <1>12, <1>13, <1>14 DEF FlowInv

-----------------------------------------------------------------------------
\* The k-th descriptor from a cursor on.
LEMMA AheadStep ==
  ASSUME NEW c \in Slots, NEW k \in 1 .. NENTRIES
  PROVE  Wrap(c + k - 1) \in Slots /\ Ahead(Wrap(c + k - 1), c) = k - 1
<1>1. k - 1 \in 0 .. NENTRIES - 1 /\ c + k - 1 = c + (k - 1)
  BY NEntriesAssumption DEF Slots
<1> QED
  BY <1>1, AheadWrap, WrapSlot, NEntriesAssumption

\* nf.out takes a batch (vio.h:25-37): it gets the oldest packets of the queue.
LEMMA NfTakeFlow ==
  ASSUME Sound, FlowInv, NfTake, UNCHANGED <<rxVars, txVars>>
  PROVE  FlowInv' /\ NfTaken' = NfTaken + nf_num /\ UNCHANGED NfSent
<1> DEFINE u == nf_rx_used
<1>1. /\ nf_pc = "poll" /\ nf_pc' = "refill" /\ nf_num \in 1 .. NENTRIES /\ u \in Slots
      /\ NENTRIES \in Nat \ {0} /\ nf_rx_avail = u /\ NfTaken \in Int /\ RxSent \in Int
  BY Facts DEF Sound, NfTake, NfRxCursors
<1>2. /\ UNCHANGED shmVars /\ UNCHANGED <<nf_num, nf_counter, nf_prev, nf_tx_avail>>
      /\ nf_rx_used' = Wrap(u + nf_num)
      /\ nf_bufs' = [j \in 1 .. nf_num |-> rxd_buf[Wrap(u + j - 1)]]
      /\ rxd_flags[Wrap(u + nf_num - 1)] = USED_FLAG
  BY DEF NfTake, NfMayTake
<1>3. /\ NfTaken' = NfTaken + nf_num /\ NfSent' = NfSent /\ NfRxLeft = 0 /\ NfRxLeft' = nf_num
      /\ NfTxFlip' = NfTxFlip /\ NfTxLeft' = NfTxLeft /\ NfUnpublished' = NfUnpublished
      /\ InBatch' = 1 .. nf_num
  BY <1>1, <1>2, Facts
  DEF Sound, NfTypeOK, NfTaken, NfSent, NfRxLeft, NfTxFlip, NfTxLeft, NfUnpublished, InBatch
<1>4. UNCHANGED <<RxSent, RxFlip, TxReleased, TxFlip, InTxq>>
  BY <1>3, HostsStill DEF InTxq
<1>5. InRxq' = InRxq - nf_num
  BY <1>1, <1>3, <1>4 DEF InRxq
<1>6. /\ InRxq \in 0 .. NENTRIES /\ RxFlip = Wrap(u + InRxq)
      /\ \A s \in Slots : rxd_flags[s] = USED_FLAG <=>
           Ahead(s, u) < InRxq \/ Ahead(s, u) >= NENTRIES
      /\ \A s \in Slots : Ahead(s, u) < InRxq => pktmem[rxd_buf[s]] = NfTaken + 1 + Ahead(s, u)
  BY <1>1, <1>3 DEF FlowInv, RxqHolds
<1>7. nf_num <= InRxq
  <2>1. /\ Wrap(u + nf_num - 1) \in Slots /\ Ahead(Wrap(u + nf_num - 1), u) = nf_num - 1
    BY <1>1, AheadStep
  <2> QED
    BY <1>1, <1>2, <1>6, <2>1
<1>8. RxqHolds'
  <2>1. InRxq' \in 0 .. NENTRIES - nf_num
    BY <1>1, <1>5, <1>6, <1>7
  <2>2. RxFlip = Wrap(Wrap(u + nf_num) + InRxq')
    <3>1. Wrap(Wrap(u + nf_num) + InRxq') = Wrap(u + nf_num + InRxq')
      BY <1>1, <2>1, WrapWrap
    <3>2. u + nf_num + InRxq' = u + InRxq
      BY <1>1, <1>5, <1>6 DEF Slots
    <3> QED
      BY <1>6, <3>1, <3>2
  <2>3. ASSUME NEW s \in Slots
        PROVE  /\ rxd_flags[s] = USED_FLAG <=>
                    Ahead(s, Wrap(u + nf_num)) < InRxq' \/ Ahead(s, Wrap(u + nf_num)) >= NENTRIES - nf_num
               /\ Ahead(s, Wrap(u + nf_num)) < InRxq' =>
                    pktmem[rxd_buf[s]] = NfTaken' + 1 + Ahead(s, Wrap(u + nf_num))
    <3>1. Ahead(s, Wrap(u + nf_num)) = IF Ahead(s, u) >= nf_num THEN Ahead(s, u) - nf_num
                                       ELSE Ahead(s, u) - nf_num + NENTRIES
      BY <1>1, AheadFrom
    <3>2. Ahead(s, u) \in 0 .. NENTRIES - 1
      BY <1>1, AheadBounds
    <3>3. rxd_flags[s] = USED_FLAG <=> Ahead(s, u) < InRxq
      BY <1>1, <1>6, <3>2
    <3>4. CASE Ahead(s, u) >= nf_num
      BY <1>1, <1>3, <1>5, <1>6, <1>7, <3>1, <3>2, <3>3, <3>4
    <3>5. CASE ~(Ahead(s, u) >= nf_num)
      BY <1>1, <1>3, <1>5, <1>6, <1>7, <3>1, <3>2, <3>3, <3>5
    <3> QED
      BY <3>4, <3>5
  <2> QED
    BY <1>2, <1>3, <1>4, <2>1, <2>2, <2>3 DEF RxqHolds, shmVars
<1>9. NfHolds'
  <2>1. ASSUME NEW k \in 1 .. nf_num
        PROVE  pktmem[nf_bufs'[k]] = NfTaken' - nf_num + k
    <3>1. Wrap(u + k - 1) \in Slots /\ Ahead(Wrap(u + k - 1), u) = k - 1
      BY <1>1, AheadStep
    <3>2. pktmem[rxd_buf[Wrap(u + k - 1)]] = NfTaken + 1 + (k - 1)
      BY <1>1, <1>6, <1>7, <3>1
    <3> QED
      BY <1>1, <1>2, <1>3, <3>2
  <2>2. nf_prev' = nf_counter'
    BY <1>1, <1>2 DEF FlowInv, NfHolds
  <2> QED
    BY <1>1, <1>2, <1>3, <2>1, <2>2 DEF NfHolds, shmVars
<1>10. TxqHolds'
  BY <1>2, <1>3, <1>4, SameTxq DEF FlowInv, shmVars
<1>11. RxHolds' /\ TxHolds'
  BY <1>2, SameRx, SameTx DEF FlowInv, shmVars
<1> QED
  BY <1>3, <1>8, <1>9, <1>10, <1>11 DEF FlowInv

\* nf.out puts a buffer into an RX descriptor (vio.h:33-37).
LEMMA NfRefillFlow ==
  ASSUME Sound, FlowInv, NfRefill, UNCHANGED <<rxVars, txVars>>
  PROVE  FlowInv' /\ UNCHANGED <<NfTaken, NfSent>>
<1> DEFINE r == nf_rx_avail
<1>1. /\ nf_pc = "refill" /\ nf_num \in 1 .. NENTRIES /\ nf_i \in 0 .. nf_num - 1
      /\ NENTRIES \in Nat \ {0} /\ nf_shadow \in Slots /\ r \in Slots
      /\ r = Wrap(nf_shadow + nf_i) /\ nf_rx_used = Wrap(nf_shadow + nf_num)
      /\ rxd_buf \in [Slots -> Objs] /\ nf_counter \in Int
  <2>1. nf_pc = "refill"
    BY DEF NfRefill
  <2> QED
    BY <2>1, Facts, NfBatch DEF Sound, NfRxCursors, ShmTypeOK
<1>2. /\ \A s \in Slots : s # r => rxd_buf'[s] = rxd_buf[s]
      /\ UNCHANGED <<rxd_flags, txd_flags, txd_buf, pktmem, nf_num, nf_counter, nf_prev, nf_bufs,
                     nf_rx_used, nf_tx_avail, nf_shadow>>
      /\ (nf_pc' = "refill" \/ (nf_pc' = "offer" /\ nf_i' = 0))
  BY <1>1 DEF NfRefill
<1>3. UNCHANGED <<NfTaken, NfSent, NfRxLeft, NfTxFlip, NfTxLeft, NfUnpublished, InBatch>>
  <2>1. UNCHANGED <<NfTaken, NfSent, NfTxFlip, NfTxLeft, NfUnpublished, InBatch>>
    BY <1>1, <1>2 DEF NfTaken, NfSent, NfTxFlip, NfTxLeft, NfUnpublished, InBatch
  <2>2. NfRxLeft' = NfRxLeft
    BY <1>1, <1>2 DEF NfRxLeft
  <2> QED
    BY <2>1, <2>2
<1>4. UNCHANGED <<RxSent, RxFlip, RxLeft, TxReleased, TxFlip, InRxq, InTxq>>
  BY <1>3, HostsStill DEF InRxq, InTxq
<1>5. NfRxFlip = nf_shadow /\ NfRxLeft = nf_num
  BY <1>1 DEF NfRxFlip, NfRxLeft
<1>6. Ahead(r, nf_shadow) = nf_i
  BY <1>1, AheadWrap
<1>7. rxd_flags[r] = USED_FLAG
  <2>1. r \in NfRxClaimed
    BY <1>1, <1>5, <1>6 DEF NfRxClaimed, Window
  <2> QED
    BY <2>1, InvExclusive DEF Sound, DescExclusive
<1>8. RxqHolds'
  <2>1. Ahead(r, nf_rx_used) = nf_i - nf_num + NENTRIES
    BY <1>1, <1>6, AheadFrom
  <2>2. ~(Ahead(r, nf_rx_used) < InRxq)
    BY <1>1, <1>5, <2>1 DEF FlowInv, RxqHolds
  <2> QED
    BY <1>2, <1>3, <1>4, <2>2 DEF FlowInv, RxqHolds
<1>9. RxHolds'
  <2>1. ASSUME rx_pc \in {"copy", "publish"}, NEW j \in 1 .. rx_count,
               rx_pc = "copy" \/ j > rx_i
        PROVE  rxd_buf'[rx_last_used + j - 1] = rxd_buf[rx_last_used + j - 1]
    <3> DEFINE t == rx_last_used + j - 1
    <3>1. /\ rx_count \in 1 .. NENTRIES /\ rx_i \in 0 .. rx_count - 1
          /\ rx_last_used \in Slots /\ rx_last_used + rx_count <= NENTRIES
      BY <2>1, RxFacts DEF Sound
    <3>2. t \in Slots /\ Ahead(t, rx_last_used) = j - 1
      BY <1>1, <3>1 DEF Slots, Ahead
    <3>3. rx_last_used + rx_i \in Slots /\ Wrap(rx_last_used + rx_i) = rx_last_used + rx_i
      BY <1>1, <3>1 DEF Slots, Wrap
    <3>4. t \in RxClaimed
      <4>1. CASE rx_pc = "copy"
        BY <3>1, <3>2, <4>1 DEF RxClaimed, RxFlip, RxLeft, Window
      <4>2. CASE rx_pc = "publish"
        <5>1. Ahead(t, rx_last_used + rx_i) = j - 1 - rx_i
          BY <1>1, <2>1, <3>1, <4>2 DEF Slots, Ahead
        <5> QED
          BY <3>1, <3>2, <3>3, <4>2, <5>1 DEF RxClaimed, RxFlip, RxLeft, Window
      <4> QED
        BY <2>1, <4>1, <4>2
    <3>5. rxd_flags[t] = AVAIL_FLAG
      BY <3>4, InvExclusive DEF Sound, DescExclusive
    <3> QED
      BY <1>2, <1>7, <3>2, <3>5 DEF AVAIL_FLAG, USED_FLAG
  <2> QED
    BY <1>2, <2>1 DEF FlowInv, RxHolds, rxVars
<1>10. NfHolds'
  BY <1>1, <1>2, <1>3 DEF FlowInv, NfHolds
<1>11. TxqHolds'
  BY <1>2, <1>3, <1>4, SameTxq DEF FlowInv
<1>12. TxHolds'
  BY <1>2, SameTx DEF FlowInv
<1> QED
  BY <1>3, <1>8, <1>9, <1>10, <1>11, <1>12 DEF FlowInv

\* nf.out hands an RX descriptor back (vio.h:40-42).
LEMMA NfOfferFlow ==
  ASSUME Sound, FlowInv, NfOffer, UNCHANGED <<rxVars, txVars>>
  PROVE  FlowInv' /\ UNCHANGED <<NfTaken, NfSent>>
<1> DEFINE g == Wrap(nf_shadow + nf_i)
<1>1. /\ nf_pc = "offer" /\ nf_num \in 1 .. NENTRIES /\ nf_i \in 0 .. nf_num - 1
      /\ NENTRIES \in Nat \ {0} /\ nf_shadow \in Slots /\ nf_rx_used \in Slots
      /\ nf_rx_used = Wrap(nf_shadow + nf_num)
      /\ rxd_flags \in [Slots -> Flags] /\ nf_counter \in Int
  <2>1. nf_pc = "offer"
    BY DEF NfOffer
  <2> QED
    BY <2>1, Facts, NfBatch DEF Sound, NfRxCursors, ShmTypeOK
<1>2. /\ rxd_flags' = [rxd_flags EXCEPT ![g] = AVAIL_FLAG]
      /\ UNCHANGED <<rxd_buf, txd_flags, txd_buf, pktmem, nf_num, nf_prev, nf_bufs,
                     nf_rx_used, nf_tx_avail, nf_shadow>>
      /\ \/ nf_i + 1 < nf_num /\ nf_i' = nf_i + 1 /\ nf_pc' = "offer" /\ nf_counter' = nf_counter
         \/ nf_i + 1 = nf_num /\ nf_i' = 0 /\ nf_pc' = "check" /\ nf_counter' = nf_counter + nf_num
  BY <1>1 DEF NfOffer, NfOfferSlot
<1>3. UNCHANGED <<NfTaken, NfSent, NfTxFlip, NfTxLeft, NfUnpublished, InBatch>>
  BY <1>1, <1>2 DEF NfTaken, NfSent, NfTxFlip, NfTxLeft, NfUnpublished, InBatch
<1>4. NfRxLeft = nf_num - nf_i /\ NfRxLeft' = NfRxLeft - 1
  BY <1>1, <1>2 DEF NfRxLeft
<1>5. UNCHANGED <<RxSent, RxFlip, TxReleased, TxFlip, InRxq, InTxq>>
  BY <1>3, HostsStill DEF InRxq, InTxq
<1>6. RxqHolds'
  <2>1. /\ g \in Slots /\ Ahead(g, nf_rx_used) = NENTRIES - NfRxLeft
    <3>1. nf_i \in 0 .. NENTRIES - 1 /\ nf_num \in 0 .. NENTRIES
      BY <1>1
    <3>2. g \in Slots /\ Ahead(g, nf_shadow) = nf_i
      BY <1>1, <3>1, AheadWrap, WrapSlot
    <3>3. Ahead(g, nf_rx_used) = IF nf_i >= nf_num THEN nf_i - nf_num ELSE nf_i - nf_num + NENTRIES
      BY <1>1, <3>1, <3>2, AheadFrom
    <3> QED
      BY <1>1, <1>4, <3>2, <3>3
  <2>2. /\ InRxq \in 0 .. NENTRIES - NfRxLeft /\ RxFlip = Wrap(nf_rx_used + InRxq)
        /\ \A s \in Slots : rxd_flags[s] = USED_FLAG <=>
             Ahead(s, nf_rx_used) < InRxq \/ Ahead(s, nf_rx_used) >= NENTRIES - NfRxLeft
        /\ \A s \in Slots : Ahead(s, nf_rx_used) < InRxq =>
             pktmem[rxd_buf[s]] = NfTaken + 1 + Ahead(s, nf_rx_used)
    BY DEF FlowInv, RxqHolds
  <2>3. ASSUME NEW s \in Slots
        PROVE  rxd_flags'[s] = USED_FLAG <=>
                 Ahead(s, nf_rx_used) < InRxq \/ Ahead(s, nf_rx_used) >= NENTRIES - (NfRxLeft - 1)
    <3>1. CASE s = g
      <4>1. rxd_flags'[s] # USED_FLAG
        BY <1>1, <1>2, <2>1, <3>1 DEF AVAIL_FLAG, USED_FLAG
      <4> QED
        BY <1>1, <1>4, <2>1, <2>2, <3>1, <4>1
    <3>2. CASE s # g
      <4>1. rxd_flags'[s] = rxd_flags[s]
        BY <1>1, <1>2, <3>2
      <4>2. Ahead(s, nf_rx_used) # NENTRIES - NfRxLeft /\ Ahead(s, nf_rx_used) \in Int
        BY <1>1, <2>1, <3>2, AheadBounds
      <4> QED
        BY <1>1, <1>4, <2>2, <4>1, <4>2
    <3> QED
      BY <3>1, <3>2
  <2>4. InRxq \in 0 .. NENTRIES - (NfRxLeft - 1)
    BY <1>1, <1>4, <2>2
  <2> QED
    BY <1>2, <1>3, <1>4, <1>5, <2>2, <2>3, <2>4 DEF RxqHolds
<1>7. NfHolds'
  <2>1. nf_prev' = IF nf_pc' = "check" THEN nf_counter' - nf_num' + nf_i' ELSE nf_counter'
    BY <1>1, <1>2 DEF FlowInv, NfHolds
  <2> QED
    BY <1>2, <1>3, <2>1 DEF FlowInv, NfHolds
<1>8. TxqHolds'
  BY <1>2, <1>3, <1>5, SameTxq DEF FlowInv
<1>9. RxHolds' /\ TxHolds'
  BY <1>2, SameRx, SameTx DEF FlowInv
<1> QED
  BY <1>3, <1>6, <1>7, <1>8, <1>9 DEF FlowInv

\* nf.out polls, checks a packet, or has been told to stop.
LEMMA NfQuietFlow ==
  ASSUME Sound, FlowInv, NfHalve \/ NfCheck \/ NfExit, UNCHANGED <<rxVars, txVars>>
  PROVE  FlowInv' /\ UNCHANGED <<NfTaken, NfSent>>
<1>1. UNCHANGED shmVars /\ UNCHANGED <<nf_bufs, nf_counter, nf_rx_used, nf_tx_avail, nf_shadow>>
  BY DEF NfHalve, NfCheck, NfExit
<1>2. CASE NfHalve \/ NfExit
  <2>1. /\ UNCHANGED <<NfTaken, NfSent, NfRxLeft, NfTxFlip, NfTxLeft, NfUnpublished>>
        /\ nf_prev' = nf_prev /\ InBatch = {} /\ InBatch' = {}
        /\ nf_pc \in {"poll", "wait"} /\ nf_pc' \in {"poll", "done"}
    BY <1>2 DEF NfHalve, NfExit, NfTaken, NfSent, NfRxLeft, NfTxFlip, NfTxLeft, NfUnpublished, InBatch
  <2>2. UNCHANGED <<RxSent, RxFlip, TxReleased, TxFlip, InRxq, InTxq>>
    BY <2>1, HostsStill DEF InRxq, InTxq
  <2>3. RxqHolds' /\ TxqHolds'
    BY <1>1, <2>1, <2>2, SameRxq, SameTxq DEF FlowInv, shmVars
  <2>4. NfHolds'
    BY <1>1, <2>1 DEF FlowInv, NfHolds
  <2>5. RxHolds' /\ TxHolds'
    BY <1>1, SameRx, SameTx DEF FlowInv, shmVars
  <2> QED
    BY <2>1, <2>3, <2>4, <2>5 DEF FlowInv
<1>3. CASE NfCheck
  <2>1. /\ nf_pc = "check" /\ nf_num \in 1 .. NENTRIES /\ nf_i \in 0 .. nf_num - 1
        /\ nf_counter \in Nat /\ NENTRIES \in Nat
    BY <1>3, Facts, NfBatch DEF Sound, NfCheck
  <2>2. /\ nf_num' = nf_num
        /\ \/ nf_i + 1 < nf_num /\ nf_i' = nf_i + 1 /\ nf_pc' = "check"
           \/ nf_i + 1 = nf_num /\ nf_i' = 0 /\ nf_pc' = "xmit"
    BY <1>3, <2>1 DEF NfCheck
  <2>3. /\ UNCHANGED <<NfTaken, NfSent, NfRxLeft, NfTxFlip, NfTxLeft, NfUnpublished>>
        /\ InBatch = 1 .. nf_num /\ InBatch' = InBatch /\ NfTaken = nf_counter
    BY <1>1, <2>1, <2>2 DEF NfTaken, NfSent, NfRxLeft, NfTxFlip, NfTxLeft, NfUnpublished, InBatch
  <2>4. UNCHANGED <<RxSent, RxFlip, TxReleased, TxFlip, InRxq, InTxq>>
    BY <2>3, HostsStill DEF InRxq, InTxq
  <2>5. RxqHolds' /\ TxqHolds'
    BY <1>1, <2>3, <2>4, SameRxq, SameTxq DEF FlowInv, shmVars
  <2>6. NfHolds'
    <3>1. nf_i + 1 \in InBatch
      BY <2>1, <2>3
    <3>2. nf_prev' = nf_counter - nf_num + (nf_i + 1)
      BY <1>3, <2>3, <3>1 DEF NfCheck, FlowInv, NfHolds
    <3>3. nf_prev' = IF nf_pc' = "check" THEN nf_counter' - nf_num' + nf_i' ELSE nf_counter'
      BY <1>1, <2>1, <2>2, <3>2
    <3>4. nf_pc' \notin {"put", "publish"}
      BY <2>2
    <3> QED
      BY <1>1, <2>2, <2>3, <3>3, <3>4 DEF FlowInv, NfHolds, shmVars
  <2>7. RxHolds' /\ TxHolds'
    BY <1>1, SameRx, SameTx DEF FlowInv, shmVars
  <2> QED
    BY <2>3, <2>5, <2>6, <2>7 DEF FlowInv
<1> QED
  BY <1>2, <1>3
-----------------------------------------------------------------------------
\* nf.out may send its batch (vio.h:121).
LEMMA NfXmitFlow ==
  ASSUME Sound, FlowInv, NfXmit, UNCHANGED <<rxVars, txVars>>
  PROVE  FlowInv' /\ UNCHANGED <<NfTaken, NfSent>>
<1>1. /\ nf_pc = "xmit" /\ nf_num \in 1 .. NENTRIES /\ NENTRIES \in Nat \ {0}
      /\ nf_tx_used = nf_tx_avail /\ nf_tx_avail \in Slots /\ TxFlip \in Slots
      /\ nf_free_cnt = 0 /\ nf_counter \in Nat
      /\ txd_flags \in [Slots -> Flags]
  BY Facts DEF Sound, NfXmit, NfTxCursors, NfTypeOK, ShmTypeOK
<1>2. /\ nf_pc' = "cleanup" /\ UNCHANGED shmVars
      /\ UNCHANGED <<nf_bufs, nf_counter, nf_prev, nf_num, nf_i, nf_rx_used, nf_tx_avail>>
      /\ txd_flags[Wrap(nf_tx_avail + nf_num - 1)] = USED_FLAG
  BY <1>1 DEF NfXmit, NfMayXmit
<1>3. /\ UNCHANGED <<NfTaken, NfSent, NfRxLeft, NfTxFlip, NfUnpublished, InBatch>>
      /\ NfTxFlip = nf_tx_avail /\ NfTxLeft = 0 /\ NfTxLeft' = nf_num
  BY <1>1, <1>2 DEF NfTaken, NfSent, NfRxLeft, NfTxFlip, NfTxLeft, NfUnpublished, InBatch
<1>4. UNCHANGED <<RxSent, RxFlip, TxReleased, TxFlip, InRxq, InTxq>>
  BY <1>3, HostsStill DEF InRxq, InTxq
<1>5. InTxq \in 0 .. NENTRIES - nf_num
  <2>1. /\ InTxq \in 0 .. NENTRIES /\ nf_tx_avail = Wrap(TxFlip + InTxq)
        /\ \A s \in Slots : txd_flags[s] = AVAIL_FLAG <=> Ahead(s, TxFlip) < InTxq
    BY <1>1, <1>3 DEF FlowInv, TxqHolds
  <2> DEFINE s == Wrap(nf_tx_avail + nf_num - 1)
  <2>2. s \in Slots /\ Ahead(s, nf_tx_avail) = nf_num - 1
    BY <1>1, AheadStep
  <2>3. ~(Ahead(s, TxFlip) < InTxq)
    BY <1>2, <2>1, <2>2 DEF AVAIL_FLAG, USED_FLAG
  <2>4. /\ Ahead(s, nf_tx_avail) = IF Ahead(s, TxFlip) >= InTxq THEN Ahead(s, TxFlip) - InTxq
                                   ELSE Ahead(s, TxFlip) - InTxq + NENTRIES
        /\ Ahead(s, TxFlip) \in 0 .. NENTRIES - 1
    BY <1>1, <2>1, <2>2, AheadFrom, AheadBounds
  <2> HIDE DEF s
  <2> QED
    BY <1>1, <2>1, <2>2, <2>3, <2>4
<1>6. TxqHolds'
  BY <1>2, <1>3, <1>4, <1>5 DEF FlowInv, TxqHolds, shmVars
<1>7. RxqHolds'
  BY <1>2, <1>3, <1>4, SameRxq DEF FlowInv, shmVars
<1>8. NfHolds'
  BY <1>1, <1>2, <1>3 DEF FlowInv, NfHolds, shmVars
<1>9. RxHolds' /\ TxHolds'
  BY <1>2, SameRx, SameTx DEF FlowInv, shmVars
<1> QED
  BY <1>3, <1>6, <1>7, <1>8, <1>9 DEF FlowInv

\* nf.out frees the buffer of a packet that was received (vio.h:83-100).
LEMMA NfCleanupFlow ==
  ASSUME Sound, FlowInv, NfCleanup, nf_pc' \notin {"failed", "overrun"},
         UNCHANGED <<rxVars, txVars>>
  PROVE  FlowInv' /\ UNCHANGED <<NfTaken, NfSent>>
<1>1. /\ nf_pc = "cleanup" /\ nf_num \in 1 .. NENTRIES /\ nf_i \in 0 .. nf_num - 1
      /\ nf_free_cnt = 0 /\ nf_shadow = nf_tx_avail /\ NENTRIES \in Nat
  <2>1. nf_pc = "cleanup"
    BY DEF NfCleanup
  <2> QED
    BY <2>1, Facts, NfBatch DEF Sound, NfTxCursors
<1>2. /\ nf_i + 1 = nf_num - nf_free_cnt <=> nf_i + 1 = nf_num
      /\ nf_i + 1 = nf_num => ~(nf_num > nf_free_cnt + nf_i + 1)
  BY <1>1
<1>3. /\ nf_pc' = "cleanup" \/ (nf_pc' = "put" /\ nf_i' = 0)
      /\ UNCHANGED shmVars
      /\ UNCHANGED <<nf_bufs, nf_counter, nf_prev, nf_num, nf_shadow, nf_rx_used, nf_tx_avail>>
  BY <1>1, <1>2 DEF NfCleanup
<1>4. UNCHANGED <<NfTaken, NfSent, NfRxLeft, NfTxFlip, NfTxLeft, NfUnpublished, InBatch>>
  BY <1>1, <1>3 DEF NfTaken, NfSent, NfRxLeft, NfTxFlip, NfTxLeft, NfUnpublished, InBatch
<1>5. UNCHANGED <<RxSent, RxFlip, TxReleased, TxFlip, InRxq, InTxq>>
  BY <1>4, HostsStill DEF InRxq, InTxq
<1>6. RxqHolds' /\ TxqHolds'
  BY <1>3, <1>4, <1>5, SameRxq, SameTxq DEF FlowInv, shmVars
<1>7. NfHolds'
  <2>1. nf_pc' \in {"put", "publish"} => NfPutSoFar' = 0
    BY <1>3 DEF NfPutSoFar
  <2> QED
    BY <1>1, <1>3, <1>4, <2>1 DEF FlowInv, NfHolds, shmVars
<1>8. RxHolds' /\ TxHolds'
  BY <1>3, SameRx, SameTx DEF FlowInv, shmVars
<1> QED
  BY <1>4, <1>6, <1>7, <1>8 DEF FlowInv

\* nf.out puts a packet into a TX descriptor (vio.h:66-75).
LEMMA NfPutFlow ==
  ASSUME Sound, FlowInv, NfPut, UNCHANGED <<rxVars, txVars>>
  PROVE  FlowInv' /\ UNCHANGED <<NfTaken, NfSent>>
<1> DEFINE t == nf_tx_avail
<1>1. /\ nf_pc = "put" /\ nf_num \in 1 .. NENTRIES /\ nf_i \in 0 .. nf_num - 1
      /\ NENTRIES \in Nat \ {0} /\ nf_shadow \in Slots /\ t \in Slots /\ TxFlip \in Slots
      /\ t = Wrap(nf_shadow + nf_i) /\ nf_counter \in Nat
      /\ txd_buf \in [Slots -> Objs \cup {NoBuf}] /\ TxReleased \in Int
  <2>1. nf_pc = "put"
    BY DEF NfPut
  <2> QED
    BY <2>1, Facts, NfBatch DEF Sound, NfTxCursors, ShmTypeOK
<1>2. /\ txd_buf' = [txd_buf EXCEPT ![t] = nf_bufs[nf_i + 1]]
      /\ UNCHANGED <<rxd_flags, rxd_buf, txd_flags, pktmem, nf_num, nf_counter, nf_prev, nf_bufs,
                     nf_rx_used, nf_shadow>>
      /\ \/ nf_i + 1 < nf_num /\ nf_i' = nf_i + 1 /\ nf_pc' = "put"
         \/ nf_i + 1 = nf_num /\ nf_i' = 0 /\ nf_pc' = "publish"
  BY <1>1 DEF NfPut
<1>3. /\ UNCHANGED <<NfTaken, NfSent, NfRxLeft, NfTxLeft>>
      /\ NfTaken = nf_counter /\ NfSent = nf_counter - nf_num /\ NfTxLeft = nf_num
      /\ NfUnpublished = nf_i /\ NfUnpublished' = nf_i + 1
      /\ NfPutSoFar = nf_i /\ NfPutSoFar' = nf_i + 1 /\ NfTxFlip = nf_shadow
  BY <1>1, <1>2 DEF NfTaken, NfSent, NfRxLeft, NfTxFlip, NfTxLeft, NfUnpublished, NfPutSoFar
<1>4. NfTxFlip' = NfTxFlip
  BY <1>1, <1>2, WrapZero DEF NfTxFlip
<1>5. InBatch = nf_i + 1 .. nf_num /\ InBatch' \subseteq InBatch
  BY <1>1, <1>2 DEF InBatch
<1>6. UNCHANGED <<RxSent, RxFlip, TxReleased, TxFlip, TxLeft, InRxq, InTxq>>
  BY <1>3, HostsStill DEF InRxq, InTxq
<1>7. /\ InTxq \in 0 .. NENTRIES - nf_num /\ nf_shadow = Wrap(TxFlip + InTxq)
      /\ \A s \in Slots : Ahead(s, TxFlip) < InTxq + nf_i =>
           pktmem[txd_buf[s]] = TxReleased + 1 + Ahead(s, TxFlip)
  BY <1>3 DEF FlowInv, TxqHolds
<1>8. TxqHolds'
  <2>1. InTxq + nf_i \in 0 .. NENTRIES - 1 /\ Ahead(t, TxFlip) = InTxq + nf_i
          /\ t = Wrap(TxFlip + (InTxq + nf_i))
    <3>1. InTxq + nf_i \in 0 .. NENTRIES - 1 /\ InTxq \in Nat /\ nf_i \in Nat
      BY <1>1, <1>7
    <3>2. t = Wrap(TxFlip + InTxq + nf_i)
      BY <1>1, <1>7, <3>1, WrapWrap
    <3>3. TxFlip + InTxq + nf_i = TxFlip + (InTxq + nf_i)
      BY <1>1, <3>1 DEF Slots
    <3> QED
      BY <1>1, <3>1, <3>2, <3>3, AheadWrap
  <2>2. ASSUME NEW s \in Slots, Ahead(s, TxFlip) < InTxq + (nf_i + 1)
        PROVE  pktmem[txd_buf'[s]] = TxReleased + 1 + Ahead(s, TxFlip)
    <3>1. CASE s = t
      <4>1. txd_buf'[s] = nf_bufs[nf_i + 1] /\ nf_i + 1 \in InBatch
        BY <1>1, <1>2, <1>5, <3>1
      <4>2. pktmem[nf_bufs[nf_i + 1]] = nf_counter - nf_num + (nf_i + 1)
        BY <1>3, <4>1 DEF FlowInv, NfHolds
      <4>3. InTxq = nf_counter - nf_num - TxReleased
        BY <1>3 DEF InTxq
      <4> QED
        BY <1>1, <2>1, <3>1, <4>1, <4>2, <4>3
    <3>2. CASE s # t
      <4>1. Ahead(s, TxFlip) # InTxq + nf_i /\ Ahead(s, TxFlip) \in Int
        BY <1>1, <2>1, <3>2, AheadBounds
      <4>2. Ahead(s, TxFlip) < InTxq + nf_i
        BY <1>1, <1>7, <2>2, <4>1
      <4> QED
        BY <1>1, <1>2, <1>7, <3>2, <4>2
    <3> QED
      BY <3>1, <3>2
  <2> QED
    BY <1>2, <1>3, <1>4, <1>6, <2>2 DEF FlowInv, TxqHolds
<1>9. NfHolds'
  <2>1. ASSUME NEW k \in 1 .. nf_i + 1
        PROVE  txd_buf'[Wrap(nf_shadow + k - 1)] = nf_bufs[k]
    <3>1. Wrap(nf_shadow + k - 1) \in Slots /\ Ahead(Wrap(nf_shadow + k - 1), nf_shadow) = k - 1
      <4>1. k \in 1 .. NENTRIES
        BY <1>1
      <4> QED
        BY <1>1, <4>1, AheadStep
    <3>2. CASE k = nf_i + 1
      <4>1. nf_shadow + k - 1 = nf_shadow + nf_i
        BY <1>1, <3>2 DEF Slots
      <4> QED
        BY <1>1, <1>2, <3>2, <4>1
    <3>3. CASE k # nf_i + 1
      <4>1. k \in 1 .. nf_i
        BY <1>1, <3>3
      <4>2. Ahead(t, nf_shadow) = nf_i
        BY <1>1, AheadWrap
      <4>3. Wrap(nf_shadow + k - 1) # t
        BY <1>1, <3>1, <4>1, <4>2
      <4>4. txd_buf[Wrap(nf_shadow + k - 1)] = nf_bufs[k]
        BY <1>1, <1>3, <4>1 DEF FlowInv, NfHolds
      <4> QED
        BY <1>1, <1>2, <3>1, <4>3, <4>4
    <3> QED
      BY <3>2, <3>3
  <2>2. nf_prev' = nf_counter' /\ nf_pc' # "check"
    BY <1>1, <1>2 DEF FlowInv, NfHolds
  <2>3. \A k \in InBatch' : pktmem[nf_bufs[k]] = NfTaken - nf_num + k
    BY <1>5 DEF FlowInv, NfHolds
  <2> QED
    BY <1>2, <1>3, <2>1, <2>2, <2>3 DEF NfHolds
<1>10. TxHolds'
  <2>1. ASSUME tx_pc = "copy", NEW j \in 1 .. tx_count
        PROVE  txd_buf'[tx_last_avail + j - 1] = txd_buf[tx_last_avail + j - 1]
    <3> DEFINE s == tx_last_avail + j - 1
    <3>1. tx_count \in Nat /\ tx_last_avail \in Slots /\ tx_last_avail + tx_count <= NENTRIES
      BY <2>1, Facts DEF Sound, TxBurst, TxTypeOK
    <3>2. s \in Slots /\ Ahead(s, tx_last_avail) < tx_count
      BY <1>1, <3>1 DEF Slots, Ahead
    <3>3. txd_flags[s] = AVAIL_FLAG
      <4>1. s \in TxClaimed
        BY <2>1, <3>2 DEF TxClaimed, TxFlip, TxLeft, Window
      <4> QED
        BY <4>1, InvExclusive DEF Sound, DescExclusive
    <3>4. txd_flags[t] = USED_FLAG
      <4>1. t \in NfTxClaimed
        <5>1. Ahead(t, nf_shadow) = nf_i
          BY <1>1, AheadWrap
        <5> QED
          BY <1>1, <1>3, <5>1 DEF NfTxClaimed, Window
      <4> QED
        BY <4>1, InvExclusive DEF Sound, DescExclusive
    <3> QED
      BY <1>1, <1>2, <3>2, <3>3, <3>4 DEF AVAIL_FLAG, USED_FLAG
  <2> QED
    BY <2>1 DEF FlowInv, TxHolds, txVars
<1>11. RxqHolds'
  BY <1>2, <1>3, <1>6, SameRxq DEF FlowInv
<1>12. RxHolds'
  BY <1>2, SameRx DEF FlowInv
<1> QED
  BY <1>3, <1>8, <1>9, <1>10, <1>11, <1>12 DEF FlowInv


\* nf.out hands a descriptor with a packet over (vio.h:136-138).
LEMMA NfPublishFlow ==
  ASSUME Sound, FlowInv, NfPublish, UNCHANGED <<rxVars, txVars>>
  PROVE  FlowInv' /\ NfSent' = NfSent + 1 /\ UNCHANGED NfTaken
<1> DEFINE g == Wrap(nf_shadow + nf_i)
<1>1. /\ nf_pc = "publish" /\ nf_num \in 1 .. NENTRIES /\ nf_i \in 0 .. nf_num - 1
      /\ NENTRIES \in Nat \ {0} /\ nf_shadow \in Slots /\ TxFlip \in Slots
      /\ nf_tx_avail = Wrap(nf_shadow + nf_num) /\ nf_counter \in Nat
      /\ txd_flags \in [Slots -> Flags] /\ NfSent \in Int /\ TxReleased \in Int
  <2>1. nf_pc = "publish"
    BY DEF NfPublish
  <2> QED
    BY <2>1, Facts, NfBatch DEF Sound, NfTxCursors, ShmTypeOK
<1>2. /\ txd_flags' = [txd_flags EXCEPT ![g] = AVAIL_FLAG]
      /\ UNCHANGED <<rxd_flags, rxd_buf, txd_buf, pktmem, nf_counter, nf_prev,
                     nf_rx_used, nf_tx_avail, nf_shadow>>
      /\ \/ /\ nf_i + 1 < nf_num /\ nf_i' = nf_i + 1 /\ nf_pc' = "publish"
            /\ nf_num' = nf_num /\ nf_bufs' = nf_bufs
         \/ nf_i + 1 = nf_num /\ nf_pc' \in {"wait", "poll"}
  BY <1>1 DEF NfPublish
<1>3. /\ UNCHANGED <<NfTaken, NfRxLeft>> /\ InBatch' = {}
      /\ NfTxFlip = g /\ NfTxLeft = nf_num - nf_i /\ NfTxLeft' = NfTxLeft - 1
      /\ NfUnpublished = nf_num - nf_i /\ NfUnpublished' = NfUnpublished - 1
  BY <1>1, <1>2 DEF NfTaken, NfRxLeft, InBatch, NfTxFlip, NfTxLeft, NfUnpublished
<1>4. NfSent' = NfSent + 1
  BY <1>1, <1>2 DEF NfSent
<1>5. g \in Slots /\ NfTxFlip' = Wrap(g + 1)
  <2>1. g \in Slots
    BY <1>1, WrapSlot
  <2>2. Wrap(g + 1) = Wrap(nf_shadow + nf_i + 1)
    BY <1>1, WrapWrap
  <2>3. nf_shadow + nf_i + 1 = nf_shadow + (nf_i + 1)
    BY <1>1 DEF Slots
  <2>4. CASE nf_i + 1 < nf_num /\ nf_i' = nf_i + 1 /\ nf_pc' = "publish"
    BY <1>2, <2>1, <2>2, <2>3, <2>4 DEF NfTxFlip
  <2>5. CASE nf_i + 1 = nf_num /\ nf_pc' \in {"wait", "poll"}
    BY <1>1, <1>2, <2>1, <2>2, <2>3, <2>5 DEF NfTxFlip
  <2> QED
    BY <1>2, <2>4, <2>5
<1>6. UNCHANGED <<RxSent, RxFlip, TxReleased, TxFlip, InRxq>>
  BY <1>3, HostsStill DEF InRxq
<1>7. InTxq' = InTxq + 1 /\ InTxq' + NfUnpublished' = InTxq + NfUnpublished
  BY <1>1, <1>3, <1>4, <1>6 DEF InTxq
<1>8. TxqHolds'
  <2>1. /\ InTxq \in 0 .. NENTRIES - NfTxLeft /\ g = Wrap(TxFlip + InTxq)
        /\ \A s \in Slots : txd_flags[s] = AVAIL_FLAG <=> Ahead(s, TxFlip) < InTxq
        /\ \A s \in Slots : Ahead(s, TxFlip) < InTxq + NfUnpublished =>
             pktmem[txd_buf[s]] = TxReleased + 1 + Ahead(s, TxFlip)
    BY <1>3 DEF FlowInv, TxqHolds
  <2>2. InTxq' \in 0 .. NENTRIES - NfTxLeft' /\ InTxq \in 0 .. NENTRIES - 1
    BY <1>1, <1>3, <1>7, <2>1
  <2>3. NfTxFlip' = Wrap(TxFlip + InTxq')
    <3>1. Wrap(g + 1) = Wrap(TxFlip + InTxq + 1)
      BY <1>1, <2>1, <2>2, WrapWrap
    <3>2. TxFlip + InTxq + 1 = TxFlip + (InTxq + 1)
      BY <1>1, <2>2 DEF Slots
    <3> QED
      BY <1>5, <1>7, <3>1, <3>2
  <2>4. ASSUME NEW s \in Slots
        PROVE  txd_flags'[s] = AVAIL_FLAG <=> Ahead(s, TxFlip) < InTxq'
    <3>1. Ahead(g, TxFlip) = InTxq
      BY <1>1, <2>1, <2>2, AheadWrap
    <3>2. CASE s = g
      BY <1>1, <1>2, <1>5, <1>7, <2>2, <3>1, <3>2
    <3>3. CASE s # g
      <4>1. Ahead(s, TxFlip) # InTxq /\ Ahead(s, TxFlip) \in Int
        BY <1>1, <2>1, <3>3, AheadBounds
      <4>2. txd_flags'[s] = txd_flags[s]
        BY <1>1, <1>2, <1>5, <3>3
      <4> QED
        BY <1>7, <2>1, <2>2, <4>1, <4>2
    <3> QED
      BY <3>2, <3>3
  <2> QED
    BY <1>2, <1>6, <1>7, <2>1, <2>2, <2>3, <2>4 DEF TxqHolds
<1>9. NfHolds'
  <2>1. nf_prev = nf_counter
    BY <1>1 DEF FlowInv, NfHolds
  <2>2. nf_pc' \in {"put", "publish"} =>
          \A k \in 1 .. NfPutSoFar' : txd_buf'[Wrap(nf_shadow' + k - 1)] = nf_bufs'[k]
    BY <1>1, <1>2 DEF FlowInv, NfHolds, NfPutSoFar
  <2> QED
    BY <1>2, <1>3, <2>1, <2>2 DEF NfHolds
<1>10. RxqHolds'
  BY <1>2, <1>3, <1>6, SameRxq DEF FlowInv
<1>11. RxHolds' /\ TxHolds'
  BY <1>2, SameRx, SameTx DEF FlowInv
<1> QED
  BY <1>3, <1>4, <1>8, <1>9, <1>10, <1>11 DEF FlowInv
-----------------------------------------------------------------------------
\* tx.out starts, polls, or takes a batch (vhost.h:196-203).
LEMMA TxQuietFlow ==
  ASSUME Sound, FlowInv, TxStart \/ TxHalve \/ TxClaim, UNCHANGED <<rxVars, nfVars>>
  PROVE  FlowInv'
<1>1. /\ UNCHANGED <<rxd_flags, rxd_buf, txd_flags, txd_buf, pktmem>>
      /\ UNCHANGED <<tx_counter, tx_pkts, tx_prev, tx_last_avail>>
      /\ tx_pc \in {"start", "poll"} /\ tx_pc' \in {"poll", "copy"}
  BY DEF TxStart, TxHalve, TxClaim, shmVars
<1>2. UNCHANGED <<TxReleased, TxFlip>>
  BY <1>1 DEF TxReleased, TxFlip
<1>3. TxHolds'
  <2>1. tx_pc' = "copy" =>
          \A j \in 1 .. tx_count' : tx_bufs'[j] = txd_buf[tx_last_avail + j - 1]
    BY DEF TxStart, TxHalve, TxClaim
  <2> QED
    BY <1>1, <2>1 DEF FlowInv, TxHolds
<1>4. RxqHolds' /\ TxqHolds'
  BY <1>1, <1>2, NfStill, HostsStill, SameRxq, SameTxq DEF FlowInv, InRxq, InTxq
<1>5. RxHolds' /\ NfHolds'
  BY <1>1, SameRx, SameNf DEF FlowInv
<1> QED
  BY <1>3, <1>4, <1>5 DEF FlowInv

\* What tx.out knows of its batch.
LEMMA TxFacts ==
  ASSUME IInv, tx_pc \in {"copy", "release", "check"}
  PROVE  /\ tx_count \in 1 .. NENTRIES /\ tx_i \in 0 .. tx_count - 1 /\ NENTRIES \in Nat \ {0}
         /\ tx_last_avail \in Slots /\ tx_counter \in Nat /\ tx_pkts \in Seq(Ids)
         /\ tx_pc # "check" => tx_last_avail + tx_count <= NENTRIES
<1>1. /\ tx_i < tx_count
      /\ tx_pc # "check" => tx_last_avail + tx_count <= NENTRIES
  BY Facts DEF TxBurst
<1>2. /\ tx_count \in 1 .. BATCH_SIZE /\ tx_i \in 0 .. BATCH_SIZE
      /\ tx_counter \in Nat /\ tx_pkts \in Seq(Ids)
  BY Facts DEF TxTypeOK
<1>3. NENTRIES \in Nat \ {0} /\ BATCH_SIZE \in 1 .. NENTRIES /\ tx_last_avail \in Slots
  BY Facts
<1> QED
  BY <1>1, <1>2, <1>3

\* tx.out copies a packet (vhost.h:159).
LEMMA TxCopyFlow ==
  ASSUME Sound, FlowInv, TxCopy, UNCHANGED <<rxVars, nfVars>>
  PROVE  FlowInv'
<1> DEFINE h == tx_last_avail + tx_i
<1>1. /\ tx_pc = "copy" /\ tx_count \in 1 .. NENTRIES /\ tx_i \in 0 .. tx_count - 1
      /\ NENTRIES \in Nat \ {0} /\ tx_last_avail \in Slots
      /\ tx_last_avail + tx_count <= NENTRIES /\ tx_counter \in Nat
      /\ tx_pkts \in Seq(Ids) /\ Len(tx_pkts) = tx_i /\ InTxq \in Int /\ NfUnpublished \in Nat
  <2>1. tx_pc = "copy"
    BY DEF TxCopy
  <2>2. NfUnpublished \in Nat
    <3>1. nf_pc \in {"put", "publish"} => nf_i \in 0 .. nf_num - 1
      BY NfBatch DEF Sound
    <3>2. nf_num \in Nat
      BY Facts DEF Sound
    <3> QED
      BY <3>1, <3>2 DEF NfUnpublished
  <2> QED
    BY <2>1, <2>2, TxFacts, Facts DEF Sound, TxBurst
<1>2. /\ UNCHANGED shmVars /\ UNCHANGED <<tx_counter, tx_prev, tx_count, tx_last_avail>>
      /\ tx_pkts' = Append(tx_pkts, pktmem[tx_bufs[tx_i + 1]])
      /\ \/ tx_i + 1 < tx_count /\ tx_i' = tx_i + 1 /\ tx_pc' = "copy" /\ tx_bufs' = tx_bufs
         \/ tx_i + 1 = tx_count /\ tx_i' = 0 /\ tx_pc' = "release"
  BY <1>1 DEF TxCopy
<1>3. UNCHANGED <<TxReleased, TxFlip>> /\ TxFlip = tx_last_avail /\ TxReleased = tx_counter
  BY <1>1, <1>2, WrapZero DEF TxReleased, TxFlip
<1>4. pktmem[tx_bufs[tx_i + 1]] = tx_counter + (tx_i + 1)
  <2>1. tx_i + 1 \in 1 .. tx_count /\ tx_last_avail + (tx_i + 1) - 1 = h
        /\ h \in Slots /\ Ahead(h, tx_last_avail) = tx_i
    BY <1>1 DEF Slots, Ahead
  <2>2. tx_bufs[tx_i + 1] = txd_buf[h]
    BY <1>1, <2>1 DEF FlowInv, TxHolds
  <2>3. txd_flags[h] = AVAIL_FLAG
    <3>1. h \in TxClaimed
      BY <1>1, <1>3, <2>1 DEF TxClaimed, TxLeft, Window
    <3> QED
      BY <3>1, InvExclusive DEF Sound, DescExclusive
  <2>4. Ahead(h, TxFlip) < InTxq + NfUnpublished
    BY <1>1, <1>3, <2>1, <2>3 DEF FlowInv, TxqHolds
  <2> QED
    BY <1>1, <1>3, <2>1, <2>2, <2>4 DEF FlowInv, TxqHolds
<1>5. TxHolds'
  <2>1. Len(tx_pkts') = tx_i + 1 /\ tx_pkts'[tx_i + 1] = tx_counter + (tx_i + 1)
        /\ \A j \in 1 .. tx_i : tx_pkts'[j] = tx_pkts[j]
    <3>1. pktmem[tx_bufs[tx_i + 1]] = tx_counter + (tx_i + 1)
      BY <1>4
    <3> HIDE <1>4
    <3> QED
      BY <1>1, <1>2, <3>1
  <2>2. ASSUME NEW j \in 1 .. Len(tx_pkts')
        PROVE  tx_pkts'[j] = tx_counter + j
    <3>1. CASE j = tx_i + 1
      BY <2>1, <3>1
    <3>2. CASE j # tx_i + 1
      <4>1. j \in 1 .. tx_i
        BY <1>1, <2>1, <3>2
      <4> QED
        BY <1>1, <2>1, <4>1 DEF FlowInv, TxHolds
    <3> QED
      BY <3>1, <3>2
  <2> QED
    BY <1>1, <1>2, <2>2 DEF FlowInv, TxHolds, shmVars
<1>6. RxqHolds' /\ TxqHolds'
  BY <1>2, <1>3, NfStill, HostsStill, SameRxq, SameTxq DEF FlowInv, InRxq, InTxq, shmVars
<1>7. RxHolds' /\ NfHolds'
  BY <1>2, SameRx, SameNf DEF FlowInv, shmVars
<1> QED
  BY <1>5, <1>6, <1>7 DEF FlowInv

\* tx.out gives a descriptor back (vhost.h:168).
LEMMA TxReleaseFlow ==
  ASSUME Sound, FlowInv, TxRelease, UNCHANGED <<rxVars, nfVars>>
  PROVE  FlowInv'
<1> DEFINE h == tx_last_avail + tx_i
<1>1. /\ tx_pc = "release" /\ tx_count \in 1 .. NENTRIES /\ tx_i \in 0 .. tx_count - 1
      /\ NENTRIES \in Nat \ {0} /\ tx_last_avail \in Slots
      /\ tx_last_avail + tx_count <= NENTRIES /\ tx_counter \in Nat
      /\ InTxq \in Int /\ NfUnpublished \in Int /\ NfTxLeft \in Nat /\ NfSent \in Int
      /\ txd_flags \in [Slots -> Flags] /\ NfTxFlip \in Slots
  <2>1. tx_pc = "release"
    BY DEF TxRelease
  <2> QED
    BY <2>1, TxFacts, Facts DEF Sound, ShmTypeOK
<1>2. /\ txd_flags' = [txd_flags EXCEPT ![h] = USED_FLAG]
      /\ UNCHANGED <<rxd_flags, rxd_buf, txd_buf, pktmem, tx_prev, tx_count, tx_bufs, tx_pkts>>
      /\ \/ /\ tx_i + 1 < tx_count /\ tx_i' = tx_i + 1 /\ tx_pc' = "release"
            /\ tx_counter' = tx_counter /\ tx_last_avail' = tx_last_avail
         \/ /\ tx_i + 1 = tx_count /\ tx_i' = 0 /\ tx_pc' = "check"
            /\ tx_counter' = tx_counter + tx_count
            /\ tx_last_avail' = Wrap(tx_last_avail + tx_count)
  BY <1>1 DEF TxRelease
<1>3. h \in Slots /\ TxFlip = h /\ TxReleased = tx_counter + tx_i
  BY <1>1 DEF Slots, TxFlip, TxReleased, Wrap
<1>4. TxReleased' = TxReleased + 1
  BY <1>1, <1>2, <1>3 DEF TxReleased
<1>5. TxFlip' = Wrap(h + 1)
  <2>1. h + 1 = tx_last_avail + (tx_i + 1)
    BY <1>1 DEF Slots
  <2> QED
    BY <1>1, <1>2, <2>1 DEF TxFlip
<1>6. UNCHANGED <<NfTaken, NfSent, NfRxLeft, NfTxFlip, NfTxLeft, NfUnpublished, nf_rx_used,
                  RxSent, RxFlip, InRxq>>
  BY NfStill, HostsStill DEF InRxq
<1>7. InTxq' = InTxq - 1
  BY <1>1, <1>3, <1>4, <1>6 DEF InTxq
<1>8. /\ InTxq \in 0 .. NENTRIES - NfTxLeft /\ NfTxFlip = Wrap(h + InTxq)
      /\ \A s \in Slots : txd_flags[s] = AVAIL_FLAG <=> Ahead(s, h) < InTxq
      /\ \A s \in Slots : Ahead(s, h) < InTxq + NfUnpublished =>
           pktmem[txd_buf[s]] = TxReleased + 1 + Ahead(s, h)
  BY <1>3 DEF FlowInv, TxqHolds
<1>9. txd_flags[h] = AVAIL_FLAG
  <2>1. h \in TxClaimed
    <3>1. Ahead(h, h) = 0 /\ tx_count - tx_i > 0
      BY <1>1, <1>3, AheadZero
    <3> QED
      BY <1>1, <1>3, <3>1 DEF TxClaimed, TxLeft, Window
  <2> QED
    BY <2>1, InvExclusive DEF Sound, DescExclusive
<1>10. Ahead(h, h) = 0 /\ InTxq >= 1
  BY <1>1, <1>3, <1>8, <1>9, AheadZero
<1>11. /\ NfUnpublished <= NfTxLeft /\ NfUnpublished >= 0
  <2>1. nf_pc \in {"put", "publish"} => nf_i \in 0 .. nf_num - 1
    BY NfBatch DEF Sound
  <2>2. nf_num \in Nat
    BY Facts DEF Sound
  <2> QED
    BY <1>1, <2>1, <2>2 DEF NfUnpublished, NfTxLeft
<1>12. TxqHolds'
  <2>1. InTxq' \in 0 .. NENTRIES - NfTxLeft
    BY <1>1, <1>7, <1>8, <1>10
  <2>2. NfTxFlip = Wrap(Wrap(h + 1) + InTxq')
    <3>1. Wrap(Wrap(h + 1) + InTxq') = Wrap(h + 1 + InTxq')
      <4>1. 1 + InTxq' <= NENTRIES /\ InTxq' \in Nat
        BY <1>1, <1>7, <1>8, <2>1
      <4> QED
        BY <1>3, <4>1, WrapWrap
    <3>2. h + 1 + InTxq' = h + InTxq
      BY <1>1, <1>7, <1>8 DEF Slots
    <3> QED
      BY <1>8, <3>1, <3>2
  <2>3. ASSUME NEW s \in Slots
        PROVE  /\ txd_flags'[s] = AVAIL_FLAG <=> Ahead(s, Wrap(h + 1)) < InTxq'
               /\ Ahead(s, Wrap(h + 1)) < InTxq' + NfUnpublished =>
                    pktmem[txd_buf[s]] = TxReleased' + 1 + Ahead(s, Wrap(h + 1))
    <3>1. Ahead(s, Wrap(h + 1)) = IF s = h THEN NENTRIES - 1 ELSE Ahead(s, h) - 1
      BY <1>3, AheadNext
    <3>2. Ahead(s, h) \in 0 .. NENTRIES - 1 /\ TxReleased \in Int
      BY <1>1, <1>3, AheadBounds
    <3>3. CASE s = h
      <4>1. txd_flags'[s] # AVAIL_FLAG
        BY <1>1, <1>2, <1>3, <3>3 DEF AVAIL_FLAG, USED_FLAG
      <4> QED
        BY <1>1, <1>7, <1>8, <1>11, <3>1, <3>3, <4>1
    <3>4. CASE s # h
      <4>1. txd_flags'[s] = txd_flags[s]
        BY <1>1, <1>2, <1>3, <3>4
      <4> QED
        BY <1>1, <1>4, <1>7, <1>8, <3>1, <3>2, <3>4, <4>1
    <3> QED
      BY <3>3, <3>4
  <2> QED
    BY <1>2, <1>5, <1>6, <2>1, <2>2, <2>3 DEF TxqHolds
<1>13. TxHolds'
  BY <1>1, <1>2 DEF FlowInv, TxHolds
<1>14. RxqHolds'
  BY <1>2, <1>6, SameRxq DEF FlowInv
<1>15. RxHolds' /\ NfHolds'
  BY <1>2, SameRx, SameNf DEF FlowInv
<1> QED
  BY <1>12, <1>13, <1>14, <1>15 DEF FlowInv

\* tx.out checks a packet (pkt.h:41).
LEMMA TxCheckFlow ==
  ASSUME Sound, FlowInv, TxCheck, UNCHANGED <<rxVars, nfVars>>
  PROVE  FlowInv'
<1>1. /\ tx_pc = "check" /\ tx_count \in 1 .. NENTRIES /\ tx_i \in 0 .. tx_count - 1
      /\ NENTRIES \in Nat \ {0} /\ tx_counter \in Nat /\ Len(tx_pkts) = tx_count
  <2>1. tx_pc = "check"
    BY DEF TxCheck
  <2> QED
    BY <2>1, TxFacts, Facts DEF Sound, TxBurst
<1>2. /\ UNCHANGED <<rxd_flags, rxd_buf, txd_flags, txd_buf, pktmem, tx_counter, tx_last_avail>>
      /\ tx_prev' = tx_pkts[tx_i + 1]
      /\ \/ /\ tx_i + 1 < tx_count /\ tx_i' = tx_i + 1 /\ tx_pc' = "check"
            /\ tx_count' = tx_count /\ tx_pkts' = tx_pkts
         \/ tx_i + 1 = tx_count /\ tx_pkts' = <<>> /\ tx_pc' \in {"poll", "done"}
  BY <1>1 DEF TxCheck
<1>3. UNCHANGED <<TxReleased, TxFlip>>
  BY <1>1, <1>2 DEF TxReleased, TxFlip
<1>4. tx_prev' = tx_counter - tx_count + (tx_i + 1)
  <2>1. tx_i + 1 \in 1 .. Len(tx_pkts)
    BY <1>1
  <2> QED
    BY <1>1, <1>2, <2>1 DEF FlowInv, TxHolds
<1>5. TxHolds'
  BY <1>1, <1>2, <1>4 DEF FlowInv, TxHolds
<1>6. RxqHolds' /\ TxqHolds'
  BY <1>2, <1>3, NfStill, HostsStill, SameRxq, SameTxq DEF FlowInv, InRxq, InTxq
<1>7. RxHolds' /\ NfHolds'
  BY <1>2, SameRx, SameNf DEF FlowInv
<1> QED
  BY <1>5, <1>6, <1>7 DEF FlowInv

-----------------------------------------------------------------------------
LEMMA FlowInvInitially == Init => FlowInv
<1> SUFFICES ASSUME Init
             PROVE  FlowInv
  OBVIOUS
<1>1. /\ NENTRIES \in Nat \ {0} /\ 0 \in Slots
  BY NEntriesAssumption DEF Slots
<1>2. /\ RxSent = 0 /\ NfTaken = 0 /\ NfSent = 0 /\ TxReleased = 0
      /\ NfUnpublished = 0 /\ NfRxLeft = 0 /\ NfTxLeft = 0 /\ InBatch = {}
      /\ RxFlip = 0 /\ NfTxFlip = 0 /\ TxFlip = 0 /\ nf_rx_used = 0
  BY DEF Init, RxInit, NfInit, TxInit, RxSent, FlowSent, NfTaken, NfSent, TxReleased,
         NfUnpublished, NfRxLeft, NfTxLeft, InBatch, RxFlip, NfTxFlip, TxFlip
<1>3. InRxq = 0 /\ InTxq = 0
  BY <1>2 DEF InRxq, InTxq
<1>4. \A s \in Slots : /\ rxd_flags[s] # USED_FLAG /\ txd_flags[s] # AVAIL_FLAG
                       /\ Ahead(s, 0) \in 0 .. NENTRIES - 1
  BY <1>1, AheadBounds DEF Init, ShmInit, AVAIL_FLAG, USED_FLAG
<1>5. \A s \in Slots : ~(Ahead(s, 0) < 0) /\ ~(Ahead(s, 0) >= NENTRIES)
  BY <1>1, <1>4
<1>6. RxqHolds /\ TxqHolds
  <2>1. Wrap(0 + 0) = 0 /\ 0 \in 0 .. NENTRIES - 0 /\ NENTRIES - 0 = NENTRIES /\ 0 + 0 = 0
    BY <1>1, WrapZero
  <2> QED
    BY <1>2, <1>3, <1>4, <1>5, <2>1 DEF RxqHolds, TxqHolds
<1>7. RxHolds /\ NfHolds
  BY <1>2 DEF Init, RxInit, NfInit, RxHolds, NfHolds
<1>8. TxHolds
  <2>1. tx_pkts = <<>> /\ tx_pc = "start" /\ tx_prev = 0 /\ tx_counter = 0
    BY DEF Init, TxInit
  <2> QED
    BY <2>1 DEF TxHolds
<1> QED
  BY <1>6, <1>7, <1>8 DEF FlowInv

(***************************************************************************)
(* FlowInv is inductive relative to IInv and Owned, as long as nf.out has  *)
(* not stopped in the allocator.                                           *)
(***************************************************************************)
LEMMA FlowStep ==
  ASSUME Sound, FlowInv, [Next]_vars, nf_pc' \notin {"exhausted", "failed", "overrun"}
  PROVE  FlowInv'
<1>1. CASE RxStep
  BY <1>1, RxQuietFlow, RxCopyFlow, RxPublishFlow DEF RxStep, RxNext
<1>2. CASE NfStep
  <2>1. ~NfExhausted
    BY DEF NfExhausted
  <2> QED
    BY <1>2, <2>1, NfTakeFlow, NfRefillFlow, NfOfferFlow, NfQuietFlow, NfXmitFlow,
       NfCleanupFlow, NfPutFlow, NfPublishFlow DEF NfStep, NfNext
<1>3. CASE TxStep
  BY <1>3, TxQuietFlow, TxCopyFlow, TxReleaseFlow, TxCheckFlow DEF TxStep, TxNext
<1>4. CASE UNCHANGED vars
  <2>1. UNCHANGED <<rxVars, nfVars, txVars>> /\ UNCHANGED shmVars
    BY <1>4 DEF vars
  <2>2. RxqHolds' /\ TxqHolds'
    BY <2>1, NfStill, HostsStill, SameRxq, SameTxq DEF FlowInv, InRxq, InTxq, shmVars
  <2>3. RxHolds' /\ NfHolds' /\ TxHolds'
    BY <2>1, SameRx, SameNf, SameTx DEF FlowInv, shmVars
  <2> QED
    BY <2>2, <2>3 DEF FlowInv
<1> QED
  BY <1>1, <1>2, <1>3, <1>4 DEF Next, Terminating

\* All of it together.
Whole == Sound /\ CacheInv /\ CacheSuffices /\ PoolSuffices

LEMMA WholeAlways == Spec => []Whole
<1>1. IInv /\ Owned /\ CacheSuffices /\ PoolSuffices => Sound
  BY DEF Sound, CacheSuffices, PoolSuffices
<1>2. IInv /\ Owned /\ [Next]_vars => Owned'
  BY OwnedStep
<1>3. IInv /\ CacheInv /\ CacheSuffices /\ [Next]_vars => CacheInv' /\ CacheSuffices'
  BY CacheStep
<1>4. IInv /\ Owned /\ CacheInv /\ CacheSuffices /\ PoolSuffices => Whole
  BY <1>1 DEF Whole
<1> QED
  BY <1>2, <1>3, <1>4, OwnedInit, CacheInit, InductiveInvariant, RefillsSucceed, PTL DEF Spec

(***************************************************************************)
(* Every packet is where the counters of the three processes say (rx.c,    *)
(* nf.c, tx.c with vhost.h and vio.h), however the bursts are cut and the  *)
(* buffers are recycled.                                                   *)
(***************************************************************************)
THEOREM PacketsHeld == Spec => []FlowInv
<1>1. Whole /\ Whole' /\ FlowInv /\ [Next]_vars => FlowInv'
  BY FlowStep DEF Whole, Sound
<1> QED
  BY <1>1, FlowInvInitially, WholeAlways, PTL DEF Spec

(***************************************************************************)
(* check_pkt (pkt.h:41) never complains, in nf.out or in tx.out: each      *)
(* packet follows its predecessor.                                         *)
(***************************************************************************)
THEOREM PacketsInOrder == Spec => []InOrder
<1>1. Whole /\ FlowInv => InOrder
  <2> SUFFICES ASSUME Whole, FlowInv
               PROVE  InOrder
    OBVIOUS
  <2>1. ASSUME nf_pc = "check"
        PROVE  pktmem[nf_bufs[nf_i + 1]] = nf_prev + 1
    <3>1. /\ nf_i \in 0 .. nf_num - 1 /\ nf_counter \in Nat /\ nf_num \in Nat
          /\ InBatch = 1 .. nf_num /\ NfTaken = nf_counter
      BY <2>1, NfBatch, Facts DEF Whole, Sound, InBatch, NfTaken
    <3>2. nf_i + 1 \in InBatch
      BY <3>1
    <3>3. pktmem[nf_bufs[nf_i + 1]] = nf_counter - nf_num + (nf_i + 1)
          /\ nf_prev = nf_counter - nf_num + nf_i
      BY <2>1, <3>1, <3>2 DEF FlowInv, NfHolds
    <3> QED
      BY <3>1, <3>3
  <2>2. ASSUME tx_pc = "check"
        PROVE  tx_pkts[tx_i + 1] = tx_prev + 1
    <3>1. /\ tx_i \in 0 .. tx_count - 1 /\ tx_count \in Nat /\ tx_counter \in Nat
          /\ Len(tx_pkts) = tx_count
      <4>1. TxBurst /\ tx_count \in 1 .. NENTRIES /\ NENTRIES \in Nat
        BY <2>2, TxFacts, Facts DEF Whole, Sound
      <4> QED
        BY <2>2, <4>1, TxFacts DEF Whole, Sound, TxBurst
    <3>2. tx_i + 1 \in 1 .. Len(tx_pkts)
      BY <3>1
    <3>3. tx_pkts[tx_i + 1] = tx_counter - tx_count + (tx_i + 1)
          /\ tx_prev = tx_counter - tx_count + tx_i
      BY <2>2, <3>2 DEF FlowInv, TxHolds
    <3> QED
      BY <3>1, <3>3
  <2> QED
    BY <2>1, <2>2 DEF InOrder
<1> QED
  BY <1>1, PacketsHeld, WholeAlways, PTL

(***************************************************************************)
(* rx.out writes a payload (vhost.h:83) only into a buffer that no other   *)
(* place holds and whose RX descriptor is AVAIL.                           *)
(***************************************************************************)
THEOREM PayloadsStable == Spec => PayloadStable
<1> DEFINE Writable(b) ==
      Places(b) \subseteq {<<"rxd", s>> : s \in {s \in Slots : rxd_flags[s] = AVAIL_FLAG}}
<1>1. ASSUME Whole, FlowInv, [Next]_vars
      PROVE  [\A b \in Objs : pktmem'[b] # pktmem[b] => Writable(b)]_vars
  <2> SUFFICES ASSUME NEW b \in Objs, pktmem'[b] # pktmem[b]
               PROVE  Writable(b)
    OBVIOUS
  <2>1. RxCopy
    BY <1>1 DEF Next, RxStep, NfStep, TxStep, Terminating, vars, shmVars,
       RxNext, RxStart, RxGenerate, RxExit, RxClaim, RxHalve, RxGiveUp, RxPublish,
       NfNext, NfTake, NfHalve, NfRefill, NfExhausted, NfOffer, NfCheck, NfXmit,
       NfCleanup, NfPut, NfPublish, NfExit,
       TxNext, TxStart, TxClaim, TxHalve, TxCopy, TxRelease, TxCheck
  <2> DEFINE s == rx_last_used + rx_i
             x == rxd_buf[s]
  <2>2. /\ s \in Slots /\ x \in Objs /\ rxd_flags[s] = AVAIL_FLAG
        /\ pktmem' = [pktmem EXCEPT ![x] = RxPktId]
        /\ OnePlace(x) /\ s \in InRxd(x)
    BY <1>1, <2>1, CopyElsewhere DEF Whole, FlowInv
  <2>3. b = x
    BY <1>1, <2>2, Facts DEF Whole, Sound, ShmTypeOK
  <2>4. Places(x) = {<<"rxd", s>>}
    <3>1. <<"rxd", s>> \in Places(x)
      BY <2>2 DEF Places
    <3>2. \E p : Places(x) = {p}
      BY <2>2, OneIsOne
    <3> QED
      BY <3>1, <3>2
  <2> QED
    BY <2>2, <2>3, <2>4
<1> QED
  BY <1>1, PacketsHeld, WholeAlways, PTL DEF Spec, PayloadStable

-----------------------------------------------------------------------------
(***************************************************************************)
(* The queues of PacketFlow are runs of consecutive ids.                   *)
(***************************************************************************)
Run(t, n) == [k \in 1 .. n |-> t + k]

\* A window of n descriptors has n elements.
LEMMA WindowSize ==
  ASSUME NEW c \in Slots, NEW n \in 0 .. NENTRIES
  PROVE  Cardinality(Window(c, n)) = n
<1> DEFINE f == [s \in Window(c, n) |-> Ahead(s, c)]
<1>1. \A s \in Window(c, n) : s \in Slots /\ Ahead(s, c) \in 0 .. n - 1 /\ Wrap(c + Ahead(s, c)) = s
  BY AheadBounds, NEntriesAssumption DEF Window
<1>2. \A i \in 0 .. n - 1 : Wrap(c + i) \in Window(c, n) /\ Ahead(Wrap(c + i), c) = i
  <2> SUFFICES ASSUME NEW i \in 0 .. n - 1
               PROVE  Wrap(c + i) \in Window(c, n) /\ Ahead(Wrap(c + i), c) = i
    OBVIOUS
  <2>1. i \in 0 .. NENTRIES - 1 /\ i \in 0 .. NENTRIES
    BY NEntriesAssumption
  <2>2. Wrap(c + i) \in Slots /\ Ahead(Wrap(c + i), c) = i
    BY <2>1, AheadWrap, WrapSlot
  <2> QED
    BY <2>2 DEF Window
<1> DEFINE g == [i \in 0 .. n - 1 |-> Wrap(c + i)]
<1>3. g \in [0 .. n - 1 -> Window(c, n)]
  BY <1>2
<1>4. g \in Injection(0 .. n - 1, Window(c, n))
  <2>1. \A i, j \in 0 .. n - 1 : g[i] = g[j] => i = j
    BY <1>2
  <2> QED
    BY <1>3, <2>1 DEF Injection, IsInjective
<1>5. g \in Surjection(0 .. n - 1, Window(c, n))
  <2>1. \A s \in Window(c, n) : \E i \in 0 .. n - 1 : g[i] = s
    BY <1>1
  <2> QED
    BY <1>3, <2>1 DEF Surjection
<1> HIDE DEF g
<1>6. ExistsBijection(0 .. n - 1, Window(c, n))
  BY <1>4, <1>5 DEF ExistsBijection, Bijection
<1>7. IsFiniteSet(0 .. n - 1) /\ Cardinality(0 .. n - 1) = n
  <2>1. 0 \in Int /\ n - 1 \in Int /\ n \in Nat
    BY NEntriesAssumption
  <2>2. /\ IsFiniteSet(0 .. n - 1)
        /\ Cardinality(0 .. n - 1) = IF 0 > n - 1 THEN 0 ELSE n - 1 - 0 + 1
    BY <2>1, FS_Interval
  <2> QED
    BY <2>1, <2>2
<1> QED
  BY <1>6, <1>7, FS_Bijection

\* The k-th descriptor of a queue whose first m are left out.
LEMMA SlotAt ==
  ASSUME NEW c \in Slots, NEW m \in Nat, NEW k \in 1 .. NENTRIES, m + k <= NENTRIES
  PROVE  LET s == Wrap(Wrap(c + m) + k - 1) IN s \in Slots /\ Ahead(s, c) = m + k - 1
BY NEntriesAssumption DEF Slots, Wrap, Ahead

LEMMA RxqIs ==
  ASSUME Sound, FlowInv
  PROVE  InRxq \in 0 .. NENTRIES /\ FlowRxq = Run(NfTaken, InRxq)
<1>1. /\ NENTRIES \in Nat \ {0} /\ nf_rx_used \in Slots /\ NfRxLeft \in Nat
      /\ NfTaken \in Int /\ rxd_flags \in [Slots -> Flags]
  BY Facts DEF Sound, ShmTypeOK
<1>2. /\ InRxq \in 0 .. NENTRIES - NfRxLeft
      /\ \A s \in Slots : rxd_flags[s] = USED_FLAG <=>
           Ahead(s, nf_rx_used) < InRxq \/ Ahead(s, nf_rx_used) >= NENTRIES - NfRxLeft
      /\ \A s \in Slots : Ahead(s, nf_rx_used) < InRxq =>
           pktmem[rxd_buf[s]] = NfTaken + 1 + Ahead(s, nf_rx_used)
  BY DEF FlowInv, RxqHolds
<1>3. NfRxLeft \in 0 .. NENTRIES /\ InRxq \in 0 .. NENTRIES /\ NfRxLeft + InRxq \in 0 .. NENTRIES
      /\ NENTRIES - NfRxLeft \in 0 .. NENTRIES
  BY <1>1, <1>2
<1> DEFINE c == Wrap(nf_rx_used + (NENTRIES - NfRxLeft))
<1>4. {s \in Slots : rxd_flags[s] = USED_FLAG} = Window(c, NfRxLeft + InRxq)
  <2>1. ASSUME NEW s \in Slots
        PROVE  rxd_flags[s] = USED_FLAG <=> Ahead(s, c) < NfRxLeft + InRxq
    <3>1. /\ Ahead(s, c) = IF Ahead(s, nf_rx_used) >= NENTRIES - NfRxLeft
                             THEN Ahead(s, nf_rx_used) - (NENTRIES - NfRxLeft)
                           ELSE Ahead(s, nf_rx_used) - (NENTRIES - NfRxLeft) + NENTRIES
          /\ Ahead(s, nf_rx_used) \in 0 .. NENTRIES - 1
      BY <1>1, <1>3, AheadFrom, AheadBounds
    <3> HIDE DEF c
    <3> QED
      BY <1>1, <1>2, <1>3, <3>1
  <2> QED
    BY <2>1 DEF Window
<1>5. Marked(rxd_flags, USED_FLAG) - NfRxLeft = InRxq
  <2>1. c \in Slots
    BY <1>1, <1>3, WrapSlot
  <2> HIDE DEF c
  <2>2. Marked(rxd_flags, USED_FLAG) = NfRxLeft + InRxq
    BY <1>3, <1>4, <2>1, WindowSize DEF Marked
  <2> QED
    BY <1>3, <2>2
<1>6. \A k \in 1 .. InRxq : pktmem[rxd_buf[Wrap(nf_rx_used + k - 1)]] = NfTaken + k
  <2> SUFFICES ASSUME NEW k \in 1 .. InRxq
               PROVE  pktmem[rxd_buf[Wrap(nf_rx_used + k - 1)]] = NfTaken + k
    OBVIOUS
  <2>1. k \in 1 .. NENTRIES
    BY <1>1, <1>3
  <2>2. Wrap(nf_rx_used + k - 1) \in Slots /\ Ahead(Wrap(nf_rx_used + k - 1), nf_rx_used) = k - 1
    BY <1>1, <2>1, AheadStep
  <2> QED
    BY <1>1, <1>2, <1>3, <2>2
<1> QED
  BY <1>3, <1>5, <1>6 DEF FlowRxq, Packets, Run

LEMMA BatchIs ==
  ASSUME Sound, FlowInv
  PROVE  NfTaken - NfSent \in Nat /\ FlowBatch = Run(NfSent, NfTaken - NfSent)
<1>1. /\ nf_num \in 1 .. NENTRIES /\ NENTRIES \in Nat \ {0} /\ nf_counter \in Nat
      /\ nf_shadow \in Slots /\ TxFlip \in Slots /\ NfSent \in Int /\ TxReleased \in Int
      /\ nf_pc \in {"poll", "refill", "offer", "check", "xmit", "cleanup", "put",
                    "publish", "wait", "done"}
  BY Facts DEF Sound, NfTypeOK
<1>2. CASE nf_pc \in {"poll", "wait", "done"}
  <2>1. NfTaken - NfSent = 0 /\ FlowBatch = <<>>
    BY <1>1, <1>2 DEF NfTaken, NfSent, FlowBatch
  <2> QED
    BY <2>1 DEF Run
<1>3. CASE nf_pc \in {"refill", "offer", "check", "xmit", "cleanup"}
  <2>1. /\ NfSent = NfTaken - nf_num /\ NfTaken - NfSent = nf_num /\ InBatch = 1 .. nf_num
        /\ NfTaken \in Int
    BY <1>1, <1>3 DEF NfTaken, NfSent, InBatch
  <2>2. FlowBatch = [k \in 1 .. nf_num |-> pktmem[nf_bufs[k]]]
    BY <1>1, <1>3 DEF FlowBatch
  <2>3. \A k \in 1 .. nf_num : pktmem[nf_bufs[k]] = NfSent + k
    BY <1>1, <2>1 DEF FlowInv, NfHolds
  <2> QED
    BY <1>1, <2>1, <2>2, <2>3 DEF Run
<1>4. CASE nf_pc \in {"put", "publish"}
  <2> DEFINE gone == IF nf_pc = "publish" THEN nf_i ELSE 0
  <2>1. /\ nf_i \in 0 .. nf_num - 1 /\ gone \in 0 .. nf_num - 1
        /\ NfTaken = nf_counter /\ NfSent = nf_counter - nf_num + gone
        /\ NfTaken - NfSent = nf_num - gone
    BY <1>1, <1>4, NfBatch DEF Sound, NfTaken, NfSent
  <2>2. FlowBatch = [k \in 1 .. nf_num - gone |-> pktmem[nf_bufs[gone + k]]]
    BY <1>4 DEF FlowBatch
  <2>3. ASSUME NEW k \in 1 .. nf_num - gone
        PROVE  pktmem[nf_bufs[gone + k]] = NfSent + k
    <3> DEFINE j == gone + k
    <3>1. j \in 1 .. nf_num /\ j \in Nat
      BY <1>1, <2>1
    <3>2. CASE nf_pc = "put" /\ j \notin 1 .. nf_i
      <4>1. j \in InBatch
        BY <1>1, <2>1, <3>1, <3>2 DEF InBatch
      <4> QED
        BY <1>1, <2>1, <3>2, <4>1 DEF FlowInv, NfHolds
    <3>3. CASE nf_pc = "publish" \/ j \in 1 .. nf_i
      <4>1. j \in 1 .. NfPutSoFar
        BY <1>4, <3>1, <3>3 DEF NfPutSoFar
      <4>2. nf_bufs[j] = txd_buf[Wrap(nf_shadow + j - 1)]
        BY <1>4, <4>1 DEF FlowInv, NfHolds
      <4>3. /\ InTxq \in 0 .. NENTRIES - (nf_num - gone) /\ InTxq \in Nat
            /\ Wrap(nf_shadow + gone) = Wrap(TxFlip + InTxq)
            /\ NfUnpublished \in 0 .. nf_num
            /\ (nf_pc = "put" => k <= NfUnpublished) /\ (nf_pc = "publish" => NfUnpublished = nf_num - gone)
        <5>1. NfTxLeft = nf_num - gone /\ NfTxFlip = Wrap(nf_shadow + gone)
          BY <1>1, <1>4, WrapZero DEF NfTxLeft, NfTxFlip
        <5>2. InTxq \in 0 .. NENTRIES - (nf_num - gone) /\ NfTxFlip = Wrap(TxFlip + InTxq)
          BY <5>1 DEF FlowInv, TxqHolds
        <5>3. NfUnpublished = IF nf_pc = "put" THEN nf_i ELSE nf_num - gone
          BY <1>4 DEF NfUnpublished
        <5> QED
          BY <1>1, <2>1, <3>1, <3>3, <5>1, <5>2, <5>3
      <4> DEFINE s == Wrap(Wrap(TxFlip + InTxq) + k - 1)
      <4>4. s = Wrap(nf_shadow + j - 1)
        <5>1. /\ gone \in Nat /\ k - 1 \in Nat /\ gone + (k - 1) <= NENTRIES
              /\ nf_shadow + gone + (k - 1) = nf_shadow + j - 1
              /\ Wrap(nf_shadow + gone) \in Slots
          <6>1. gone \in 0 .. NENTRIES /\ k \in 1 .. nf_num - gone
            BY <1>1, <2>1
          <6>2. Wrap(nf_shadow + gone) \in Slots
            BY <1>1, <6>1, WrapSlot
          <6> HIDE DEF gone
          <6> QED
            BY <1>1, <6>1, <6>2 DEF Slots
        <5>2. Wrap(Wrap(nf_shadow + gone) + (k - 1)) = Wrap(nf_shadow + gone + (k - 1))
          BY <1>1, <5>1, WrapWrap
        <5>3. Wrap(nf_shadow + gone) + (k - 1) = Wrap(nf_shadow + gone) + k - 1
          BY <5>1 DEF Slots
        <5> QED
          BY <4>3, <5>1, <5>2, <5>3
      <4>5. s \in Slots /\ Ahead(s, TxFlip) = InTxq + k - 1
        <5>1. k \in 1 .. NENTRIES /\ InTxq + k <= NENTRIES
          BY <1>1, <2>1, <4>3
        <5> QED
          BY <1>1, <4>3, <5>1, SlotAt
      <4> HIDE DEF s, gone
      <4>6. Ahead(s, TxFlip) < InTxq + NfUnpublished
        BY <1>1, <1>4, <2>1, <4>3, <4>5
      <4>7. pktmem[txd_buf[s]] = TxReleased + 1 + (InTxq + k - 1)
        BY <4>5, <4>6 DEF FlowInv, TxqHolds
      <4> QED
        BY <1>1, <2>1, <4>2, <4>3, <4>4, <4>7 DEF InTxq
    <3> QED
      BY <1>4, <3>2, <3>3
  <2> HIDE DEF gone
  <2>4. NfTaken - NfSent \in Nat
    BY <1>1, <2>1
  <2>5. FlowBatch = [k \in 1 .. nf_num - gone |-> NfSent + k]
    BY <2>2, <2>3
  <2> QED
    BY <2>1, <2>4, <2>5 DEF Run
<1> QED
  BY <1>1, <1>2, <1>3, <1>4


\* What tx.out has copied out of the queue, and released or not.
TxAhead  == IF tx_pc = "copy" THEN tx_i ELSE IF tx_pc = "release" THEN TxLeft ELSE 0
TxCopied == TxReleased + TxAhead

LEMMA TxAheadBounds ==
  ASSUME Sound, FlowInv
  PROVE  TxAhead \in 0 .. InTxq /\ InTxq \in 0 .. NENTRIES
<1>1. /\ NENTRIES \in Nat \ {0} /\ TxFlip \in Slots /\ NfTxLeft \in Nat
  BY Facts DEF Sound
<1>2. /\ InTxq \in 0 .. NENTRIES - NfTxLeft
      /\ \A s \in Slots : txd_flags[s] = AVAIL_FLAG <=> Ahead(s, TxFlip) < InTxq
  BY DEF FlowInv, TxqHolds
<1>3. InTxq \in 0 .. NENTRIES
  BY <1>1, <1>2
<1>4. CASE tx_pc \in {"copy", "release"}
  <2>1. /\ tx_count \in 1 .. NENTRIES /\ tx_i \in 0 .. tx_count - 1
    BY <1>4, TxFacts DEF Sound
  <2>2. TxLeft \in 1 .. NENTRIES /\ TxAhead \in 0 .. TxLeft
    BY <1>1, <1>4, <2>1 DEF TxLeft, TxAhead
  <2> DEFINE s == Wrap(TxFlip + TxLeft - 1)
  <2>3. s \in Slots /\ Ahead(s, TxFlip) = TxLeft - 1
    BY <1>1, <2>2, AheadStep
  <2> HIDE DEF s
  <2>4. s \in TxClaimed
    BY <1>1, <2>2, <2>3 DEF TxClaimed, Window
  <2>5. TxLeft - 1 < InTxq
    BY <1>2, <2>3, <2>4, InvExclusive DEF Sound, DescExclusive
  <2> QED
    BY <1>1, <1>3, <2>2, <2>5
<1>5. CASE tx_pc \notin {"copy", "release"}
  BY <1>3, <1>5 DEF TxAhead
<1> QED
  BY <1>4, <1>5

LEMMA TxqIs ==
  ASSUME Sound, FlowInv
  PROVE  FlowTxq = Run(TxCopied, InTxq - TxAhead)
<1>1. /\ NENTRIES \in Nat \ {0} /\ TxFlip \in Slots /\ TxReleased \in Int
      /\ TxAhead \in 0 .. InTxq /\ InTxq \in 0 .. NENTRIES
  BY Facts, TxAheadBounds DEF Sound
<1>2. NfUnpublished \in Nat
  <2>1. nf_pc \in {"put", "publish"} => nf_i \in 0 .. nf_num - 1
    BY NfBatch DEF Sound
  <2>2. nf_num \in Nat
    BY Facts DEF Sound
  <2> QED
    BY <2>1, <2>2 DEF NfUnpublished
<1>3. /\ \A s \in Slots : txd_flags[s] = AVAIL_FLAG <=> Ahead(s, TxFlip) < InTxq
      /\ \A s \in Slots : Ahead(s, TxFlip) < InTxq + NfUnpublished =>
           pktmem[txd_buf[s]] = TxReleased + 1 + Ahead(s, TxFlip)
  BY DEF FlowInv, TxqHolds
<1>4. Marked(txd_flags, AVAIL_FLAG) = InTxq
  <2>1. {s \in Slots : txd_flags[s] = AVAIL_FLAG} = Window(TxFlip, InTxq)
    BY <1>3 DEF Window
  <2> QED
    BY <1>1, <2>1, WindowSize DEF Marked
<1>5. FlowTxq = Packets(txd_buf, Wrap(TxFlip + TxAhead), InTxq - TxAhead)
  BY <1>4 DEF FlowTxq, TxAhead
<1>6. ASSUME NEW k \in 1 .. InTxq - TxAhead
      PROVE  pktmem[txd_buf[Wrap(Wrap(TxFlip + TxAhead) + k - 1)]] = TxCopied + k
  <2> DEFINE s == Wrap(Wrap(TxFlip + TxAhead) + k - 1)
  <2>1. k \in 1 .. NENTRIES /\ TxAhead \in Nat /\ TxAhead + k <= InTxq
    BY <1>1
  <2>2. s \in Slots /\ Ahead(s, TxFlip) = TxAhead + k - 1
    BY <1>1, <2>1, SlotAt
  <2> HIDE DEF s
  <2>3. pktmem[txd_buf[s]] = TxReleased + 1 + (TxAhead + k - 1)
    BY <1>1, <1>2, <1>3, <2>1, <2>2
  <2>4. TxReleased + 1 + (TxAhead + k - 1) = TxCopied + k
    BY <1>1, <2>1 DEF TxCopied
  <2> QED
    BY <2>3, <2>4 DEF s
<1> QED
  BY <1>5, <1>6 DEF Packets, Run

LEMMA ReceivedIs ==
  ASSUME Sound, FlowInv
  PROVE  FlowReceived = TxCopied
<1>1. /\ tx_counter \in Nat /\ tx_count \in Nat /\ tx_i \in Nat /\ tx_pkts \in Seq(Ids)
      /\ TxBurst
  <2>1. NENTRIES \in Nat /\ BATCH_SIZE \in 1 .. NENTRIES /\ TxTypeOK /\ TxBurst
    BY Facts DEF Sound
  <2> QED
    BY <2>1 DEF TxTypeOK
<1>2. /\ \A j \in 1 .. Len(tx_pkts) :
            tx_pkts[j] = (IF tx_pc = "check" THEN tx_counter - tx_count ELSE tx_counter) + j
      /\ tx_pc # "check" => tx_prev = tx_counter
  BY DEF FlowInv, TxHolds
<1>3. CASE tx_pkts = <<>>
  <2>1. Len(tx_pkts) = 0 /\ tx_pc \notin {"release", "check"} /\ (tx_pc = "copy" => tx_i = 0)
    BY <1>1, <1>3 DEF TxBurst
  <2> QED
    BY <1>1, <1>2, <1>3, <2>1 DEF FlowReceived, TxCopied, TxReleased, TxAhead
<1>4. CASE tx_pkts # <<>>
  <2>1. Len(tx_pkts) \in Nat \ {0}
    BY <1>1, <1>4
  <2>2. tx_pkts[Len(tx_pkts)] =
          (IF tx_pc = "check" THEN tx_counter - tx_count ELSE tx_counter) + Len(tx_pkts)
    BY <1>2, <2>1
  <2>3. /\ tx_pc \in {"copy", "release", "check"}
        /\ Len(tx_pkts) = IF tx_pc = "copy" THEN tx_i ELSE tx_count
    BY <1>1, <2>1 DEF TxBurst
  <2>4. TxCopied = IF tx_pc = "check" THEN tx_counter
                   ELSE tx_counter + (IF tx_pc = "copy" THEN tx_i ELSE tx_count)
    BY <1>1, <2>3 DEF TxCopied, TxReleased, TxAhead, TxLeft
  <2> QED
    BY <1>1, <1>4, <2>2, <2>3, <2>4 DEF FlowReceived
<1> QED
  BY <1>3, <1>4

\* tx.out takes a packet off the queue when it copies it.
LEMMA TxCopies ==
  ASSUME Sound, TxNext
  PROVE  \/ tx_pc = "copy" /\ TxCopied' = TxCopied + 1
         \/ TxCopied' = TxCopied
<1>1. CASE TxStart \/ TxHalve
  BY <1>1 DEF TxStart, TxHalve, TxCopied, TxReleased, TxAhead
<1>2. CASE TxClaim
  BY <1>2 DEF TxClaim, TxCopied, TxReleased, TxAhead
<1>3. CASE TxCopy \/ TxRelease
  <2>1. /\ tx_count \in 1 .. NENTRIES /\ tx_i \in 0 .. tx_count - 1
        /\ NENTRIES \in Nat /\ tx_counter \in Nat
    BY <1>3, TxFacts DEF Sound, TxCopy, TxRelease
  <2>2. CASE TxCopy
    BY <2>1, <2>2 DEF TxCopy, TxCopied, TxReleased, TxAhead, TxLeft
  <2>3. CASE TxRelease
    BY <2>1, <2>3 DEF TxRelease, TxCopied, TxReleased, TxAhead, TxLeft
  <2> QED
    BY <1>3, <2>2, <2>3
<1>4. CASE TxCheck
  BY <1>4 DEF TxCheck, TxCopied, TxReleased, TxAhead
<1> QED
  BY <1>1, <1>2, <1>3, <1>4 DEF TxNext


\* Each step moves at most one packet, or one batch, across one border.
Counts == <<RxSent, NfTaken, NfSent, TxCopied>>

LEMMA CountsMove ==
  ASSUME Sound, FlowInv, [Next]_vars, nf_pc' \notin {"exhausted", "failed", "overrun"}
  PROVE  \/ UNCHANGED Counts
         \/ /\ rx_pc = "publish" /\ RxSent' = RxSent + 1
            /\ UNCHANGED <<NfTaken, NfSent, TxCopied>>
         \/ /\ nf_pc = "poll" /\ NfTaken' = NfTaken + nf_num
            /\ UNCHANGED <<RxSent, NfSent, TxCopied>>
         \/ NfSent' = NfSent + 1 /\ UNCHANGED <<RxSent, NfTaken, TxCopied>>
         \/ tx_pc = "copy" /\ TxCopied' = TxCopied + 1 /\ UNCHANGED <<RxSent, NfTaken, NfSent>>
<1>1. UNCHANGED txVars => TxCopied' = TxCopied
  BY DEF txVars, TxCopied, TxReleased, TxAhead, TxLeft
<1>2. CASE RxStep
  <2>1. UNCHANGED <<NfTaken, NfSent, TxCopied>>
    BY <1>1, <1>2, NfStill DEF RxStep
  <2>2. RxSent' = RxSent \/ (rx_pc = "publish" /\ RxSent' = RxSent + 1)
    BY <1>2, RxQuietFlow, RxCopyFlow, RxPublishFlow DEF RxStep, RxNext, RxPublish
  <2> QED
    BY <2>1, <2>2 DEF Counts
<1>3. CASE NfStep
  <2>1. UNCHANGED <<RxSent, TxCopied>>
    BY <1>1, <1>3, HostsStill DEF NfStep
  <2>2. ~NfExhausted
    BY DEF NfExhausted
  <2>3. \/ UNCHANGED <<NfTaken, NfSent>>
        \/ nf_pc = "poll" /\ NfTaken' = NfTaken + nf_num /\ UNCHANGED NfSent
        \/ NfSent' = NfSent + 1 /\ UNCHANGED NfTaken
    <3>1. CASE NfTake
      BY <1>3, <3>1, NfTakeFlow DEF NfStep, NfTake
    <3>2. CASE NfPublish
      BY <1>3, <3>2, NfPublishFlow DEF NfStep
    <3>3. CASE ~NfTake /\ ~NfPublish
      BY <1>3, <2>2, <3>3, NfRefillFlow, NfOfferFlow, NfQuietFlow, NfXmitFlow,
         NfCleanupFlow, NfPutFlow DEF NfStep, NfNext
    <3> QED
      BY <3>1, <3>2, <3>3
  <2> QED
    BY <2>1, <2>3 DEF Counts
<1>4. CASE TxStep
  BY <1>4, NfStill, HostsStill, TxCopies DEF TxStep, Counts
<1>5. CASE UNCHANGED vars
  BY <1>1, <1>5, NfStill, HostsStill DEF vars, Counts
<1> QED
  BY <1>2, <1>3, <1>4, <1>5 DEF Next, Terminating

\* The ends of a run.
LEMMA RunEnds ==
  ASSUME NEW t \in Int, NEW n \in Nat
  PROVE  /\ Len(Run(t, n)) = n /\ Run(t, 0) = <<>>
         /\ Append(Run(t, n), t + n + 1) = Run(t, n + 1)
         /\ Run(t, n + 1) # <<>>
         /\ Head(Run(t, n + 1)) = t + 1 /\ Tail(Run(t, n + 1)) = Run(t + 1, n)
<1>1. /\ Run(t, n) \in Seq(Int) /\ Run(t, n + 1) \in Seq(Int) /\ Run(t + 1, n) \in Seq(Int)
      /\ Len(Run(t, n)) = n /\ Len(Run(t, n + 1)) = n + 1 /\ Len(Run(t + 1, n)) = n
  BY DEF Run
<1>2. Run(t, 0) = <<>>
  BY DEF Run
<1>3. Append(Run(t, n), t + n + 1) = Run(t, n + 1)
  BY <1>1 DEF Run
<1>4. Run(t, n + 1) # <<>> /\ Head(Run(t, n + 1)) = t + 1
  BY <1>1 DEF Run
<1>5. Tail(Run(t, n + 1)) = Run(t + 1, n)
  BY <1>1 DEF Run
<1> QED
  BY <1>1, <1>2, <1>3, <1>4, <1>5

\* A run cut in two.
LEMMA RunCut ==
  ASSUME NEW t \in Int, NEW n \in Nat, NEW m \in 0 .. n
  PROVE  /\ SubSeq(Run(t, n), 1, m) = Run(t, m)
         /\ SubSeq(Run(t, n), m + 1, Len(Run(t, n))) = Run(t + m, n - m)
<1>1. Run(t, n) \in Seq(Int) /\ Len(Run(t, n)) = n
  BY DEF Run
<1>2. SubSeq(Run(t, n), 1, m) = Run(t, m)
  BY <1>1 DEF Run
<1>3. SubSeq(Run(t, n), m + 1, n) = Run(t + m, n - m)
  BY <1>1 DEF Run
<1> QED
  BY <1>1, <1>2, <1>3


LEMMA FlowInitially == Init => Flow!FlowInit
<1> SUFFICES ASSUME Init
             PROVE  Flow!FlowInit
  OBVIOUS
<1>1. /\ NENTRIES \in Nat \ {0} /\ 0 \in Slots
  BY NEntriesAssumption DEF Slots
<1>2. /\ FlowSent = 0 /\ NfRxLeft = 0 /\ FlowBatch = <<>> /\ FlowReceived = 0
      /\ tx_pc = "start"
  BY DEF Init, RxInit, NfInit, TxInit, FlowSent, NfRxLeft, FlowBatch, FlowReceived
<1>3. Marked(rxd_flags, USED_FLAG) = 0 /\ Marked(txd_flags, AVAIL_FLAG) = 0
  <2>1. /\ {s \in Slots : rxd_flags[s] = USED_FLAG} = {}
        /\ {s \in Slots : txd_flags[s] = AVAIL_FLAG} = {}
    BY DEF Init, ShmInit, AVAIL_FLAG, USED_FLAG
  <2> QED
    BY <2>1, FS_EmptySet DEF Marked
<1>4. FlowRxq = <<>> /\ FlowTxq = <<>>
  BY <1>2, <1>3 DEF FlowRxq, FlowTxq, Packets
<1> QED
  BY <1>2, <1>4 DEF Flow!FlowInit

\* The state of PacketFlow by the counters.
LEMMA FlowState ==
  ASSUME Sound, FlowInv
  PROVE  /\ FlowSent = RxSent /\ FlowRxq = Run(NfTaken, RxSent - NfTaken)
         /\ FlowBatch = Run(NfSent, NfTaken - NfSent)
         /\ FlowTxq = Run(TxCopied, NfSent - TxCopied) /\ FlowReceived = TxCopied
         /\ RxSent - NfTaken \in 0 .. NENTRIES /\ NfTaken - NfSent \in Nat
         /\ NfSent - TxCopied \in 0 .. NENTRIES
         /\ RxSent \in Int /\ NfTaken \in Int /\ NfSent \in Int /\ TxCopied \in Int
<1>1. /\ RxSent \in Int /\ NfTaken \in Int /\ NfSent \in Int /\ TxReleased \in Int
      /\ TxAhead \in 0 .. InTxq /\ InTxq \in 0 .. NENTRIES /\ NENTRIES \in Nat
  BY Facts, TxAheadBounds DEF Sound
<1>2. /\ TxCopied \in Int /\ NfSent - TxCopied = InTxq - TxAhead
      /\ NfSent - TxCopied \in 0 .. NENTRIES
  BY <1>1 DEF TxCopied, InTxq
<1>3. InRxq \in 0 .. NENTRIES /\ FlowRxq = Run(NfTaken, InRxq)
  BY RxqIs
<1>4. NfTaken - NfSent \in Nat /\ FlowBatch = Run(NfSent, NfTaken - NfSent)
  BY BatchIs
<1>5. FlowTxq = Run(TxCopied, InTxq - TxAhead) /\ FlowReceived = TxCopied
  BY TxqIs, ReceivedIs
<1>6. FlowSent = RxSent /\ InRxq = RxSent - NfTaken
  BY DEF RxSent, InRxq
<1> QED
  BY <1>1, <1>2, <1>3, <1>4, <1>5, <1>6

(***************************************************************************)
(* What a step of the pipeline is for PacketFlow.                          *)
(***************************************************************************)
LEMMA FlowSteps ==
  ASSUME Whole, FlowInv, Whole', FlowInv', [Next]_vars
  PROVE  [Flow!FlowNext]_(Flow!flowVars)
<1> DEFINE R == RxSent
           T == NfTaken
           S == NfSent
           C == TxCopied
<1>1. /\ FlowSent = R /\ FlowRxq = Run(T, R - T) /\ FlowBatch = Run(S, T - S)
      /\ FlowTxq = Run(C, S - C) /\ FlowReceived = C
      /\ R - T \in 0 .. NENTRIES /\ T - S \in Nat /\ S - C \in 0 .. NENTRIES
      /\ R \in Int /\ T \in Int /\ S \in Int /\ C \in Int
  BY FlowState DEF Whole
<1>2. (/\ FlowSent = R /\ FlowRxq = Run(T, R - T) /\ FlowBatch = Run(S, T - S)
       /\ FlowTxq = Run(C, S - C) /\ FlowReceived = C
       /\ R - T \in 0 .. NENTRIES /\ T - S \in Nat /\ S - C \in 0 .. NENTRIES
       /\ R \in Int /\ T \in Int /\ S \in Int /\ C \in Int)'
  <2>1. Sound' /\ FlowInv'
    BY DEF Whole
  <2> QED
    BY <2>1, FlowState, PTL
<1>3. NENTRIES \in Nat \ {0} /\ nf_num \in 1 .. RecvMax /\ RecvMax \in Nat /\ nf_num \in Nat
  <2>1. nf_num \in 1 .. NENTRIES /\ NENTRIES \in Nat \ {0} /\ nf_num <= RecvMax
    BY Facts DEF Whole, Sound, CacheInv
  <2>2. RecvMax \in Nat
    BY RecvMaxBounds, OptionAssumption
  <2> QED
    BY <2>1, <2>2
<1>4. CASE UNCHANGED Counts
  <2>1. UNCHANGED <<R, T, S, C>>
    BY <1>4 DEF Counts
  <2> HIDE DEF R, T, S, C
  <2> QED
    BY <1>1, <1>2, <2>1 DEF Flow!flowVars
<1>5. CASE rx_pc = "publish" /\ R' = R + 1 /\ UNCHANGED <<T, S, C>>
  <2>1. R < PKT_NUM
    <3>1. /\ rx_i < rx_count /\ rx_nb \in 1 .. PKT_NUM - rx_counter
          /\ rx_count \in 1 .. rx_nb - rx_sent
          /\ rx_counter \in Nat /\ rx_sent \in Nat /\ rx_i \in Nat /\ PKT_NUM \in Nat
      <4>1. RxTypeOK /\ RxBurst /\ RxCursors /\ PKT_NUM \in Nat
        BY Facts DEF Whole, Sound
      <4> QED
        BY <1>5, <4>1, RxFacts DEF Whole, Sound, RxBurst, RxCursors
    <3>2. R = rx_counter + rx_sent + rx_i
      BY <1>5, <3>1 DEF RxSent, FlowSent
    <3> HIDE DEF R
    <3> QED
      BY <3>1, <3>2
  <2> HIDE DEF R, T, S, C
  <2>2. R - T \in Nat /\ R - T < NENTRIES /\ R' - T' = R - T + 1
    BY <1>1, <1>2, <1>3, <1>5
  <2>3. /\ Len(FlowRxq) = R - T /\ FlowRxq' = Append(FlowRxq, R + 1)
    <3> DEFINE n == R - T
    <3>1. T + n + 1 = R + 1 /\ R' - T' = n + 1 /\ n \in Nat /\ T \in Int
      BY <1>1, <2>2
    <3>2. FlowRxq = Run(T, n) /\ FlowRxq' = Run(T, R' - T')
      BY <1>1, <1>2, <1>5
    <3> HIDE DEF n
    <3>3. Len(Run(T, n)) = n /\ Append(Run(T, n), T + n + 1) = Run(T, n + 1)
      BY <3>1, RunEnds
    <3>4. Len(FlowRxq) = n /\ FlowRxq' = Append(FlowRxq, R + 1)
      BY <3>1, <3>2, <3>3
    <3> QED
      BY <3>4 DEF n
  <2>4. FlowBatch' = FlowBatch /\ FlowTxq' = FlowTxq /\ FlowReceived' = FlowReceived
    BY <1>1, <1>2, <1>5
  <2>5. Flow!Send
    BY <1>1, <1>2, <1>5, <2>1, <2>2, <2>3, <2>4 DEF Flow!Send
  <2> QED
    BY <2>5 DEF Flow!FlowNext
<1>6. CASE nf_pc = "poll" /\ T' = T + nf_num /\ UNCHANGED <<R, S, C>>
  <2>1. T = S
    <3>1. nf_counter \in Nat
      BY Facts DEF Whole, Sound, NfTypeOK
    <3> QED
      BY <1>6, <3>1 DEF NfTaken, NfSent
  <2>2. FlowBatch = <<>>
    BY <1>6 DEF FlowBatch
  <2> HIDE DEF R, T, S, C
  <2>3. R - T \in Nat /\ nf_num \in 0 .. R - T /\ R' - T' = R - T - nf_num /\ T' - S' = nf_num
    BY <1>1, <1>2, <1>3, <1>6, <2>1
  <2>4. /\ nf_num <= Len(FlowRxq)
        /\ FlowBatch' = SubSeq(FlowRxq, 1, nf_num)
        /\ FlowRxq' = SubSeq(FlowRxq, nf_num + 1, Len(FlowRxq))
    <3> DEFINE n == R - T
    <3>1. n \in Nat /\ nf_num \in 0 .. n /\ T \in Int
      BY <1>1, <2>3
    <3>2. /\ FlowRxq = Run(T, n) /\ FlowBatch' = Run(T, nf_num)
          /\ FlowRxq' = Run(T + nf_num, n - nf_num)
      BY <1>1, <1>2, <1>6, <2>1, <2>3
    <3> HIDE DEF n
    <3>3. /\ SubSeq(Run(T, n), 1, nf_num) = Run(T, nf_num)
          /\ SubSeq(Run(T, n), nf_num + 1, Len(Run(T, n))) = Run(T + nf_num, n - nf_num)
          /\ Len(Run(T, n)) = n
      BY <3>1, RunCut, RunEnds
    <3> QED
      BY <3>1, <3>2, <3>3
  <2>5. FlowSent' = FlowSent /\ FlowTxq' = FlowTxq /\ FlowReceived' = FlowReceived
    BY <1>1, <1>2, <1>6
  <2>6. Flow!Take
    BY <1>3, <2>2, <2>4, <2>5 DEF Flow!Take
  <2> QED
    BY <2>6 DEF Flow!FlowNext
<1>7. CASE S' = S + 1 /\ UNCHANGED <<R, T, C>>
  <2> HIDE DEF R, T, S, C
  <2>1. /\ T' - S' \in Nat /\ T - S = (T' - S') + 1 /\ S - C \in Nat /\ S' - C' = (S - C) + 1
        /\ S - C < NENTRIES
    BY <1>1, <1>2, <1>3, <1>7
  <2>2. FlowBatch # <<>> /\ Head(FlowBatch) = S + 1 /\ FlowBatch' = Tail(FlowBatch)
    <3> DEFINE n == T' - S'
    <3>1. /\ n \in Nat /\ S \in Int
          /\ FlowBatch = Run(S, n + 1) /\ FlowBatch' = Run(S + 1, n)
      BY <1>1, <1>2, <1>7, <2>1
    <3> HIDE DEF n
    <3>2. /\ Run(S, n + 1) # <<>> /\ Head(Run(S, n + 1)) = S + 1
          /\ Tail(Run(S, n + 1)) = Run(S + 1, n)
      BY <3>1, RunEnds
    <3> QED
      BY <3>1, <3>2
  <2>3. Len(FlowTxq) = S - C /\ FlowTxq' = Append(FlowTxq, S + 1)
    <3> DEFINE n == S - C
    <3>1. /\ n \in Nat /\ C \in Int /\ C + n + 1 = S + 1
          /\ FlowTxq = Run(C, n) /\ FlowTxq' = Run(C, n + 1)
      BY <1>1, <1>2, <1>7, <2>1
    <3> HIDE DEF n
    <3>2. Len(Run(C, n)) = n /\ Append(Run(C, n), C + n + 1) = Run(C, n + 1)
      BY <3>1, RunEnds
    <3>3. Len(FlowTxq) = n /\ FlowTxq' = Append(FlowTxq, S + 1)
      BY <3>1, <3>2
    <3> QED
      BY <3>3 DEF n
  <2>4. FlowSent' = FlowSent /\ FlowRxq' = FlowRxq /\ FlowReceived' = FlowReceived
    BY <1>1, <1>2, <1>7
  <2>5. Flow!Forward
    BY <2>1, <2>2, <2>3, <2>4 DEF Flow!Forward
  <2> QED
    BY <2>5 DEF Flow!FlowNext
<1>8. CASE C' = C + 1 /\ UNCHANGED <<R, T, S>>
  <2> HIDE DEF R, T, S, C
  <2>1. S' - C' \in Nat /\ S - C = (S' - C') + 1
    BY <1>1, <1>2, <1>8
  <2>2. FlowTxq # <<>> /\ Head(FlowTxq) = C + 1 /\ FlowTxq' = Tail(FlowTxq)
    <3> DEFINE n == S' - C'
    <3>1. /\ n \in Nat /\ C \in Int
          /\ FlowTxq = Run(C, n + 1) /\ FlowTxq' = Run(C + 1, n)
      BY <1>1, <1>2, <1>8, <2>1
    <3> HIDE DEF n
    <3>2. /\ Run(C, n + 1) # <<>> /\ Head(Run(C, n + 1)) = C + 1
          /\ Tail(Run(C, n + 1)) = Run(C + 1, n)
      BY <3>1, RunEnds
    <3> QED
      BY <3>1, <3>2
  <2>3. FlowSent' = FlowSent /\ FlowRxq' = FlowRxq /\ FlowBatch' = FlowBatch
    BY <1>1, <1>2, <1>8
  <2>4. Flow!Receive
    BY <1>1, <1>2, <1>8, <2>2, <2>3 DEF Flow!Receive
  <2> QED
    BY <2>4 DEF Flow!FlowNext
<1>9. nf_pc' \notin {"exhausted", "failed", "overrun"}
  BY DEF Whole, Sound
<1>10. Sound
  BY DEF Whole
<1> QED
  BY <1>4, <1>5, <1>6, <1>7, <1>8, <1>9, <1>10, CountsMove

(***************************************************************************)
(* Packets cross EIVU exactly once, in order and unaltered: rx.out, nf.out *)
(* and tx.out together are two first-in first-out queues with a batch in   *)
(* between (rx.c, nf.c, tx.c with vhost.h and vio.h).                      *)
(***************************************************************************)
THEOREM PipelineIsFlow == Spec => FlowImplemented
<1>1. Whole /\ FlowInv /\ Whole' /\ FlowInv' /\ [Next]_vars => [Flow!FlowNext]_(Flow!flowVars)
  BY FlowSteps
<1> QED
  BY <1>1, FlowInitially, PacketsHeld, WholeAlways, PTL
  DEF Spec, FlowImplemented, Flow!FlowSpec
=============================================================================
