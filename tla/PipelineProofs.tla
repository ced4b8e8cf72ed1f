--------------------------- MODULE PipelineProofs ---------------------------
(***************************************************************************)
(* Proofs about the pipeline, for every queue size, batch size, number of  *)
(* packets, pool size and cache size.  IInv is inductive; type             *)
(* correctness, the exclusive use of descriptors and the agreement of the  *)
(* TX cursors follow from it, with it each queue implements DescRing, and  *)
(* relative to it every guest buffer is in exactly one place.              *)
(***************************************************************************)
EXTENDS PipelineInv, VioqueueProofs, SequenceTheorems, FiniteSetTheorems

(***************************************************************************)
(* vio_recv_pkts (vio.h:52) asks for at least one packet and for no more   *)
(* than a batch.                                                           *)
(***************************************************************************)
LEMMA RecvMaxBounds == RecvMax \in 1 .. BATCH_SIZE
<1>1. /\ BATCH_SIZE \in Nat \ {0}
      /\ DESC_PER_CACHELINE \in Nat \ {0}
  BY OptionAssumption, NEntriesAssumption
<1>2. BATCH_SIZE % DESC_PER_CACHELINE \in 0 .. DESC_PER_CACHELINE - 1
  BY <1>1
<1> QED
  BY <1>1, <1>2 DEF RecvMax

LEMMA InitPoolType ==
  ASSUME NEW n \in 0 .. POOL_NUM
  PROVE  InitPool(n) \in [ring : Seq(Objs), rear : Nat, cache : Seq(Objs)]
<1>1. POOL_NUM \in Nat
  BY PoolAssumption
<1>2. [k \in 1 .. POOL_NUM - n |-> n + k - 1] \in Seq(Objs)
  <2>1. POOL_NUM - n \in Nat
    BY <1>1
  <2>2. [k \in 1 .. POOL_NUM - n |-> n + k - 1] \in [1 .. POOL_NUM - n -> Objs]
    BY <1>1 DEF Objs
  <2> QED
    BY <2>1, <2>2, SeqDef
<1> QED
  BY <1>1, <1>2 DEF InitPool

LEMMA AllocType ==
  ASSUME NEW p \in [ring : Seq(Objs), rear : Nat, cache : Seq(Objs)], CanAlloc(p)
  PROVE  /\ AllocIdx(p) \in Objs
         /\ AfterAlloc(p) \in [ring : Seq(Objs), rear : Nat, cache : Seq(Objs)]
<1>1. CASE p.cache # <<>>
  <2>1. /\ Len(p.cache) \in Nat \ {0}
        /\ p.cache[Len(p.cache)] \in Objs
        /\ SubSeq(p.cache, 1, Len(p.cache) - 1) \in Seq(Objs)
    BY <1>1
  <2> QED
    BY <1>1, <2>1 DEF AllocIdx, AfterAlloc
<1>2. CASE p.cache = <<>>
  <2>1. p.ring # <<>>
    BY <1>2 DEF CanAlloc
  <2>2. Head(p.ring) \in Objs /\ Tail(p.ring) \in Seq(Objs)
    BY <2>1
  <2> QED
    BY <1>2, <2>2 DEF AllocIdx, AfterAlloc
<1> QED
  BY <1>1, <1>2

LEMMA FreeType ==
  ASSUME NEW p \in [ring : Seq(Objs), rear : Nat, cache : Seq(Objs)], NEW b \in Objs
  PROVE  AfterFree(p, b) \in [ring : Seq(Objs), rear : Nat, cache : Seq(Objs)]
<1>1. CASE Cacheable(p)
  <2>1. Append(p.cache, b) \in Seq(Objs)
    OBVIOUS
  <2> QED
    BY <1>1, <2>1 DEF AfterFree
<1>2. CASE ~Cacheable(p)
  <2>1. Append(p.ring, b) \in Seq(Objs) /\ p.rear + 1 \in Nat
    OBVIOUS
  <2>2. AfterFree(p, b) = [p EXCEPT !.ring = Append(p.ring, b), !.rear = p.rear + 1]
    BY <1>2 DEF AfterFree
  <2>3. AfterFree(p, b) = [ring |-> Append(p.ring, b), rear |-> p.rear + 1, cache |-> p.cache]
    BY <2>2
  <2> QED
    BY <2>1, <2>3
<1> QED
  BY <1>1, <1>2
-----------------------------------------------------------------------------
LEMMA InitInv == Init => IInv
<1> SUFFICES ASSUME Init
             PROVE  IInv
  OBVIOUS
<1> USE NEntriesAssumption
<1>1. 0 \in Slots /\ BATCH_SIZE \in Nat \ {0} /\ PKT_NUM \in Nat \ {0}
  BY OptionAssumption DEF Slots
<1>2. ShmTypeOK
  <2>1. Slots \subseteq Objs
    BY GuestPoolAssumption, PoolAssumption DEF Slots, Objs
  <2>2. rxd_flags \in [Slots -> Flags] /\ txd_flags \in [Slots -> Flags]
    BY DEF Init, ShmInit, Flags
  <2>3. rxd_buf \in [Slots -> Objs] /\ txd_buf \in [Slots -> Objs \cup {NoBuf}]
    BY <2>1 DEF Init, ShmInit
  <2>4. pktmem \in [Objs -> Ids]
    BY <1>1 DEF Init, ShmInit, Ids
  <2> QED
    BY <2>2, <2>3, <2>4 DEF Init, ShmInit, ShmTypeOK
<1>3. RxTypeOK /\ RxBurst /\ RxCursors
  <2>1. rx_bufs \in Seq(Objs)
    BY DEF Init, RxInit
  <2>2. RxTypeOK
    <3>1. rx_second \in BOOLEAN
      BY DEF Init, RxInit
    <3> QED
      BY <1>1, <2>1, <3>1 DEF Init, RxInit, RxTypeOK, Cursor, Slots
  <2> QED
    BY <2>2 DEF Init, RxInit, RxBurst, RxCursors
<1>4. NfTypeOK /\ NfIndex /\ NfRxCursors /\ NfTxCursors
  <2>2. nf_bufs \in Seq(Objs)
    BY DEF Init, NfInit
  <2>1. nf_pool \in [ring : Seq(Objs), rear : Nat, cache : Seq(Objs)]
    <3>1. NENTRIES \in 0 .. POOL_NUM
      BY GuestPoolAssumption, PoolAssumption
    <3> QED
      BY <3>1, InitPoolType DEF Init, NfInit
  <2> QED
    BY <1>1, <2>1, <2>2, RecvMaxBounds
    DEF Init, NfInit, NfTypeOK, NfIndex, NfRxCursors, NfTxCursors, Cursor, Slots, Ids
<1>5. TxTypeOK /\ TxBurst
  <2>1. tx_bufs \in Seq(Objs) /\ tx_pkts \in Seq(Ids) /\ Len(tx_pkts) = 0
    BY DEF Init, TxInit
  <2> QED
    BY <1>1, <2>1 DEF Init, TxInit, TxTypeOK, TxBurst, Cursor, Slots, Ids
<1>6. TxdCarries
  BY <1>1 DEF Init, ShmInit, NfInit, TxdCarries, Window, NfPutSoFar, Ahead, Slots,
              AVAIL_FLAG, USED_FLAG
<1>7. RxdShared
  <2>1. RxFlip = 0 /\ NfRxFlip = 0 /\ RxLeft = 0 /\ NfRxLeft = 0
    BY DEF Init, RxInit, NfInit, RxFlip, NfRxFlip, RxLeft, NfRxLeft
  <2>2. 0 = Wrap(0 + NENTRIES)
    BY DEF Wrap
  <2>3. \A s \in Slots : rxd_flags[s] = AVAIL_FLAG /\ Ahead(s, 0) < NENTRIES
    BY <1>1, AheadBounds DEF Init, ShmInit
  <2> QED
    BY <2>1, <2>2, <2>3 DEF RxdShared, SharedOut
<1>8. TxdShared
  <2>1. TxFlip = 0 /\ NfTxFlip = 0 /\ TxLeft = 0 /\ NfTxLeft = 0
    BY DEF Init, TxInit, NfInit, TxFlip, NfTxFlip, TxLeft, NfTxLeft
  <2>2. 0 = Wrap(0 + 0)
    BY DEF Wrap
  <2>3. \A s \in Slots : txd_flags[s] # AVAIL_FLAG /\ ~(Ahead(s, 0) < 0)
    BY <1>1, AheadBounds DEF Init, ShmInit, AVAIL_FLAG, USED_FLAG
  <2> QED
    BY <2>1, <2>2, <2>3 DEF TxdShared, SharedOut
<1> QED
  BY <1>2, <1>3, <1>4, <1>5, <1>6, <1>7, <1>8 DEF IInv, TypeOK
-----------------------------------------------------------------------------
(***************************************************************************)
(* A burst of rx.out ends (rx.c:96-107): the second one starts, or the     *)
(* counter moves on.                                                       *)
(***************************************************************************)
LEMMA RxBurstEnds ==
  ASSUME RxTypeOK,
         NEW sent \in 0 .. BATCH_SIZE, sent <= rx_nb, rx_nb \in 1 .. PKT_NUM - rx_counter,
         RxBurstReturns(sent)
  PROVE  /\ rx_pc' \in {"probe", "generate"}
         /\ rx_counter' \in 0 .. PKT_NUM
         /\ rx_sent' \in 0 .. BATCH_SIZE
         /\ rx_second' \in BOOLEAN
         /\ rx_count' \in 0 .. BATCH_SIZE
         /\ rx_nb' = rx_nb /\ rx_pc' = "probe" =>
              /\ rx_nb' \in 1 .. PKT_NUM - rx_counter'
              /\ rx_count' \in 1 .. rx_nb' - rx_sent'
<1> USE NEntriesAssumption, OptionAssumption DEF RxTypeOK
<1>1. CASE sent < rx_nb /\ ~rx_second
  BY <1>1 DEF RxBurstReturns
<1>2. CASE ~(sent < rx_nb /\ ~rx_second)
  BY <1>2 DEF RxBurstReturns
<1> QED
  BY <1>1, <1>2

(***************************************************************************)
(* Every step of rx.out preserves the types, the cursors and indices of    *)
(* rx.out, and how the RX descriptors are shared out.                      *)
(***************************************************************************)
LEMMA RxPreserves ==
  ASSUME IInv, RxNext, UNCHANGED <<nfVars, txVars>>
  PROVE  /\ ShmTypeOK' /\ RxTypeOK'
         /\ RxBurst' /\ RxCursors'
         /\ RxdShared'
         /\ UNCHANGED <<txd_flags, txd_buf>>
<1> USE NEntriesAssumption, OptionAssumption
<1>0. /\ ShmTypeOK /\ RxTypeOK /\ RxBurst /\ RxCursors /\ RxdShared
      /\ NfRxFlip \in Slots /\ NfRxLeft \in Nat
      /\ UNCHANGED <<NfRxFlip, NfRxLeft>>
  <2>1. NfRxFlip \in Slots /\ NfRxLeft \in Nat
    BY DEF IInv, TypeOK, NfTypeOK, NfIndex, NfRxFlip, NfRxLeft, Cursor, Slots, Wrap
  <2> QED
    BY <2>1 DEF IInv, TypeOK, NfRxFlip, NfRxLeft, nfVars
<1>1. CASE RxStart
  BY <1>0, <1>1 DEF RxStart, shmVars, ShmTypeOK, RxTypeOK, RxBurst, RxCursors,
                    RxdShared, RxFlip, RxLeft
<1>2. CASE RxGenerate
  <2>1. rx_nb' \in 1 .. BATCH_SIZE /\ rx_nb' \in 1 .. PKT_NUM - rx_counter
    BY <1>0, <1>2 DEF RxGenerate, RxFresh, RxTypeOK
  <2>2. ShmTypeOK' /\ UNCHANGED <<txd_flags, txd_buf>>
    BY <1>0, <1>2 DEF RxGenerate, RxFresh, shmVars, ShmTypeOK
  <2>3. rx_second' \in BOOLEAN
    BY <1>2 DEF RxGenerate, RxFresh
  <2>4. RxTypeOK' /\ RxBurst' /\ RxCursors'
    BY <1>0, <1>2, <2>1, <2>3 DEF RxGenerate, RxFresh, RxTypeOK, RxBurst, RxCursors
  <2>5. RxdShared'
    BY <1>0, <1>2 DEF RxGenerate, RxFresh, shmVars, RxdShared, RxFlip, RxLeft
  <2> QED
    BY <2>2, <2>4, <2>5
<1>3. CASE RxExit
  BY <1>0, <1>3 DEF RxExit, shmVars, ShmTypeOK, RxTypeOK, RxBurst, RxCursors,
                    RxdShared, RxFlip, RxLeft
<1>4. CASE RxClaim
  <2>1. /\ rx_count \in 1 .. NENTRIES /\ rx_count \in 1 .. BATCH_SIZE
        /\ rx_last_used \in Slots /\ rx_last_avail = rx_last_used
        /\ rx_last_used + rx_count <= NENTRIES
        /\ rxd_flags[Wrap(rx_last_used + rx_count - 1)] = AVAIL_FLAG
    BY <1>0, <1>4 DEF RxClaim, RxMayClaim, Contiguous, RxTypeOK, RxBurst, RxCursors,
                      Cursor, Slots
  <2>2. ShmTypeOK' /\ UNCHANGED <<txd_flags, txd_buf>>
    BY <1>0, <1>4 DEF RxClaim, shmVars, ShmTypeOK
  <2>3. rx_bufs' \in Seq(Objs) /\ Len(rx_bufs') = rx_count
    <3>1. rx_count \in Nat /\ rx_bufs' \in [1 .. rx_count -> Objs]
      BY <1>0, <1>4, <2>1 DEF RxClaim, ShmTypeOK, Slots
    <3> QED
      BY <3>1, SeqDef
  <2>4. Wrap(rx_last_avail + rx_count) \in Cursor
    BY <2>1 DEF Wrap, Slots, Cursor
  <2>5. RxTypeOK' /\ RxBurst' /\ RxCursors'
    BY <1>0, <1>4, <2>1, <2>3, <2>4 DEF RxClaim, RxTypeOK, RxBurst, RxCursors
  <2>6. RxdShared'
    <3>1. SharedOut(rxd_flags, rx_last_used, NfRxFlip, 0, NfRxLeft)
      BY <1>0, <1>4 DEF RxClaim, RxdShared, RxFlip, RxLeft
    <3>2. SharedOut(rxd_flags, rx_last_used, NfRxFlip, rx_count, NfRxLeft)
      BY <1>0, <2>1, <3>1, HostClaims DEF ShmTypeOK
    <3> QED
      BY <1>0, <1>4, <3>2 DEF RxClaim, shmVars, RxdShared, RxFlip, RxLeft
  <2> QED
    BY <2>2, <2>5, <2>6
<1>5. CASE RxHalve
  BY <1>0, <1>5 DEF RxHalve, shmVars, ShmTypeOK, RxTypeOK, RxBurst, RxCursors,
                    RxdShared, RxFlip, RxLeft
<1>6. CASE RxGiveUp
  <2>1. /\ RxBurstReturns(rx_sent) /\ rx_sent \in 0 .. BATCH_SIZE /\ rx_sent <= rx_nb
        /\ rx_nb \in 1 .. PKT_NUM - rx_counter /\ rx_nb' = rx_nb
    BY <1>0, <1>6 DEF RxGiveUp, RxTypeOK, RxBurst
  <2>2. ShmTypeOK' /\ UNCHANGED <<txd_flags, txd_buf>>
    BY <1>0, <1>6 DEF RxGiveUp, shmVars, ShmTypeOK
  <2>3. RxTypeOK' /\ RxBurst' /\ RxCursors'
    BY <1>0, <1>6, <2>1, RxBurstEnds DEF RxGiveUp, RxTypeOK, RxBurst, RxCursors
  <2>4. RxdShared'
    BY <1>0, <1>6, <2>1, RxBurstEnds DEF RxGiveUp, shmVars, RxdShared, RxFlip, RxLeft
  <2> QED
    BY <2>2, <2>3, <2>4
<1>7. CASE RxCopy
  <2>1. /\ rx_i \in 0 .. rx_count - 1 /\ Len(rx_bufs) = rx_count
        /\ rx_counter + rx_sent + rx_i + 1 \in Ids
    BY <1>0, <1>7 DEF RxCopy, RxTypeOK, RxBurst, RxCursors, Ids
  <2>2. rxd_flags' = rxd_flags /\ UNCHANGED <<txd_flags, txd_buf>>
    BY <1>7 DEF RxCopy
  <2>3. ShmTypeOK'
    <3>1. pktmem' \in [Objs -> Ids]
      BY <1>0, <1>7, <2>1 DEF RxCopy, RxPktId, ShmTypeOK
    <3> QED
      BY <1>0, <1>7, <3>1 DEF RxCopy, RxPktId, ShmTypeOK
  <2>4. RxTypeOK' /\ RxBurst' /\ RxCursors'
    <3>1. CASE rx_i + 1 < rx_count
      BY <1>0, <1>7, <2>1, <3>1 DEF RxCopy, RxPktId, RxTypeOK, RxBurst, RxCursors
    <3>2. CASE ~(rx_i + 1 < rx_count)
      <4>1. rx_bufs' \in Seq(Objs)
        BY <1>7, <3>2 DEF RxCopy, RxPktId
      <4> QED
        BY <1>0, <1>7, <2>1, <3>2, <4>1 DEF RxCopy, RxPktId, RxTypeOK, RxBurst, RxCursors
    <3> QED
      BY <3>1, <3>2
  <2>5. RxFlip' = RxFlip /\ RxLeft' = RxLeft
    <3>1. rx_last_used \in Slots /\ rx_count \in Nat
      BY <1>0 DEF RxTypeOK, Cursor, Slots
    <3> QED
      BY <1>7, <3>1, WrapZero DEF RxCopy, RxFlip, RxLeft
  <2>6. RxdShared'
    BY <1>0, <2>2, <2>5 DEF RxdShared
  <2> QED
    BY <2>2, <2>3, <2>4, <2>6
<1>8. CASE RxPublish
  <2>1. /\ rx_i \in 0 .. rx_count - 1 /\ rx_count \in 1 .. NENTRIES
        /\ rx_last_used \in Slots /\ rx_last_used + rx_i \in Slots
        /\ RxFlip = rx_last_used + rx_i /\ RxLeft = rx_count - rx_i
        /\ rxd_flags' = [rxd_flags EXCEPT ![RxFlip] = USED_FLAG]
    <3>1. /\ rx_i \in 0 .. rx_count - 1 /\ rx_count \in 1 .. NENTRIES
          /\ rx_last_used \in Slots /\ rx_last_used + rx_count <= NENTRIES
      BY <1>0, <1>8 DEF RxPublish, RxTypeOK, RxBurst, RxCursors, Cursor, Slots
    <3>2. rx_last_used + rx_i \in Slots /\ Wrap(rx_last_used + rx_i) = rx_last_used + rx_i
      BY <3>1 DEF Slots, Wrap
    <3>3. RxFlip = rx_last_used + rx_i /\ RxLeft = rx_count - rx_i
      BY <1>8, <3>2 DEF RxPublish, RxFlip, RxLeft
    <3> QED
      BY <1>8, <3>1, <3>2, <3>3 DEF RxPublish
  <2>2. ShmTypeOK' /\ UNCHANGED <<txd_flags, txd_buf>>
    <3>1. rxd_flags' \in [Slots -> Flags]
      BY <1>0, <2>1 DEF ShmTypeOK, Flags
    <3> QED
      BY <1>0, <1>8, <3>1 DEF RxPublish, ShmTypeOK
  <2>3. /\ RxTypeOK' /\ RxBurst' /\ RxCursors'
        /\ RxFlip' = Wrap(RxFlip + 1) /\ RxLeft' = RxLeft - 1
    <3>1. CASE rx_i + 1 < rx_count
      <4>1. RxTypeOK' /\ RxBurst' /\ RxCursors'
        <5>1. rx_second' \in BOOLEAN
          BY <1>0, <1>8, <3>1 DEF RxPublish, RxTypeOK
        <5> QED
          BY <1>0, <1>8, <2>1, <3>1, <5>1 DEF RxPublish, RxTypeOK, RxBurst, RxCursors
      <4>2. RxFlip' = Wrap(rx_last_used + (rx_i + 1)) /\ RxLeft' = rx_count - (rx_i + 1)
        BY <1>8, <3>1 DEF RxPublish, RxFlip, RxLeft
      <4>3. rx_last_used + (rx_i + 1) = (rx_last_used + rx_i) + 1
        BY <2>1 DEF Slots
      <4> QED
        BY <2>1, <4>1, <4>2, <4>3
    <3>2. CASE ~(rx_i + 1 < rx_count)
      <4>1. rx_i + 1 = rx_count
        BY <2>1, <3>2
      <4>2. /\ RxBurstReturns(rx_sent + rx_count)
            /\ rx_sent + rx_count \in 0 .. BATCH_SIZE /\ rx_sent + rx_count <= rx_nb
            /\ rx_nb \in 1 .. PKT_NUM - rx_counter /\ rx_nb' = rx_nb
            /\ rx_i' = 0 /\ rx_last_used' = Wrap(rx_last_used + rx_count)
            /\ rx_bufs' = rx_bufs /\ rx_last_avail' = rx_last_avail
        BY <1>0, <1>8, <3>2 DEF RxPublish, RxTypeOK, RxBurst
      <4>3. Wrap(rx_last_used + rx_count) \in Cursor
        BY <2>1 DEF Wrap, Slots, Cursor
      <4>4. RxTypeOK' /\ RxBurst' /\ RxCursors'
        <5>1. /\ rx_pc' \in {"probe", "generate"}
              /\ rx_counter' \in 0 .. PKT_NUM
              /\ rx_sent' \in 0 .. BATCH_SIZE
              /\ rx_second' \in BOOLEAN
              /\ rx_count' \in 0 .. BATCH_SIZE
              /\ rx_pc' = "probe" =>
                   /\ rx_nb' \in 1 .. PKT_NUM - rx_counter'
                   /\ rx_count' \in 1 .. rx_nb' - rx_sent'
          BY <1>0, <4>2, RxBurstEnds
        <5>2. RxTypeOK'
          BY <1>0, <4>2, <4>3, <5>1 DEF RxTypeOK
        <5>3. rx_last_avail = Wrap(rx_last_used + rx_count)
          BY <1>0, <1>8 DEF RxPublish, RxCursors
        <5> QED
          BY <4>2, <5>1, <5>2, <5>3 DEF RxBurst, RxCursors
      <4>5. RxFlip' = Wrap(rx_last_used + rx_count) /\ RxLeft' = 0
        BY <1>0, <4>2, RxBurstEnds DEF RxFlip, RxLeft
      <4> QED
        <5>1. rx_last_used + rx_count = (rx_last_used + rx_i) + 1
          BY <2>1, <4>1 DEF Slots
        <5> QED
          BY <2>1, <4>1, <4>4, <4>5, <5>1
    <3> QED
      BY <3>1, <3>2
  <2>4. RxdShared'
    <3>1. /\ RxFlip \in Slots /\ RxLeft \in Nat /\ RxLeft > 0
          /\ rxd_flags \in [Slots -> Flags]
          /\ SharedOut(rxd_flags, RxFlip, NfRxFlip, RxLeft, NfRxLeft)
      BY <1>0, <2>1 DEF RxdShared, ShmTypeOK
    <3>2. SharedOut(rxd_flags', RxFlip', NfRxFlip, RxLeft', NfRxLeft)
      BY <1>0, <2>1, <2>3, <3>1, HostHandsOver
    <3> QED
      BY <1>0, <3>2 DEF RxdShared
  <2> QED
    BY <2>2, <2>3, <2>4
<1> QED
  BY <1>1, <1>2, <1>3, <1>4, <1>5, <1>6, <1>7, <1>8 DEF RxNext
-----------------------------------------------------------------------------
(***************************************************************************)
(* The cursors and counts with which a side takes part in SharedOut are    *)
(* descriptors and natural numbers.                                        *)
(***************************************************************************)
LEMMA FlipTypes ==
  ASSUME IInv
  PROVE  /\ RxFlip \in Slots /\ RxLeft \in Nat
         /\ NfRxFlip \in Slots /\ NfRxLeft \in Nat
         /\ NfTxFlip \in Slots /\ NfTxLeft \in Nat
         /\ TxFlip \in Slots /\ TxLeft \in Nat
<1> USE NEntriesAssumption, OptionAssumption
<1>1. RxFlip \in Slots /\ RxLeft \in Nat
  BY DEF IInv, TypeOK, RxTypeOK, RxCursors, RxFlip, RxLeft, Cursor, Slots, Wrap
<1>2. NfRxFlip \in Slots /\ NfRxLeft \in Nat
  BY DEF IInv, TypeOK, NfTypeOK, NfIndex, NfRxFlip, NfRxLeft, Cursor, Slots, Wrap
<1>3. NfTxFlip \in Slots /\ NfTxLeft \in Nat
  BY DEF IInv, TypeOK, NfTypeOK, NfIndex, NfTxFlip, NfTxLeft, Cursor, Slots, Wrap
<1>4. TxFlip \in Slots /\ TxLeft \in Nat
  BY DEF IInv, TypeOK, TxTypeOK, TxBurst, TxFlip, TxLeft, Cursor, Slots, Wrap
<1> QED
  BY <1>1, <1>2, <1>3, <1>4

(***************************************************************************)
(* Every step of tx.out preserves the types, the indices of tx.out, and    *)
(* how the TX descriptors are shared out.                                  *)
(***************************************************************************)
LEMMA TxPreserves ==
  ASSUME IInv, TxNext, UNCHANGED <<rxVars, nfVars>>
  PROVE  /\ ShmTypeOK' /\ TxTypeOK'
         /\ TxBurst' /\ TxdCarries'
         /\ TxdShared'
         /\ UNCHANGED rxd_flags
<1> USE NEntriesAssumption, OptionAssumption
<1>0. /\ ShmTypeOK /\ TxTypeOK /\ TxBurst /\ TxdCarries /\ TxdShared
      /\ NfTxFlip \in Slots /\ NfTxLeft \in Nat
      /\ UNCHANGED <<NfTxFlip, NfTxLeft, nf_shadow, NfPutSoFar>>
  BY FlipTypes DEF IInv, TypeOK, NfTxFlip, NfTxLeft, NfPutSoFar, nfVars
<1>a. ASSUME UNCHANGED <<txd_flags, txd_buf>>
      PROVE  TxdCarries'
  BY <1>0, <1>a DEF TxdCarries, Window
<1>1. CASE TxStart
  <2>1. is_start' \in BOOLEAN
    BY <1>1 DEF TxStart
  <2> QED
    BY <1>0, <1>a, <1>1, <2>1 DEF TxStart, ShmTypeOK, TxTypeOK, TxBurst, TxdShared,
                                  TxFlip, TxLeft
<1>2. CASE TxClaim
  <2>1. /\ tx_count \in 1 .. NENTRIES
        /\ tx_last_avail \in Slots /\ tx_last_avail + tx_count <= NENTRIES
        /\ txd_flags[Wrap(tx_last_avail + tx_count - 1)] = AVAIL_FLAG
    BY <1>0, <1>2 DEF TxClaim, TxMayClaim, Contiguous, TxTypeOK, Cursor, Slots
  <2>2. SharedOut(txd_flags, tx_last_avail, NfTxFlip, tx_count, NfTxLeft)
    <3>1. SharedOut(txd_flags, tx_last_avail, NfTxFlip, 0, NfTxLeft)
      BY <1>0, <1>2 DEF TxClaim, TxdShared, TxFlip, TxLeft
    <3> QED
      BY <1>0, <2>1, <3>1, HostClaims DEF ShmTypeOK
  <2>3. tx_bufs' \in Seq(Objs) /\ Len(tx_bufs') = tx_count
    <3>1. ASSUME NEW j \in 1 .. tx_count
          PROVE  txd_buf[tx_last_avail + j - 1] \in Objs
      <4>1. /\ tx_last_avail + j - 1 \in Slots
            /\ tx_last_avail + j - 1 \in Window(tx_last_avail, tx_count)
        BY <2>1 DEF Window, Ahead, Slots
      <4>2. txd_flags[tx_last_avail + j - 1] = AVAIL_FLAG
        BY <1>0, <2>1, <2>2, <4>1, ClaimsAreOwned DEF ShmTypeOK
      <4> QED
        BY <1>0, <4>1, <4>2 DEF TxdCarries
    <3>2. tx_count \in Nat /\ tx_bufs' \in [1 .. tx_count -> Objs]
      BY <1>2, <2>1, <3>1 DEF TxClaim
    <3> QED
      BY <3>2, SeqDef
  <2>4. ShmTypeOK' /\ TxTypeOK' /\ TxBurst'
    BY <1>0, <1>2, <2>1, <2>3 DEF TxClaim, shmVars, ShmTypeOK, TxTypeOK, TxBurst
  <2>5. TxdShared'
    BY <1>0, <1>2, <2>2 DEF TxClaim, shmVars, TxdShared, TxFlip, TxLeft
  <2> QED
    BY <1>a, <1>2, <2>4, <2>5 DEF TxClaim, shmVars
<1>3. CASE TxHalve
  BY <1>0, <1>a, <1>3 DEF TxHalve, shmVars, ShmTypeOK, TxTypeOK, TxBurst, TxdShared,
                          TxFlip, TxLeft
<1>4. CASE TxCopy
  <2>1. /\ tx_i \in 0 .. tx_count - 1 /\ Len(tx_bufs) = tx_count /\ Len(tx_pkts) = tx_i
        /\ pktmem[tx_bufs[tx_i + 1]] \in Ids
    BY <1>0, <1>4 DEF TxCopy, ShmTypeOK, TxTypeOK, TxBurst
  <2>2. tx_pkts' \in Seq(Ids) /\ Len(tx_pkts') = tx_i + 1
    BY <1>0, <1>4, <2>1 DEF TxCopy, TxTypeOK
  <2>3. tx_bufs' \in Seq(Objs)
    <3>1. CASE tx_i + 1 < tx_count
      BY <1>0, <1>4, <3>1 DEF TxCopy, TxTypeOK
    <3>2. CASE ~(tx_i + 1 < tx_count)
      BY <1>4, <3>2 DEF TxCopy
    <3> QED
      BY <3>1, <3>2
  <2>4. ShmTypeOK' /\ TxTypeOK' /\ TxBurst'
    BY <1>0, <1>4, <2>1, <2>2, <2>3 DEF TxCopy, shmVars, ShmTypeOK, TxTypeOK, TxBurst
  <2>5. TxFlip' = TxFlip /\ TxLeft' = TxLeft
    <3>1. tx_last_avail \in Slots /\ tx_count \in Nat
      BY <1>0 DEF TxTypeOK, Cursor, Slots
    <3> QED
      BY <1>4, <3>1, WrapZero DEF TxCopy, TxFlip, TxLeft
  <2> QED
    BY <1>0, <1>a, <1>4, <2>4, <2>5 DEF TxCopy, shmVars, TxdShared
<1>5. CASE TxRelease
  <2>1. /\ tx_i \in 0 .. tx_count - 1 /\ tx_count \in 1 .. NENTRIES
        /\ tx_last_avail \in Slots /\ tx_last_avail + tx_i \in Slots
        /\ TxFlip = tx_last_avail + tx_i /\ TxLeft = tx_count - tx_i
        /\ txd_flags' = [txd_flags EXCEPT ![TxFlip] = USED_FLAG]
    <3>1. /\ tx_i \in 0 .. tx_count - 1 /\ tx_count \in 1 .. NENTRIES
          /\ tx_last_avail \in Slots /\ tx_last_avail + tx_count <= NENTRIES
      BY <1>0, <1>5 DEF TxRelease, TxTypeOK, TxBurst, Cursor, Slots
    <3>2. tx_last_avail + tx_i \in Slots /\ Wrap(tx_last_avail + tx_i) = tx_last_avail + tx_i
      BY <3>1 DEF Slots, Wrap
    <3>3. TxFlip = tx_last_avail + tx_i /\ TxLeft = tx_count - tx_i
      BY <1>5, <3>2 DEF TxRelease, TxFlip, TxLeft
    <3> QED
      BY <1>5, <3>1, <3>2, <3>3 DEF TxRelease
  <2>2. ShmTypeOK' /\ UNCHANGED rxd_flags
    <3>1. txd_flags' \in [Slots -> Flags]
      BY <1>0, <2>1 DEF ShmTypeOK, Flags
    <3> QED
      BY <1>0, <1>5, <3>1 DEF TxRelease, ShmTypeOK
  <2>3. /\ TxTypeOK' /\ TxBurst'
        /\ TxFlip' = Wrap(TxFlip + 1) /\ TxLeft' = TxLeft - 1
    <3>1. CASE tx_i + 1 < tx_count
      <4>1. TxTypeOK' /\ TxBurst'
        BY <1>0, <1>5, <2>1, <3>1 DEF TxRelease, TxTypeOK, TxBurst
      <4>2. TxFlip' = Wrap(tx_last_avail + (tx_i + 1)) /\ TxLeft' = tx_count - (tx_i + 1)
        BY <1>5, <3>1 DEF TxRelease, TxFlip, TxLeft
      <4>3. tx_last_avail + (tx_i + 1) = (tx_last_avail + tx_i) + 1
        BY <2>1 DEF Slots
      <4> QED
        BY <2>1, <4>1, <4>2, <4>3
    <3>2. CASE ~(tx_i + 1 < tx_count)
      <4>1. tx_i + 1 = tx_count
        BY <2>1, <3>2
      <4>2. Wrap(tx_last_avail + tx_count) \in Cursor
        BY <2>1 DEF Wrap, Slots, Cursor
      <4>3. TxTypeOK' /\ TxBurst'
        BY <1>0, <1>5, <2>1, <3>2, <4>2 DEF TxRelease, TxTypeOK, TxBurst
      <4>4. TxFlip' = Wrap(tx_last_avail + tx_count) /\ TxLeft' = 0
        BY <1>5, <3>2 DEF TxRelease, TxFlip, TxLeft
      <4>5. tx_last_avail + tx_count = (tx_last_avail + tx_i) + 1
        BY <2>1, <4>1 DEF Slots
      <4> QED
        BY <2>1, <4>1, <4>3, <4>4, <4>5
    <3> QED
      BY <3>1, <3>2
  <2>4. TxdShared'
    <3>1. /\ TxFlip \in Slots /\ TxLeft \in Nat /\ TxLeft > 0
          /\ txd_flags \in [Slots -> Flags]
          /\ SharedOut(txd_flags, TxFlip, NfTxFlip, TxLeft, NfTxLeft)
      BY <1>0, <2>1 DEF TxdShared, ShmTypeOK
    <3>2. SharedOut(txd_flags', TxFlip', NfTxFlip, TxLeft', NfTxLeft)
      BY <1>0, <2>1, <2>3, <3>1, HostHandsOver
    <3> QED
      BY <1>0, <3>2 DEF TxdShared
  <2>5. TxdCarries'
    <3>1. txd_buf' = txd_buf
      BY <1>5 DEF TxRelease
    <3>2. \A s \in Slots : txd_flags'[s] = AVAIL_FLAG => txd_flags[s] = AVAIL_FLAG
      BY <1>0, <2>1 DEF ShmTypeOK, AVAIL_FLAG, USED_FLAG
    <3> QED
      BY <1>0, <3>1, <3>2 DEF TxdCarries, Window
  <2> QED
    BY <2>2, <2>3, <2>4, <2>5
<1>6. CASE TxCheck
  <2>1. /\ tx_i \in 0 .. tx_count - 1 /\ Len(tx_pkts) = tx_count
        /\ tx_prev' \in Ids
    BY <1>0, <1>6 DEF TxCheck, TxTypeOK, TxBurst
  <2>2. is_end' \in BOOLEAN
    <3>1. is_end' = is_end \/ is_end' = TRUE
      BY <1>6 DEF TxCheck
    <3> QED
      BY <1>0, <3>1 DEF ShmTypeOK
  <2>3. tx_pkts' \in Seq(Ids) /\ (tx_pc' # "check" => Len(tx_pkts') = 0)
    <3>1. CASE tx_i + 1 < tx_count
      BY <1>0, <1>6, <3>1 DEF TxCheck, TxTypeOK
    <3>2. CASE ~(tx_i + 1 < tx_count)
      BY <1>6, <3>2 DEF TxCheck
    <3> QED
      BY <3>1, <3>2
  <2>4. ShmTypeOK' /\ TxTypeOK' /\ TxBurst'
    BY <1>0, <1>6, <2>1, <2>2, <2>3 DEF TxCheck, ShmTypeOK, TxTypeOK, TxBurst
  <2>5. TxdShared'
    BY <1>0, <1>6 DEF TxCheck, TxdShared, TxFlip, TxLeft
  <2> QED
    BY <1>a, <1>6, <2>4, <2>5 DEF TxCheck
<1> QED
  BY <1>1, <1>2, <1>3, <1>4, <1>5, <1>6 DEF TxNext
-----------------------------------------------------------------------------
(***************************************************************************)
(* What every step of nf.out may rely on.                                  *)
(***************************************************************************)
LEMMA NfFacts ==
  ASSUME IInv, UNCHANGED <<rxVars, txVars>>
  PROVE  /\ ShmTypeOK /\ NfTypeOK /\ NfIndex /\ NfRxCursors /\ NfTxCursors
         /\ TxdCarries /\ RxdShared /\ TxdShared
         /\ RxFlip \in Slots /\ RxLeft \in Nat /\ TxFlip \in Slots /\ TxLeft \in Nat
         /\ UNCHANGED <<RxFlip, RxLeft, TxFlip, TxLeft>>
         /\ nf_num \in 1 .. NENTRIES /\ nf_shadow \in Slots
         /\ nf_rx_avail \in Slots /\ nf_rx_used \in Slots
         /\ nf_tx_avail \in Slots /\ nf_tx_used \in Slots
<1>1. nf_num \in 1 .. NENTRIES
  BY OptionAssumption, NEntriesAssumption DEF IInv, TypeOK, NfTypeOK
<1>2. UNCHANGED <<RxFlip, RxLeft, TxFlip, TxLeft>>
  BY DEF RxFlip, RxLeft, TxFlip, TxLeft, rxVars, txVars
<1> QED
  BY <1>1, <1>2, FlipTypes DEF IInv, TypeOK, NfTypeOK, Cursor, Slots

(***************************************************************************)
(* The receiving half of nf.out's loop (vio_recv_pkts, vio.h:45): it       *)
(* leaves the TX queue and its cursors alone.                              *)
(***************************************************************************)
LEMMA NfReceivePreserves ==
  ASSUME IInv, NfTake \/ NfHalve \/ NfRefill \/ NfExhausted \/ NfOffer \/ NfCheck,
         UNCHANGED <<rxVars, txVars>>
  PROVE  /\ ShmTypeOK' /\ NfTypeOK'
         /\ NfIndex' /\ NfRxCursors' /\ NfTxCursors'
         /\ TxdCarries'
         /\ RxdShared' /\ TxdShared'
<1> USE NEntriesAssumption, OptionAssumption
<1>0. /\ ShmTypeOK /\ NfTypeOK /\ NfIndex /\ NfRxCursors /\ NfTxCursors
      /\ TxdCarries /\ RxdShared /\ TxdShared
      /\ RxFlip \in Slots /\ RxLeft \in Nat /\ TxFlip \in Slots /\ TxLeft \in Nat
      /\ UNCHANGED <<RxFlip, RxLeft, TxFlip, TxLeft>>
      /\ nf_num \in 1 .. NENTRIES /\ nf_shadow \in Slots
      /\ nf_rx_avail \in Slots /\ nf_rx_used \in Slots
  BY NfFacts
<1>a. /\ UNCHANGED <<txd_flags, txd_buf, nf_tx_avail, nf_tx_used, nf_free_cnt>>
      /\ nf_pc \in {"poll", "refill", "offer", "check"}
      /\ nf_pc' \in {"poll", "refill", "exhausted", "offer", "check", "xmit"}
  BY DEF NfTake, NfHalve, NfRefill, NfExhausted, NfOffer, NfCheck, shmVars
<1>b. NfTxCursors' /\ TxdShared'
  BY <1>0, <1>a DEF NfTxCursors, TxdShared, NfTxFlip, NfTxLeft
<1>c. TxdCarries'
  <2>1. NfPutSoFar = 0 /\ NfPutSoFar' = 0
    BY <1>a DEF NfPutSoFar
  <2>2. nf_shadow' \in Slots
    BY <1>0 DEF NfTake, NfHalve, NfRefill, NfExhausted, NfOffer, NfCheck
  <2>3. Window(nf_shadow', 0) = {}
    BY <2>2, EmptyWindow
  <2> QED
    BY <1>0, <1>a, <2>1, <2>3 DEF TxdCarries
<1>1. CASE NfTake
  <2>1. /\ nf_rx_used = nf_rx_avail
        /\ rxd_flags[Wrap(nf_rx_avail + nf_num - 1)] = USED_FLAG
        /\ nf_shadow' = nf_rx_avail /\ nf_rx_avail' = nf_rx_avail
        /\ nf_i' = 0 /\ nf_num' = nf_num /\ nf_pc' = "refill"
        /\ nf_rx_used' = Wrap(nf_rx_avail + nf_num)
    BY <1>0, <1>1 DEF NfTake, NfMayTake, NfRxCursors
  <2>2. nf_bufs' \in Seq(Objs) /\ Len(nf_bufs') = nf_num
    <3>1. \A j \in 1 .. nf_num : Wrap(nf_rx_used + j - 1) \in Slots
      BY <1>0 DEF Wrap, Slots
    <3>2. nf_num \in Nat /\ nf_bufs' \in [1 .. nf_num -> Objs]
      BY <1>0, <1>1, <3>1 DEF NfTake, ShmTypeOK
    <3> QED
      BY <3>2, SeqDef
  <2>3. Wrap(nf_rx_avail + nf_num) \in Cursor /\ nf_rx_avail \in Cursor
    BY <1>0 DEF Wrap, Slots, Cursor
  <2>4. ShmTypeOK' /\ NfTypeOK' /\ NfIndex'
    BY <1>0, <1>1, <2>1, <2>2, <2>3 DEF NfTake, shmVars, ShmTypeOK, NfTypeOK, NfIndex
  <2>5. NfRxCursors'
    BY <1>0, <2>1, WrapZero DEF NfRxCursors
  <2>6. RxdShared'
    <3>1. SharedOut(rxd_flags, RxFlip, nf_rx_avail, RxLeft, 0)
      BY <1>0, <1>1 DEF NfTake, RxdShared, NfRxFlip, NfRxLeft
    <3>2. SharedOut(rxd_flags, RxFlip, nf_rx_avail, RxLeft, nf_num)
      BY <1>0, <2>1, <3>1, GuestClaims DEF ShmTypeOK
    <3> QED
      BY <1>0, <1>1, <2>1, <3>2 DEF NfTake, shmVars, RxdShared, NfRxFlip, NfRxLeft
  <2> QED
    BY <1>b, <1>c, <2>4, <2>5, <2>6
<1>2. CASE NfHalve
  <2>1. nf_num' \in 1 .. BATCH_SIZE
    BY <1>0, <1>2, RecvMaxBounds DEF NfHalve, NfTypeOK
  <2>2. ShmTypeOK' /\ NfTypeOK' /\ NfIndex' /\ NfRxCursors'
    BY <1>0, <1>2, <2>1 DEF NfHalve, shmVars, ShmTypeOK, NfTypeOK, NfIndex, NfRxCursors
  <2>3. RxdShared'
    BY <1>0, <1>2 DEF NfHalve, shmVars, RxdShared, NfRxFlip, NfRxLeft
  <2> QED
    BY <1>b, <1>c, <2>2, <2>3
<1>3. CASE NfRefill
  <2>1. /\ nf_i \in 0 .. nf_num - 1
        /\ nf_rx_avail = Wrap(nf_shadow + nf_i)
        /\ nf_rx_used = Wrap(nf_shadow + nf_num)
        /\ Len(nf_bufs) = nf_num
    BY <1>0, <1>3 DEF NfRefill, NfTypeOK, NfIndex, NfRxCursors
  <2>2. AllocIdx(nf_pool) \in Objs
        /\ nf_pool' \in [ring : Seq(Objs), rear : Nat, cache : Seq(Objs)]
    BY <1>0, <1>3, AllocType DEF NfRefill, NfTypeOK
  <2>3. ShmTypeOK'
    <3>1. rxd_buf' \in [Slots -> Objs]
      BY <1>0, <1>3, <2>2 DEF NfRefill, ShmTypeOK
    <3> QED
      BY <1>0, <1>3, <3>1 DEF NfRefill, ShmTypeOK
  <2>4. nf_rx_avail' = Wrap(nf_shadow + (nf_i + 1)) /\ nf_rx_avail' \in Cursor
    BY <1>0, <1>3, <2>1 DEF NfRefill, Wrap, Slots, Cursor
  <2>5. NfTypeOK' /\ NfIndex'
    BY <1>0, <1>3, <2>1, <2>2, <2>4 DEF NfRefill, NfTypeOK, NfIndex
  <2>6. NfRxCursors' /\ NfRxFlip' = NfRxFlip /\ NfRxLeft' = NfRxLeft
    <3>1. CASE nf_i + 1 < nf_num
      BY <1>0, <1>3, <2>1, <2>4, <3>1 DEF NfRefill, NfRxCursors, NfRxFlip, NfRxLeft
    <3>2. CASE ~(nf_i + 1 < nf_num)
      <4>1. nf_i + 1 = nf_num
        BY <2>1, <3>2
      <4>2. nf_pc' = "offer" /\ nf_i' = 0 /\ UNCHANGED <<nf_num, nf_shadow, nf_rx_used>>
        BY <1>3, <3>2 DEF NfRefill
      <4> QED
        BY <1>0, <1>3, <2>1, <2>4, <4>1, <4>2, WrapZero
        DEF NfRefill, NfRxCursors, NfRxFlip, NfRxLeft
    <3> QED
      BY <3>1, <3>2
  <2>7. RxdShared'
    BY <1>0, <1>3, <2>6 DEF NfRefill, RxdShared
  <2> QED
    BY <1>b, <1>c, <2>3, <2>5, <2>6, <2>7
<1>4. CASE NfExhausted
  <2>1. ShmTypeOK' /\ NfTypeOK' /\ NfIndex' /\ NfRxCursors'
    BY <1>0, <1>4 DEF NfExhausted, shmVars, ShmTypeOK, NfTypeOK, NfIndex, NfRxCursors
  <2>2. RxdShared'
    <3>1. SharedOut(rxd_flags, RxFlip, nf_shadow, RxLeft, nf_num)
      BY <1>0, <1>4 DEF NfExhausted, RxdShared, NfRxFlip, NfRxLeft
    <3>2. SharedOut(rxd_flags, RxFlip, nf_shadow, RxLeft, 0)
      BY <1>0, <3>1, GuestGivesUp
    <3> QED
      BY <1>0, <1>4, <3>2 DEF NfExhausted, shmVars, RxdShared, NfRxFlip, NfRxLeft
  <2> QED
    BY <1>b, <1>c, <2>1, <2>2
<1>5. CASE NfOffer
  <2>1. /\ nf_i \in 0 .. nf_num - 1
        /\ nf_rx_avail = Wrap(nf_shadow + nf_num) /\ nf_rx_used = nf_rx_avail
        /\ Len(nf_bufs) = nf_num
        /\ NfRxFlip = Wrap(nf_shadow + nf_i) /\ NfRxLeft = nf_num - nf_i
        /\ NfRxFlip \in Slots
    <3>1. nf_i \in 0 .. nf_num - 1
      BY <1>0, <1>5 DEF NfOffer, NfTypeOK, NfIndex
    <3> QED
      BY <1>0, <1>5, <3>1, WrapSlot DEF NfOffer, NfOfferSlot, NfIndex, NfRxCursors, NfRxFlip, NfRxLeft
  <2>2. rxd_flags' = [rxd_flags EXCEPT ![NfRxFlip] = AVAIL_FLAG]
    BY <1>5, <2>1 DEF NfOffer, NfOfferSlot
  <2>3. ShmTypeOK'
    <3>1. rxd_flags' \in [Slots -> Flags]
      BY <1>0, <2>1, <2>2 DEF ShmTypeOK, Flags
    <3> QED
      BY <1>0, <1>5, <3>1 DEF NfOffer, NfOfferSlot, ShmTypeOK
  <2>4. NfTypeOK' /\ NfIndex' /\ NfRxCursors'
    <3>1. NfTypeOK'
      BY <1>0, <1>5, <2>1 DEF NfOffer, NfTypeOK
    <3>2. NfIndex'
      BY <1>5, <2>1 DEF NfOffer, NfIndex
    <3>3. NfRxCursors'
      BY <1>5, <2>1 DEF NfOffer, NfRxCursors
    <3> QED
      BY <3>1, <3>2, <3>3
  <2>5. NfRxFlip' = Wrap(NfRxFlip + 1) /\ NfRxLeft' = NfRxLeft - 1
    <3>1. Wrap(NfRxFlip + 1) = Wrap(nf_shadow + (nf_i + 1))
      BY <1>0, <2>1 DEF Wrap, Slots
    <3>2. CASE nf_i + 1 < nf_num
      BY <1>5, <2>1, <3>1, <3>2 DEF NfOffer, NfOfferSlot, NfRxFlip, NfRxLeft
    <3>3. CASE ~(nf_i + 1 < nf_num)
      <4>1. nf_i + 1 = nf_num
        BY <2>1, <3>3
      <4> QED
        BY <1>5, <2>1, <3>1, <4>1 DEF NfOffer, NfOfferSlot, NfRxFlip, NfRxLeft
    <3> QED
      BY <3>2, <3>3
  <2>6. RxdShared'
    <3>1. /\ NfRxLeft \in Nat /\ NfRxLeft > 0 /\ rxd_flags \in [Slots -> Flags]
          /\ SharedOut(rxd_flags, RxFlip, NfRxFlip, RxLeft, NfRxLeft)
      BY <1>0, <2>1 DEF RxdShared, ShmTypeOK
    <3>2. SharedOut(rxd_flags', RxFlip, NfRxFlip', RxLeft, NfRxLeft')
      BY <1>0, <2>1, <2>2, <2>5, <3>1, GuestHandsOver
    <3> QED
      BY <1>0, <3>2 DEF RxdShared
  <2> QED
    BY <1>b, <1>c, <2>3, <2>4, <2>6
<1>6. CASE NfCheck
  <2>1. nf_i \in 0 .. nf_num - 1 /\ Len(nf_bufs) = nf_num /\ nf_prev' \in Ids
    BY <1>0, <1>6 DEF NfCheck, ShmTypeOK, NfTypeOK, NfIndex
  <2>2. ShmTypeOK' /\ NfRxCursors'
    BY <1>0, <1>6 DEF NfCheck, shmVars, ShmTypeOK, NfRxCursors
  <2>4. NfTypeOK'
    BY <1>0, <1>6, <2>1 DEF NfCheck, NfTypeOK
  <2>5. NfIndex'
    BY <1>6, <2>1 DEF NfCheck, NfIndex
  <2>3. RxdShared'
    BY <1>0, <1>6 DEF NfCheck, shmVars, RxdShared, NfRxFlip, NfRxLeft
  <2> QED
    BY <1>b, <1>c, <2>2, <2>3, <2>4, <2>5
<1> QED
  BY <1>1, <1>2, <1>3, <1>4, <1>5, <1>6

(***************************************************************************)
(* The transmitting half of nf.out's loop (vio_xmit_pkts, vio.h:113) and   *)
(* its end: it leaves the RX queue and its cursors alone.                  *)
(***************************************************************************)
LEMMA NfTransmitPreserves ==
  ASSUME IInv, NfXmit \/ NfCleanup \/ NfPut \/ NfPublish \/ NfExit,
         UNCHANGED <<rxVars, txVars>>
  PROVE  /\ ShmTypeOK' /\ NfTypeOK'
         /\ NfIndex' /\ NfRxCursors' /\ NfTxCursors'
         /\ TxdCarries'
         /\ RxdShared' /\ TxdShared'
<1> USE NEntriesAssumption, OptionAssumption
<1>0. /\ ShmTypeOK /\ NfTypeOK /\ NfIndex /\ NfRxCursors /\ NfTxCursors
      /\ TxdCarries /\ RxdShared /\ TxdShared
      /\ RxFlip \in Slots /\ RxLeft \in Nat /\ TxFlip \in Slots /\ TxLeft \in Nat
      /\ UNCHANGED <<RxFlip, RxLeft, TxFlip, TxLeft>>
      /\ nf_num \in 1 .. NENTRIES /\ nf_shadow \in Slots
      /\ nf_tx_avail \in Slots /\ nf_tx_used \in Slots
  BY NfFacts
<1>a. /\ UNCHANGED <<rxd_flags, nf_rx_avail, nf_rx_used>>
      /\ nf_pc \in {"xmit", "cleanup", "put", "publish", "wait"}
      /\ nf_pc' \in {"xmit", "cleanup", "put", "publish", "wait", "poll", "failed",
                     "overrun", "done"}
  BY DEF NfXmit, NfCleanup, NfPut, NfPublish, NfExit, shmVars
<1>b. NfRxCursors' /\ RxdShared'
  BY <1>0, <1>a DEF NfRxCursors, RxdShared, NfRxFlip, NfRxLeft
<1>1. CASE NfXmit
  <2>1. /\ nf_i = 0 /\ nf_free_cnt = 0 /\ nf_tx_used = nf_tx_avail /\ Len(nf_bufs) = nf_num
        /\ txd_flags[Wrap(nf_tx_avail + nf_num - 1)] = USED_FLAG
    BY <1>0, <1>1 DEF NfXmit, NfMayXmit, NfIndex, NfTxCursors
  <2>2. /\ nf_pc' = "cleanup" /\ nf_shadow' = nf_tx_avail
        /\ UNCHANGED <<nf_num, nf_i, nf_bufs, nf_tx_avail, nf_tx_used, nf_free_cnt>>
    BY <1>0, <1>1, <2>1 DEF NfXmit
  <2>3. ShmTypeOK' /\ NfTypeOK' /\ NfIndex'
    <3>1. nf_shadow' \in Cursor
      BY <1>0, <2>2 DEF NfTypeOK
    <3>2. NfTypeOK'
      BY <1>0, <1>1, <2>2, <3>1 DEF NfXmit, NfTypeOK
    <3> QED
      BY <1>0, <1>1, <2>1, <2>2, <3>2 DEF NfXmit, shmVars, ShmTypeOK, NfIndex
  <2>4. NfTxCursors'
    BY <1>0, <2>1, <2>2, WrapZero DEF NfTxCursors
  <2>5. TxdShared'
    <3>1. SharedOut(txd_flags, TxFlip, nf_tx_avail, TxLeft, 0)
      BY <1>0, <1>1 DEF NfXmit, TxdShared, NfTxFlip, NfTxLeft
    <3>2. SharedOut(txd_flags, TxFlip, nf_tx_avail, TxLeft, nf_num)
      BY <1>0, <2>1, <3>1, GuestClaims DEF ShmTypeOK
    <3> QED
      BY <1>0, <1>1, <2>2, <3>2 DEF NfXmit, shmVars, TxdShared, NfTxFlip, NfTxLeft
  <2>6. TxdCarries'
    <3>1. Window(nf_shadow', NfPutSoFar') = {}
      BY <1>0, <2>2, EmptyWindow DEF NfPutSoFar
    <3> QED
      BY <1>0, <1>1, <3>1 DEF NfXmit, shmVars, TxdCarries
  <2> QED
    BY <1>b, <2>3, <2>4, <2>5, <2>6
<1>2. CASE NfCleanup
  <2>1. /\ nf_i \in 0 .. nf_num - 1 /\ nf_free_cnt = 0 /\ nf_shadow = nf_tx_avail
        /\ nf_tx_used = Wrap(nf_shadow + nf_i) /\ Len(nf_bufs) = nf_num
    BY <1>0, <1>2 DEF NfCleanup, NfTypeOK, NfIndex, NfTxCursors
  <2>2. nf_pool' \in [ring : Seq(Objs), rear : Nat, cache : Seq(Objs)]
    <3>1. txd_buf[nf_tx_used] \in Objs \cup {NoBuf}
      BY <1>0 DEF ShmTypeOK
    <3>2. CASE txd_buf[nf_tx_used] = NoBuf
      BY <1>0, <1>2, <3>2 DEF NfCleanup, NfTypeOK
    <3>3. CASE txd_buf[nf_tx_used] # NoBuf
      BY <1>0, <1>2, <3>1, <3>3, FreeType DEF NfCleanup, NfTypeOK
    <3> QED
      BY <3>2, <3>3
  <2>3. /\ nf_tx_used' = Wrap(nf_shadow + (nf_i + 1)) /\ nf_tx_used' \in Cursor
    <3>1. nf_tx_used' = Wrap(nf_tx_used + 1)
      BY <1>2 DEF NfCleanup
    <3> QED
      BY <1>0, <2>1, <3>1 DEF Wrap, Slots, Cursor
  <2>4. /\ UNCHANGED <<nf_counter, nf_prev, nf_num, nf_bufs, nf_shadow, nf_rx_avail,
                       nf_rx_used, nf_tx_avail, shmVars>>
        /\ \/ /\ nf_i + 1 < nf_num
              /\ nf_pc' \in {"cleanup", "failed", "overrun"}
              /\ nf_i' = nf_i + 1 /\ nf_free_cnt' = 0
           \/ /\ nf_i + 1 = nf_num
              /\ nf_pc' \in {"put", "failed", "overrun"}
              /\ nf_i' = 0 /\ nf_free_cnt' = nf_num
    BY <1>0, <1>2, <2>1 DEF NfCleanup
  <2>5. ShmTypeOK' /\ NfTypeOK' /\ NfIndex'
    <3>1. nf_i' \in 0 .. BATCH_SIZE /\ nf_free_cnt' \in 0 .. BATCH_SIZE
      BY <1>0, <2>1, <2>4 DEF NfTypeOK
    <3>2. NfTypeOK'
      BY <1>0, <2>2, <2>3, <2>4, <3>1 DEF NfTypeOK
    <3> QED
      BY <1>0, <2>1, <2>4, <3>2 DEF shmVars, ShmTypeOK, NfIndex
  <2>6. NfTxCursors'
    <3>1. nf_tx_avail = Wrap(nf_shadow + 0)
      BY <1>0, <2>1, WrapZero
    <3> QED
      BY <1>0, <2>1, <2>3, <2>4, <3>1 DEF NfTxCursors
  <2>7. TxdShared'
    <3>1. SharedOut(txd_flags, TxFlip, nf_shadow, TxLeft, nf_num)
      BY <1>0, <1>2, <2>1 DEF NfCleanup, TxdShared, NfTxFlip, NfTxLeft
    <3>2. SharedOut(txd_flags, TxFlip, nf_shadow, TxLeft, 0)
      BY <1>0, <3>1, GuestGivesUp
    <3> QED
      BY <1>0, <2>1, <2>4, <3>1, <3>2 DEF shmVars, TxdShared, NfTxFlip, NfTxLeft
  <2>8. TxdCarries'
    <3>1. NfPutSoFar' = 0
      BY <2>4 DEF NfPutSoFar
    <3>2. Window(nf_shadow', NfPutSoFar') = {}
      BY <1>0, <2>4, <3>1, EmptyWindow
    <3> QED
      BY <1>0, <2>4, <3>2 DEF shmVars, TxdCarries
  <2> QED
    BY <1>b, <2>5, <2>6, <2>7, <2>8
<1>3. CASE NfPut
  <2>1. /\ nf_i \in 0 .. nf_num - 1 /\ nf_free_cnt = nf_num - nf_i
        /\ nf_tx_avail = Wrap(nf_shadow + nf_i) /\ nf_tx_used = Wrap(nf_shadow + nf_num)
        /\ Len(nf_bufs) = nf_num /\ nf_bufs[nf_i + 1] \in Objs
    BY <1>0, <1>3 DEF NfPut, NfTypeOK, NfIndex, NfTxCursors
  <2>2. /\ txd_buf' = [txd_buf EXCEPT ![nf_tx_avail] = nf_bufs[nf_i + 1]]
        /\ UNCHANGED <<txd_flags, nf_num, nf_bufs, nf_shadow, nf_tx_used>>
        /\ nf_free_cnt' = nf_num - (nf_i + 1)
    BY <1>3, <2>1 DEF NfPut
  <2>3. nf_tx_avail' = Wrap(nf_shadow + (nf_i + 1)) /\ nf_tx_avail' \in Cursor
    <3>1. nf_tx_avail' = Wrap(nf_tx_avail + 1)
      BY <1>3 DEF NfPut
    <3> QED
      BY <1>0, <2>1, <3>1 DEF Wrap, Slots, Cursor
  <2>4. \/ nf_i + 1 < nf_num /\ nf_pc' = "put" /\ nf_i' = nf_i + 1
        \/ nf_i + 1 = nf_num /\ nf_pc' = "publish" /\ nf_i' = 0
    BY <1>3, <2>1 DEF NfPut
  <2>5. ShmTypeOK'
    <3>1. txd_buf' \in [Slots -> Objs \cup {NoBuf}]
      BY <1>0, <2>1, <2>2 DEF ShmTypeOK
    <3> QED
      BY <1>0, <1>3, <2>2, <3>1 DEF NfPut, ShmTypeOK
  <2>6. NfTypeOK' /\ NfIndex'
    <3>1. nf_i' \in 0 .. BATCH_SIZE /\ nf_free_cnt' \in 0 .. BATCH_SIZE
      BY <1>0, <2>1, <2>2, <2>4 DEF NfTypeOK
    <3>2. NfTypeOK'
      BY <1>0, <1>3, <2>3, <2>4, <3>1 DEF NfPut, NfTypeOK
    <3> QED
      BY <2>1, <2>2, <2>4, <3>2 DEF NfIndex
  <2>7. NfTxCursors'
    BY <2>1, <2>2, <2>3, <2>4 DEF NfTxCursors
  <2>8. TxdShared'
    <3>1. NfTxFlip = nf_shadow /\ NfTxLeft = nf_num
      BY <1>3 DEF NfPut, NfTxFlip, NfTxLeft
    <3>2. NfTxFlip' = nf_shadow /\ NfTxLeft' = nf_num
      BY <1>0, <2>2, <2>4, WrapZero DEF NfTxFlip, NfTxLeft
    <3> QED
      BY <1>0, <2>2, <3>1, <3>2 DEF TxdShared
  <2>9. TxdCarries'
    <3>1. NfPutSoFar = nf_i /\ NfPutSoFar' = nf_i + 1
      BY <1>3, <2>2, <2>4 DEF NfPut, NfPutSoFar
    <3>2. ASSUME NEW s \in Slots, s # nf_tx_avail, s \in Window(nf_shadow, nf_i + 1)
          PROVE  s \in Window(nf_shadow, nf_i)
      <4>1. Ahead(s, nf_shadow) \in 0 .. NENTRIES - 1 /\ Wrap(nf_shadow + Ahead(s, nf_shadow)) = s
        BY <1>0, AheadBounds
      <4>2. Ahead(s, nf_shadow) < nf_i + 1 /\ Ahead(s, nf_shadow) # nf_i
        BY <2>1, <3>2, <4>1 DEF Window
      <4> QED
        BY <2>1, <4>1, <4>2 DEF Window
    <3>3. ASSUME NEW s \in Slots, txd_flags'[s] = AVAIL_FLAG \/ s \in Window(nf_shadow', NfPutSoFar')
          PROVE  txd_buf'[s] \in Objs
      <4>1. CASE s = nf_tx_avail
        BY <1>0, <2>1, <2>2, <4>1 DEF ShmTypeOK
      <4>2. CASE s # nf_tx_avail
        <5>1. txd_flags[s] = AVAIL_FLAG \/ s \in Window(nf_shadow, NfPutSoFar)
          BY <2>2, <3>1, <3>2, <3>3, <4>2
        <5>2. txd_buf'[s] = txd_buf[s]
          BY <1>0, <2>2, <4>2 DEF ShmTypeOK
        <5> QED
          BY <1>0, <5>1, <5>2 DEF TxdCarries
      <4> QED
        BY <4>1, <4>2
    <3> QED
      BY <3>3 DEF TxdCarries
  <2> QED
    BY <1>b, <2>5, <2>6, <2>7, <2>8, <2>9
<1>4. CASE NfPublish
  <2>1. /\ nf_i \in 0 .. nf_num - 1 /\ nf_free_cnt = 0
        /\ nf_tx_avail = Wrap(nf_shadow + nf_num) /\ nf_tx_used = nf_tx_avail
        /\ Len(nf_bufs) = nf_num
    BY <1>0, <1>4 DEF NfPublish, NfTypeOK, NfIndex, NfTxCursors
  <2>2. /\ NfTxFlip = Wrap(nf_shadow + nf_i) /\ NfTxLeft = nf_num - nf_i
        /\ NfTxFlip \in Slots
        /\ txd_flags' = [txd_flags EXCEPT ![NfTxFlip] = AVAIL_FLAG]
    <3>1. NfTxFlip = Wrap(nf_shadow + nf_i) /\ NfTxLeft = nf_num - nf_i
      BY <1>4 DEF NfPublish, NfTxFlip, NfTxLeft
    <3> QED
      BY <1>0, <1>4, <2>1, <3>1, WrapSlot DEF NfPublish
  <2>3. /\ UNCHANGED <<nf_shadow, nf_tx_avail, nf_tx_used, nf_free_cnt, txd_buf>>
        /\ \/ /\ nf_i + 1 < nf_num /\ nf_pc' = "publish" /\ nf_i' = nf_i + 1
              /\ UNCHANGED <<nf_num, nf_bufs>>
           \/ /\ nf_i + 1 = nf_num /\ nf_pc' \in {"poll", "wait"} /\ nf_i' = 0
              /\ nf_num' = RecvMax /\ nf_bufs' = <<>>
    BY <1>4, <2>1 DEF NfPublish
  <2>4. ShmTypeOK'
    <3>1. txd_flags' \in [Slots -> Flags]
      BY <1>0, <2>2 DEF ShmTypeOK, Flags
    <3> QED
      BY <1>0, <1>4, <3>1 DEF NfPublish, ShmTypeOK
  <2>5. NfTypeOK' /\ NfIndex' /\ NfTxCursors'
    <3>1. nf_bufs' \in Seq(Objs)
      <4>1. CASE nf_bufs' = nf_bufs
        BY <1>0, <4>1 DEF NfTypeOK
      <4>2. CASE nf_bufs' = <<>>
        BY <4>2
      <4> QED
        BY <2>3, <4>1, <4>2
    <3>2. nf_num' \in 1 .. BATCH_SIZE /\ nf_i' \in 0 .. BATCH_SIZE
      BY <1>0, <2>1, <2>3, RecvMaxBounds DEF NfTypeOK
    <3>3. NfTypeOK'
      BY <1>0, <1>4, <2>3, <3>1, <3>2 DEF NfPublish, NfTypeOK
    <3> QED
      BY <2>1, <2>3, <3>3 DEF NfIndex, NfTxCursors
  <2>6. NfTxFlip' = Wrap(NfTxFlip + 1) /\ NfTxLeft' = NfTxLeft - 1
    <3>1. Wrap(NfTxFlip + 1) = Wrap(nf_shadow + (nf_i + 1))
      BY <1>0, <2>1, <2>2 DEF Wrap, Slots
    <3> QED
      BY <2>1, <2>2, <2>3, <3>1 DEF NfTxFlip, NfTxLeft
  <2>7. TxdShared'
    <3>1. /\ NfTxLeft \in Nat /\ NfTxLeft > 0 /\ txd_flags \in [Slots -> Flags]
          /\ SharedOut(txd_flags, TxFlip, NfTxFlip, TxLeft, NfTxLeft)
      BY <1>0, <2>1, <2>2 DEF TxdShared, ShmTypeOK
    <3>2. SharedOut(txd_flags', TxFlip, NfTxFlip', TxLeft, NfTxLeft')
      BY <1>0, <2>2, <2>6, <3>1, GuestHandsOver
    <3> QED
      BY <1>0, <3>2 DEF TxdShared
  <2>8. TxdCarries'
    <3>1. NfPutSoFar = nf_num
      BY <1>4 DEF NfPublish, NfPutSoFar
    <3>2. NfTxFlip \in Window(nf_shadow, nf_num)
      BY <1>0, <2>1, <2>2, AheadWrap DEF Window
    <3>3. Window(nf_shadow', NfPutSoFar') \subseteq Window(nf_shadow, nf_num)
      <4>1. CASE nf_pc' = "publish"
        BY <2>3, <4>1 DEF NfPutSoFar
      <4>2. CASE nf_pc' # "publish"
        BY <1>0, <2>3, <4>2, EmptyWindow DEF NfPutSoFar
      <4> QED
        BY <4>1, <4>2
    <3>4. \A s \in Slots : txd_flags'[s] = AVAIL_FLAG => txd_flags[s] = AVAIL_FLAG \/ s = NfTxFlip
      BY <1>0, <2>2 DEF ShmTypeOK
    <3> QED
      BY <1>0, <2>3, <3>1, <3>2, <3>3, <3>4 DEF TxdCarries
  <2> QED
    BY <1>b, <2>4, <2>5, <2>7, <2>8
<1>5. CASE NfExit
  <2>1. ShmTypeOK' /\ NfTypeOK'
    BY <1>0, <1>5 DEF NfExit, shmVars, ShmTypeOK, NfTypeOK
  <2>2. NfIndex' /\ NfTxCursors'
    BY <1>0, <1>5 DEF NfExit, NfIndex, NfTxCursors
  <2>3. TxdCarries' /\ TxdShared'
    BY <1>0, <1>5 DEF NfExit, shmVars, TxdCarries, Window, NfPutSoFar, TxdShared,
                      NfTxFlip, NfTxLeft
  <2> QED
    BY <1>b, <2>1, <2>2, <2>3
<1> QED
  BY <1>1, <1>2, <1>3, <1>4, <1>5
-----------------------------------------------------------------------------
(***************************************************************************)
(* IInv is inductive.                                                      *)
(***************************************************************************)
LEMMA StepInv == IInv /\ [Next]_vars => IInv'
<1> SUFFICES ASSUME IInv, [Next]_vars
             PROVE  IInv'
  OBVIOUS
<1>1. CASE RxStep
  <2>1. RxNext /\ UNCHANGED <<nfVars, txVars>>
    BY <1>1 DEF RxStep
  <2>2. /\ ShmTypeOK' /\ RxTypeOK' /\ RxBurst' /\ RxCursors' /\ RxdShared'
        /\ UNCHANGED <<txd_flags, txd_buf>>
    BY <2>1, RxPreserves
  <2>3. NfTypeOK' /\ TxTypeOK' /\ NfIndex' /\ NfRxCursors' /\ NfTxCursors' /\ TxBurst'
    BY <2>1 DEF IInv, TypeOK, nfVars, txVars, NfTypeOK, TxTypeOK, NfIndex, NfRxCursors,
                NfTxCursors, TxBurst
  <2>4. TxdCarries' /\ TxdShared'
    BY <2>1, <2>2 DEF IInv, nfVars, txVars, TxdCarries, Window, NfPutSoFar, TxdShared,
                      NfTxFlip, NfTxLeft, TxFlip, TxLeft
  <2> QED
    BY <2>2, <2>3, <2>4 DEF IInv, TypeOK
<1>2. CASE NfStep
  <2>1. NfNext /\ UNCHANGED <<rxVars, txVars>>
    BY <1>2 DEF NfStep
  <2>2. /\ ShmTypeOK' /\ NfTypeOK' /\ NfIndex' /\ NfRxCursors' /\ NfTxCursors'
        /\ TxdCarries' /\ RxdShared' /\ TxdShared'
    BY <2>1, NfReceivePreserves, NfTransmitPreserves DEF NfNext
  <2>3. RxTypeOK' /\ TxTypeOK' /\ RxBurst' /\ RxCursors' /\ TxBurst'
    BY <2>1 DEF IInv, TypeOK, rxVars, txVars, RxTypeOK, TxTypeOK, RxBurst, RxCursors, TxBurst
  <2> QED
    BY <2>2, <2>3 DEF IInv, TypeOK
<1>3. CASE TxStep
  <2>1. TxNext /\ UNCHANGED <<rxVars, nfVars>>
    BY <1>3 DEF TxStep
  <2>2. /\ ShmTypeOK' /\ TxTypeOK' /\ TxBurst' /\ TxdCarries' /\ TxdShared'
        /\ UNCHANGED rxd_flags
    BY <2>1, TxPreserves
  <2>3. RxTypeOK' /\ NfTypeOK' /\ RxBurst' /\ RxCursors' /\ NfIndex' /\ NfRxCursors' /\ NfTxCursors'
    BY <2>1 DEF IInv, TypeOK, rxVars, nfVars, RxTypeOK, NfTypeOK, RxBurst, RxCursors,
                NfIndex, NfRxCursors, NfTxCursors
  <2>4. RxdShared'
    BY <2>1, <2>2 DEF IInv, rxVars, nfVars, RxdShared, NfRxFlip, NfRxLeft, RxFlip, RxLeft
  <2> QED
    BY <2>2, <2>3, <2>4 DEF IInv, TypeOK
<1>4. CASE UNCHANGED vars
  <2>1. TypeOK'
    <3>1. ShmTypeOK' /\ RxTypeOK'
      BY <1>4 DEF IInv, vars, shmVars, rxVars, TypeOK, ShmTypeOK, RxTypeOK
    <3>2. NfTypeOK' /\ TxTypeOK'
      BY <1>4 DEF IInv, vars, nfVars, txVars, TypeOK, NfTypeOK, TxTypeOK
    <3> QED
      BY <3>1, <3>2 DEF TypeOK
  <2>2. /\ RxBurst' /\ RxCursors' /\ NfIndex' /\ NfRxCursors' /\ NfTxCursors'
        /\ TxBurst' /\ TxdCarries'
    BY <1>4 DEF IInv, vars, shmVars, rxVars, nfVars, txVars, RxBurst, RxCursors, NfIndex,
                NfRxCursors, NfTxCursors, TxBurst, TxdCarries, Window, NfPutSoFar
  <2>3. RxdShared' /\ TxdShared'
    BY <1>4 DEF IInv, vars, shmVars, rxVars, nfVars, txVars, RxdShared, TxdShared,
                RxFlip, RxLeft, NfRxFlip, NfRxLeft, NfTxFlip, NfTxLeft, TxFlip, TxLeft
  <2> QED
    BY <2>1, <2>2, <2>3 DEF IInv
<1> QED
  BY <1>1, <1>2, <1>3, <1>4 DEF Next, Terminating

(***************************************************************************)
(* The inductive invariant holds of the pipeline, whatever the sizes.      *)
(***************************************************************************)
THEOREM InductiveInvariant == Spec => []IInv
BY InitInv, StepInv, PTL DEF Spec

(***************************************************************************)
(* Type correctness: every cursor stays inside the array of descriptors,   *)
(* every index inside its batch, every buffer index inside the pool.       *)
(***************************************************************************)
THEOREM TypeCorrect == Spec => []TypeOK
<1>1. IInv => TypeOK
  BY DEF IInv
<1> QED
  BY <1>1, InductiveInvariant, PTL

\* Ownership of the descriptors follows from how they are shared out.
LEMMA InvExclusive == IInv => DescExclusive
<1> SUFFICES ASSUME IInv
             PROVE  DescExclusive
  OBVIOUS
<1>1. rxd_flags \in [Slots -> Flags] /\ txd_flags \in [Slots -> Flags]
  BY DEF IInv, TypeOK, ShmTypeOK
<1>2. /\ SharedOut(rxd_flags, RxFlip, NfRxFlip, RxLeft, NfRxLeft)
      /\ SharedOut(txd_flags, TxFlip, NfTxFlip, TxLeft, NfTxLeft)
  BY DEF IInv, RxdShared, TxdShared
<1>3. /\ \A s \in Window(RxFlip, RxLeft) : rxd_flags[s] = AVAIL_FLAG
      /\ \A s \in Window(NfRxFlip, NfRxLeft) : rxd_flags[s] = USED_FLAG
  BY <1>1, <1>2, FlipTypes, ClaimsAreOwned
<1>4. /\ \A s \in Window(TxFlip, TxLeft) : txd_flags[s] = AVAIL_FLAG
      /\ \A s \in Window(NfTxFlip, NfTxLeft) : txd_flags[s] = USED_FLAG
  BY <1>1, <1>2, FlipTypes, ClaimsAreOwned
<1> QED
  BY <1>3, <1>4 DEF DescExclusive, RxClaimed, NfRxClaimed, NfTxClaimed, TxClaimed

(***************************************************************************)
(* Although each side of a queue looks at the flag of the last descriptor  *)
(* of a batch only (vhost.h:108,196, vio.h:25,121), no descriptor is ever  *)
(* worked on by both sides.                                                *)
(***************************************************************************)
THEOREM DescriptorsExclusive == Spec => []DescExclusive
BY InvExclusive, InductiveInvariant, PTL

(***************************************************************************)
(* Between two bursts vq_free_cnt is 0 and the two TX cursors agree, so    *)
(* the second test of vio_xmit_pkts (vio.h:126) never succeeds.            *)
(***************************************************************************)
THEOREM TxCursorsAgree == Spec => []CursorsAgree
<1>1. IInv => CursorsAgree
  BY DEF IInv, NfTxCursors, CursorsAgree
<1> QED
  BY <1>1, InductiveInvariant, PTL
-----------------------------------------------------------------------------
(***************************************************************************)
(* Each of the two queues of the pipeline implements DescRing, for every   *)
(* queue size and batch size.                                              *)
(***************************************************************************)

(***************************************************************************)
(* What a step of one side does to its queue: nothing, or it hands over    *)
(* the descriptor at its cursor.                                           *)
(***************************************************************************)
LEMMA RxOnRxRing ==
  ASSUME IInv, RxNext
  PROVE  \/ UNCHANGED <<rxd_flags, RxFlip>>
         \/ /\ RxLeft > 0
            /\ rxd_flags' = [rxd_flags EXCEPT ![RxFlip] = USED_FLAG]
            /\ RxFlip' = Wrap(RxFlip + 1)
<1> USE NEntriesAssumption
<1>0. /\ rx_last_used \in Slots /\ rx_count \in Nat /\ rx_i \in Nat
      /\ rx_pc = "publish" => rx_last_used + rx_count <= NENTRIES /\ rx_i < rx_count
  BY OptionAssumption DEF IInv, TypeOK, RxTypeOK, RxCursors, Cursor, Slots
<1>1. CASE RxStart \/ RxGenerate \/ RxExit \/ RxClaim \/ RxHalve
  BY <1>1 DEF RxStart, RxGenerate, RxExit, RxClaim, RxHalve, shmVars, RxFlip
<1>2. CASE RxGiveUp
  BY <1>2 DEF RxGiveUp, RxBurstReturns, shmVars, RxFlip
<1>3. CASE RxCopy
  BY <1>0, <1>3, WrapZero DEF RxCopy, RxFlip
<1>4. CASE RxPublish
  <2>1. Wrap(rx_last_used + rx_i) = rx_last_used + rx_i
    BY <1>0, <1>4 DEF RxPublish, Wrap, Slots
  <2>2. /\ RxFlip = rx_last_used + rx_i /\ RxLeft = rx_count - rx_i /\ RxLeft > 0
        /\ rxd_flags' = [rxd_flags EXCEPT ![RxFlip] = USED_FLAG]
    <3>1. RxFlip = rx_last_used + rx_i /\ RxLeft = rx_count - rx_i
      BY <1>4, <2>1 DEF RxPublish, RxFlip, RxLeft
    <3>2. rxd_flags' = [rxd_flags EXCEPT ![rx_last_used + rx_i] = USED_FLAG]
      BY <1>4 DEF RxPublish
    <3> QED
      BY <1>0, <1>4, <3>1, <3>2 DEF RxPublish
  <2>3. RxFlip' = Wrap(rx_last_used + rx_i + 1)
    <3>1. CASE rx_i + 1 < rx_count
      <4>1. RxFlip' = Wrap(rx_last_used + (rx_i + 1))
        BY <1>4, <3>1 DEF RxPublish, RxFlip
      <4> QED
        BY <1>0, <4>1 DEF Slots
    <3>2. CASE ~(rx_i + 1 < rx_count)
      <4>1. RxFlip' = Wrap(rx_last_used + rx_count)
        BY <1>4, <3>2 DEF RxPublish, RxBurstReturns, RxFlip
      <4>2. rx_last_used + rx_count = rx_last_used + rx_i + 1
        BY <1>0, <1>4, <3>2 DEF RxPublish, Slots
      <4> QED
        BY <4>1, <4>2
    <3> QED
      BY <3>1, <3>2
  <2> QED
    BY <2>2, <2>3
<1> QED
  BY <1>1, <1>2, <1>3, <1>4 DEF RxNext

LEMMA NfOnRxRing ==
  ASSUME IInv, NfNext
  PROVE  \/ UNCHANGED <<rxd_flags, NfRxFlip>>
         \/ /\ NfRxLeft > 0
            /\ rxd_flags' = [rxd_flags EXCEPT ![NfRxFlip] = AVAIL_FLAG]
            /\ NfRxFlip' = Wrap(NfRxFlip + 1)
<1> USE NEntriesAssumption
<1>0. /\ nf_shadow \in Slots /\ nf_rx_avail \in Slots
      /\ nf_num \in 1 .. NENTRIES /\ nf_i \in Nat
      /\ NfIndex /\ NfRxCursors
  BY OptionAssumption DEF IInv, TypeOK, NfTypeOK, Cursor, Slots
<1>1. CASE NfTake \/ NfHalve \/ NfExhausted \/ NfCheck
  BY <1>1 DEF NfTake, NfHalve, NfExhausted, NfCheck, shmVars, NfRxFlip
<1>2. CASE NfRefill
  BY <1>0, <1>2, WrapZero DEF NfRefill, NfRxFlip
<1>3. CASE NfOffer
  <2>1. /\ NfRxFlip = Wrap(nf_shadow + nf_i) /\ NfRxLeft = nf_num - nf_i /\ nf_i < nf_num
        /\ nf_rx_avail = Wrap(nf_shadow + nf_num)
        /\ rxd_flags' = [rxd_flags EXCEPT ![NfRxFlip] = AVAIL_FLAG]
    BY <1>0, <1>3 DEF NfOffer, NfOfferSlot, NfIndex, NfRxCursors, NfRxFlip, NfRxLeft
  <2>2. Wrap(NfRxFlip + 1) = Wrap(nf_shadow + (nf_i + 1))
    BY <1>0, <2>1 DEF Wrap, Slots
  <2>3. NfRxFlip' = Wrap(nf_shadow + (nf_i + 1))
    <3>1. CASE nf_i + 1 < nf_num
      BY <1>3, <3>1 DEF NfOffer, NfOfferSlot, NfRxFlip
    <3>2. CASE ~(nf_i + 1 < nf_num)
      <4>1. nf_i + 1 = nf_num
        BY <1>0, <2>1, <3>2
      <4> QED
        BY <1>3, <2>1, <4>1 DEF NfOffer, NfOfferSlot, NfRxFlip
    <3> QED
      BY <3>1, <3>2
  <2> QED
    BY <1>0, <2>1, <2>2, <2>3
<1>4. CASE NfXmit \/ NfCleanup \/ NfPut \/ NfPublish \/ NfExit
  BY <1>4 DEF NfXmit, NfCleanup, NfPut, NfPublish, NfExit, shmVars, NfRxFlip
<1> QED
  BY <1>1, <1>2, <1>3, <1>4 DEF NfNext

(***************************************************************************)
(* The batches of vhost_enqueue_burst and vio_recv_pkts implement the      *)
(* hand-over of descriptors one at a time and in circular order.           *)
(***************************************************************************)
THEOREM RxRingRefinement == Spec => RxRingImplemented
<1>1. Init => RxRing!RingInit
  <2>1. RxRing!Slots = Slots /\ AVAIL_FLAG \in RxRing!Flags
    BY DEF Slots, RxRing!Slots, RxRing!Flags, AVAIL_FLAG, RxRing!AVAIL_FLAG
  <2>2. Init => rxd_flags = [s \in Slots |-> AVAIL_FLAG] /\ RxFlip = 0 /\ NfRxFlip = 0
    BY DEF Init, ShmInit, RxInit, NfInit, RxFlip, NfRxFlip
  <2> QED
    BY <2>1, <2>2 DEF RxRing!RingInit
<1>2. ASSUME IInv, [Next]_vars
      PROVE  [RxRing!RingNext]_(RxRing!ringVars)
  <2> DEFINE Same == UNCHANGED <<rxd_flags, RxFlip, NfRxFlip>>
             Host == /\ rxd_flags[RxFlip] = AVAIL_FLAG
                     /\ rxd_flags' = [rxd_flags EXCEPT ![RxFlip] = USED_FLAG]
                     /\ RxFlip' = Wrap(RxFlip + 1)
                     /\ UNCHANGED NfRxFlip
             Guest == /\ rxd_flags[NfRxFlip] = USED_FLAG
                      /\ rxd_flags' = [rxd_flags EXCEPT ![NfRxFlip] = AVAIL_FLAG]
                      /\ NfRxFlip' = Wrap(NfRxFlip + 1)
                      /\ UNCHANGED RxFlip
  <2>1. /\ rxd_flags \in [Slots -> Flags]
        /\ RxFlip \in Slots /\ RxLeft \in Nat /\ NfRxFlip \in Slots /\ NfRxLeft \in Nat
        /\ SharedOut(rxd_flags, RxFlip, NfRxFlip, RxLeft, NfRxLeft)
    BY <1>2, FlipTypes DEF IInv, TypeOK, ShmTypeOK, RxdShared
  <2>2. CASE RxStep
    <3>1. RxNext /\ UNCHANGED NfRxFlip
      BY <2>2 DEF RxStep, nfVars, NfRxFlip
    <3>2. RxLeft > 0 => rxd_flags[RxFlip] = AVAIL_FLAG
      BY <2>1, HostHandsOver
    <3>3. Same \/ Host
      BY <1>2, <3>1, <3>2, RxOnRxRing
    <3> QED
      BY <3>3 DEF RxRing!RingNext, RxRing!HostGives, RxRing!ringVars, Wrap, RxRing!Wrap,
                  AVAIL_FLAG, USED_FLAG, RxRing!AVAIL_FLAG, RxRing!USED_FLAG
  <2>3. CASE NfStep
    <3>1. NfNext /\ UNCHANGED RxFlip
      BY <2>3 DEF NfStep, rxVars, RxFlip
    <3>2. NfRxLeft > 0 => rxd_flags[NfRxFlip] = USED_FLAG
      BY <2>1, GuestHandsOver
    <3>3. Same \/ Guest
      BY <1>2, <3>1, <3>2, NfOnRxRing
    <3> QED
      BY <3>3 DEF RxRing!RingNext, RxRing!GuestGives, RxRing!ringVars, Wrap, RxRing!Wrap,
                  AVAIL_FLAG, USED_FLAG, RxRing!AVAIL_FLAG, RxRing!USED_FLAG
  <2>4. CASE TxStep
    <3>1. UNCHANGED rxd_flags /\ UNCHANGED <<rxVars, nfVars>>
      BY <1>2, <2>4, TxPreserves DEF TxStep
    <3>2. Same
      BY <3>1 DEF rxVars, nfVars, RxFlip, NfRxFlip
    <3> QED
      BY <3>2 DEF RxRing!ringVars
  <2>5. CASE UNCHANGED vars
    <3>1. Same
      BY <2>5 DEF vars, shmVars, rxVars, nfVars, RxFlip, NfRxFlip
    <3> QED
      BY <3>1 DEF RxRing!ringVars
  <2> QED
    BY <1>2, <2>2, <2>3, <2>4, <2>5 DEF Next, Terminating
<1>3. IInv /\ [Next]_vars => [RxRing!RingNext]_(RxRing!ringVars)
  BY <1>2
<1> QED
  BY <1>1, <1>3, InductiveInvariant, PTL DEF Spec, RxRingImplemented, RxRing!RingSpec

LEMMA TxOnTxRing ==
  ASSUME IInv, TxNext
  PROVE  \/ UNCHANGED <<txd_flags, TxFlip>>
         \/ /\ TxLeft > 0
            /\ txd_flags' = [txd_flags EXCEPT ![TxFlip] = USED_FLAG]
            /\ TxFlip' = Wrap(TxFlip + 1)
<1> USE NEntriesAssumption
<1>0. /\ tx_last_avail \in Slots /\ tx_count \in Nat /\ tx_i \in Nat
      /\ tx_pc = "release" => tx_last_avail + tx_count <= NENTRIES /\ tx_i < tx_count
  BY OptionAssumption DEF IInv, TypeOK, TxTypeOK, TxBurst, Cursor, Slots
<1>1. CASE TxStart \/ TxClaim \/ TxHalve \/ TxCheck
  BY <1>1 DEF TxStart, TxClaim, TxHalve, TxCheck, shmVars, TxFlip
<1>2. CASE TxCopy
  BY <1>0, <1>2, WrapZero DEF TxCopy, shmVars, TxFlip
<1>3. CASE TxRelease
  <2>1. Wrap(tx_last_avail + tx_i) = tx_last_avail + tx_i
    BY <1>0, <1>3 DEF TxRelease, Wrap, Slots
  <2>2. /\ TxFlip = tx_last_avail + tx_i /\ TxLeft = tx_count - tx_i /\ TxLeft > 0
        /\ txd_flags' = [txd_flags EXCEPT ![TxFlip] = USED_FLAG]
    <3>1. TxFlip = tx_last_avail + tx_i /\ TxLeft = tx_count - tx_i
      BY <1>3, <2>1 DEF TxRelease, TxFlip, TxLeft
    <3>2. txd_flags' = [txd_flags EXCEPT ![tx_last_avail + tx_i] = USED_FLAG]
      BY <1>3 DEF TxRelease
    <3> QED
      BY <1>0, <1>3, <3>1, <3>2 DEF TxRelease
  <2>3. TxFlip' = Wrap(tx_last_avail + tx_i + 1)
    <3>1. CASE tx_i + 1 < tx_count
      <4>1. TxFlip' = Wrap(tx_last_avail + (tx_i + 1))
        BY <1>3, <3>1 DEF TxRelease, TxFlip
      <4> QED
        BY <1>0, <4>1 DEF Slots
    <3>2. CASE ~(tx_i + 1 < tx_count)
      <4>1. TxFlip' = Wrap(tx_last_avail + tx_count)
        BY <1>3, <3>2 DEF TxRelease, TxFlip
      <4>2. tx_last_avail + tx_count = tx_last_avail + tx_i + 1
        BY <1>0, <1>3, <3>2 DEF TxRelease, Slots
      <4> QED
        BY <4>1, <4>2
    <3> QED
      BY <3>1, <3>2
  <2> QED
    BY <2>2, <2>3
<1> QED
  BY <1>1, <1>2, <1>3 DEF TxNext

LEMMA NfOnTxRing ==
  ASSUME IInv, NfNext
  PROVE  \/ UNCHANGED <<txd_flags, NfTxFlip>>
         \/ /\ NfTxLeft > 0
            /\ txd_flags' = [txd_flags EXCEPT ![NfTxFlip] = AVAIL_FLAG]
            /\ NfTxFlip' = Wrap(NfTxFlip + 1)
<1> USE NEntriesAssumption
<1>0. /\ nf_shadow \in Slots /\ nf_tx_avail \in Slots
      /\ nf_num \in 1 .. NENTRIES /\ nf_i \in Nat
      /\ NfIndex /\ NfTxCursors
  BY OptionAssumption DEF IInv, TypeOK, NfTypeOK, Cursor, Slots
<1>1. CASE NfTake \/ NfHalve \/ NfRefill \/ NfExhausted \/ NfOffer \/ NfCheck \/ NfExit
  BY <1>1 DEF NfTake, NfHalve, NfRefill, NfExhausted, NfOffer, NfCheck, NfExit, shmVars,
              NfTxFlip
<1>2. CASE NfXmit
  <2>1. nf_free_cnt = 0
    BY <1>0, <1>2 DEF NfXmit, NfTxCursors
  <2> QED
    BY <1>0, <1>2, <2>1 DEF NfXmit, shmVars, NfTxFlip
<1>3. CASE NfCleanup
  <2>1. nf_shadow = nf_tx_avail /\ nf_pc' \notin {"publish"}
    BY <1>0, <1>3 DEF NfCleanup, NfTxCursors
  <2>2. nf_shadow' = nf_shadow /\ nf_tx_avail' = nf_tx_avail /\ txd_flags' = txd_flags
    BY <1>3 DEF NfCleanup, shmVars
  <2>3. nf_pc = "cleanup"
    BY <1>3 DEF NfCleanup
  <2> QED
    BY <2>1, <2>2, <2>3 DEF NfTxFlip
<1>4. CASE NfPut
  BY <1>0, <1>4, WrapZero DEF NfPut, NfTxFlip
<1>5. CASE NfPublish
  <2>1. /\ NfTxFlip = Wrap(nf_shadow + nf_i) /\ NfTxLeft = nf_num - nf_i /\ nf_i < nf_num
        /\ nf_tx_avail = Wrap(nf_shadow + nf_num)
        /\ txd_flags' = [txd_flags EXCEPT ![NfTxFlip] = AVAIL_FLAG]
    BY <1>0, <1>5 DEF NfPublish, NfIndex, NfTxCursors, NfTxFlip, NfTxLeft
  <2>2. Wrap(NfTxFlip + 1) = Wrap(nf_shadow + (nf_i + 1))
    BY <1>0, <2>1 DEF Wrap, Slots
  <2>3. NfTxFlip' = Wrap(nf_shadow + (nf_i + 1))
    <3>1. CASE nf_i + 1 < nf_num
      BY <1>5, <3>1 DEF NfPublish, NfTxFlip
    <3>2. CASE ~(nf_i + 1 < nf_num)
      <4>1. nf_i + 1 = nf_num
        BY <1>0, <2>1, <3>2
      <4> QED
        BY <1>5, <2>1, <4>1 DEF NfPublish, NfTxFlip
    <3> QED
      BY <3>1, <3>2
  <2> QED
    BY <1>0, <2>1, <2>2, <2>3
<1> QED
  BY <1>1, <1>2, <1>3, <1>4, <1>5 DEF NfNext

(***************************************************************************)
(* So do the batches of vio_xmit_pkts and vhost_dequeue_burst, where the   *)
(* guest reclaims used descriptors only when it sends the next batch.      *)
(***************************************************************************)
THEOREM TxRingRefinement == Spec => TxRingImplemented
<1>1. Init => TxRing!RingInit
  <2>1. TxRing!Slots = Slots /\ USED_FLAG \in TxRing!Flags
    BY DEF Slots, TxRing!Slots, TxRing!Flags, USED_FLAG, TxRing!USED_FLAG
  <2>2. Init => txd_flags = [s \in Slots |-> USED_FLAG] /\ TxFlip = 0 /\ NfTxFlip = 0
    BY DEF Init, ShmInit, TxInit, NfInit, TxFlip, NfTxFlip
  <2> QED
    BY <2>1, <2>2 DEF TxRing!RingInit
<1>2. ASSUME IInv, [Next]_vars
      PROVE  [TxRing!RingNext]_(TxRing!ringVars)
  <2> DEFINE Same == UNCHANGED <<txd_flags, TxFlip, NfTxFlip>>
             Host == /\ txd_flags[TxFlip] = AVAIL_FLAG
                     /\ txd_flags' = [txd_flags EXCEPT ![TxFlip] = USED_FLAG]
                     /\ TxFlip' = Wrap(TxFlip + 1)
                     /\ UNCHANGED NfTxFlip
             Guest == /\ txd_flags[NfTxFlip] = USED_FLAG
                      /\ txd_flags' = [txd_flags EXCEPT ![NfTxFlip] = AVAIL_FLAG]
                      /\ NfTxFlip' = Wrap(NfTxFlip + 1)
                      /\ UNCHANGED TxFlip
  <2>1. /\ txd_flags \in [Slots -> Flags]
        /\ TxFlip \in Slots /\ TxLeft \in Nat /\ NfTxFlip \in Slots /\ NfTxLeft \in Nat
        /\ SharedOut(txd_flags, TxFlip, NfTxFlip, TxLeft, NfTxLeft)
    BY <1>2, FlipTypes DEF IInv, TypeOK, ShmTypeOK, TxdShared
  <2>2. CASE TxStep
    <3>1. TxNext /\ UNCHANGED NfTxFlip
      BY <2>2 DEF TxStep, nfVars, NfTxFlip
    <3>2. TxLeft > 0 => txd_flags[TxFlip] = AVAIL_FLAG
      BY <2>1, HostHandsOver
    <3>3. Same \/ Host
      BY <1>2, <3>1, <3>2, TxOnTxRing
    <3> QED
      BY <3>3 DEF TxRing!RingNext, TxRing!HostGives, TxRing!ringVars, Wrap, TxRing!Wrap,
                  AVAIL_FLAG, USED_FLAG, TxRing!AVAIL_FLAG, TxRing!USED_FLAG
  <2>3. CASE NfStep
    <3>1. NfNext /\ UNCHANGED TxFlip
      BY <2>3 DEF NfStep, txVars, TxFlip
    <3>2. NfTxLeft > 0 => txd_flags[NfTxFlip] = USED_FLAG
      BY <2>1, GuestHandsOver
    <3>3. Same \/ Guest
      BY <1>2, <3>1, <3>2, NfOnTxRing
    <3> QED
      BY <3>3 DEF TxRing!RingNext, TxRing!GuestGives, TxRing!ringVars, Wrap, TxRing!Wrap,
                  AVAIL_FLAG, USED_FLAG, TxRing!AVAIL_FLAG, TxRing!USED_FLAG
  <2>4. CASE RxStep
    <3>1. UNCHANGED txd_flags /\ UNCHANGED <<nfVars, txVars>>
      BY <1>2, <2>4, RxPreserves DEF RxStep
    <3>2. Same
      BY <3>1 DEF nfVars, txVars, TxFlip, NfTxFlip
    <3> QED
      BY <3>2 DEF TxRing!ringVars
  <2>5. CASE UNCHANGED vars
    <3>1. Same
      BY <2>5 DEF vars, shmVars, txVars, nfVars, TxFlip, NfTxFlip
    <3> QED
      BY <3>1 DEF TxRing!ringVars
  <2> QED
    BY <1>2, <2>2, <2>3, <2>4, <2>5 DEF Next, Terminating
<1>3. IInv /\ [Next]_vars => [TxRing!RingNext]_(TxRing!ringVars)
  BY <1>2
<1> QED
  BY <1>1, <1>3, InductiveInvariant, PTL DEF Spec, TxRingImplemented, TxRing!RingSpec
-----------------------------------------------------------------------------
(***************************************************************************)
(* Ownership of the buffers: every guest buffer is in exactly one place.   *)
(***************************************************************************)

\* One of five sets has one element and the others have none.
ExactlyOne(A, B, C, D, E) ==
  \/ (\E x : A = {x}) /\ B = {} /\ C = {} /\ D = {} /\ E = {}
  \/ (\E x : B = {x}) /\ A = {} /\ C = {} /\ D = {} /\ E = {}
  \/ (\E x : C = {x}) /\ A = {} /\ B = {} /\ D = {} /\ E = {}
  \/ (\E x : D = {x}) /\ A = {} /\ B = {} /\ C = {} /\ E = {}
  \/ (\E x : E = {x}) /\ A = {} /\ B = {} /\ C = {} /\ D = {}

\* BufferOwnership in the form that is inductive relative to IInv.
OnePlace(b) == ExactlyOne(InCache(b), InRing(b), InRxd(b), InTaken(b), InTxd(b))
Owned       == nf_pc \notin {"failed", "overrun"} => \A b \in Objs : OnePlace(b)

\* A window gets shorter at its head, and longer at its end.
LEMMA WindowHead ==
  ASSUME NEW c \in Slots, NEW n \in 1 .. NENTRIES
  PROVE  /\ c \in Window(c, n)
         /\ c \notin Window(Wrap(c + 1), n - 1)
         /\ Window(c, n) = {c} \cup Window(Wrap(c + 1), n - 1)
<1>1. \A s \in Slots : Ahead(s, c) \in 0 .. NENTRIES - 1
  BY AheadBounds
<1>2. \A s \in Slots : Ahead(s, Wrap(c + 1)) = IF s = c THEN NENTRIES - 1 ELSE Ahead(s, c) - 1
  BY AheadNext
<1>3. Ahead(c, c) = 0
  BY AheadZero
<1> QED
  BY <1>1, <1>2, <1>3, NEntriesAssumption DEF Window

LEMMA WindowEnd ==
  ASSUME NEW c \in Slots, NEW n \in 0 .. NENTRIES - 1
  PROVE  /\ Wrap(c + n) \in Slots
         /\ Wrap(c + n) \notin Window(c, n)
         /\ Window(c, n + 1) = Window(c, n) \cup {Wrap(c + n)}
<1>1. \A s \in Slots : Ahead(s, c) \in 0 .. NENTRIES - 1 /\ Wrap(c + Ahead(s, c)) = s
  BY AheadBounds
<1>2. Ahead(Wrap(c + n), c) = n
  BY AheadWrap
<1>3. Wrap(c + n) \in Slots
  BY WrapSlot, NEntriesAssumption
<1> QED
  BY <1>1, <1>2, <1>3, NEntriesAssumption DEF Window

\* What alloc_pktbuf takes away, and what free_pktbuf adds (pktbuf_get_put.h:13-47).
LEMMA AllocTakes ==
  ASSUME NEW p \in [ring : Seq(Objs), rear : Nat, cache : Seq(Objs)], CanAlloc(p)
  PROVE  LET q == AfterAlloc(p)
         IN  \/ /\ Len(p.cache) >= 1 /\ AllocIdx(p) = p.cache[Len(p.cache)]
                /\ q.ring = p.ring
                /\ DOMAIN p.cache = 1 .. Len(p.cache)
                /\ DOMAIN q.cache = 1 .. Len(p.cache) - 1
                /\ \A k \in DOMAIN q.cache : q.cache[k] = p.cache[k]
             \/ /\ Len(p.ring) >= 1 /\ AllocIdx(p) = p.ring[1]
                /\ q.cache = p.cache
                /\ DOMAIN p.ring = 1 .. Len(p.ring)
                /\ DOMAIN q.ring = 1 .. Len(p.ring) - 1
                /\ \A k \in DOMAIN q.ring : q.ring[k] = p.ring[k + 1]
<1>1. CASE p.cache # <<>>
  <2> DEFINE c == p.cache
             m == Len(c) - 1
  <2>1. c \in Seq(Objs) /\ c # <<>>
    BY <1>1
  <2> HIDE DEF c
  <2>2. Len(c) \in Nat /\ Len(c) >= 1 /\ DOMAIN c = 1 .. Len(c)
    BY <2>1
  <2>3. m \in Nat /\ m = Len(c) - 1
    BY <2>2
  <2> HIDE DEF m
  <2>4. /\ DOMAIN SubSeq(c, 1, m) = 1 .. m
        /\ \A k \in 1 .. m : SubSeq(c, 1, m)[k] = c[k]
    BY <2>1, <2>2, <2>3
  <2>5. /\ AfterAlloc(p).cache = SubSeq(c, 1, m) /\ AfterAlloc(p).ring = p.ring
        /\ AllocIdx(p) = c[Len(c)]
    BY <1>1 DEF AfterAlloc, AllocIdx, c, m
  <2> QED
    BY <2>2, <2>3, <2>4, <2>5 DEF c
<1>2. CASE p.cache = <<>>
  <2> DEFINE c == p.ring
  <2>1. c \in Seq(Objs) /\ c # <<>>
    BY <1>2 DEF CanAlloc
  <2>2. /\ AfterAlloc(p).ring = Tail(c) /\ AfterAlloc(p).cache = p.cache
        /\ AllocIdx(p) = Head(c)
    BY <1>2 DEF AfterAlloc, AllocIdx
  <2> HIDE DEF c
  <2>3. Len(c) >= 1 /\ DOMAIN c = 1 .. Len(c) /\ Head(c) = c[1]
    BY <2>1
  <2>4. DOMAIN Tail(c) = 1 .. Len(c) - 1 /\ \A k \in 1 .. Len(c) - 1 : Tail(c)[k] = c[k + 1]
    BY <2>1, <2>3
  <2> QED
    BY <2>2, <2>3, <2>4 DEF c
<1> QED
  BY <1>1, <1>2

LEMMA FreeAdds ==
  ASSUME NEW p \in [ring : Seq(Objs), rear : Nat, cache : Seq(Objs)], NEW b \in Objs
  PROVE  LET q == AfterFree(p, b)
         IN  \/ /\ q.ring = p.ring
                /\ DOMAIN p.cache = 1 .. Len(p.cache) /\ Len(p.cache) \in Nat
                /\ DOMAIN q.cache = 1 .. Len(p.cache) + 1
                /\ q.cache[Len(p.cache) + 1] = b
                /\ \A k \in DOMAIN p.cache : q.cache[k] = p.cache[k]
             \/ /\ q.cache = p.cache
                /\ DOMAIN p.ring = 1 .. Len(p.ring) /\ Len(p.ring) \in Nat
                /\ DOMAIN q.ring = 1 .. Len(p.ring) + 1
                /\ q.ring[Len(p.ring) + 1] = b
                /\ \A k \in DOMAIN p.ring : q.ring[k] = p.ring[k]
<1>0. ASSUME NEW c \in Seq(Objs)
      PROVE  /\ DOMAIN c = 1 .. Len(c) /\ Len(c) \in Nat
             /\ DOMAIN Append(c, b) = 1 .. Len(c) + 1
             /\ Append(c, b)[Len(c) + 1] = b
             /\ \A k \in DOMAIN c : Append(c, b)[k] = c[k]
  OBVIOUS
<1>1. CASE Cacheable(p)
  <2>1. AfterFree(p, b).cache = Append(p.cache, b) /\ AfterFree(p, b).ring = p.ring
    BY <1>1 DEF AfterFree
  <2> QED
    BY <2>1, <1>0
<1>2. CASE ~Cacheable(p)
  <2>1. AfterFree(p, b).ring = Append(p.ring, b) /\ AfterFree(p, b).cache = p.cache
    BY <1>2 DEF AfterFree
  <2> QED
    BY <2>1, <1>0
<1> QED
  BY <1>1, <1>2
-----------------------------------------------------------------------------
\* vio_recv_pkts takes a batch: its buffers move from the RX queue to mbptrs.
LEMMA TakeMoves ==
  ASSUME IInv, NfTake, NEW b \in Objs, OnePlace(b)
  PROVE  OnePlace(b)'
<1> DEFINE W == Window(nf_rx_avail, nf_num)
<1>1. /\ nf_rx_avail \in Slots /\ nf_num \in 1 .. NENTRIES /\ nf_rx_used = nf_rx_avail
      /\ nf_i \in Nat
  BY OptionAssumption, NEntriesAssumption
  DEF IInv, TypeOK, NfTypeOK, NfRxCursors, NfTake, Cursor, Slots
<1>2. /\ InCache(b)' = InCache(b) /\ InRing(b)' = InRing(b) /\ InTxd(b)' = InTxd(b)
      /\ InTaken(b) = {}
  BY DEF NfTake, shmVars, InCache, InRing, InTxd, TxStale, InTaken, InBatch
<1>3. InRxd(b)' = InRxd(b) \ W
  BY <1>1 DEF NfTake, shmVars, InRxd, RxStale
<1>4. InTaken(b)' = {k \in 1 .. nf_num : rxd_buf[Wrap(nf_rx_avail + k - 1)] = b}
  BY <1>1 DEF NfTake, shmVars, InTaken, InBatch
<1>5. \A s \in Slots : /\ Ahead(s, nf_rx_avail) \in 0 .. NENTRIES - 1
                       /\ Wrap(nf_rx_avail + (Ahead(s, nf_rx_avail) + 1) - 1) = s
  BY <1>1, AheadBounds, NEntriesAssumption DEF Slots
<1>6. \A k \in 1 .. nf_num : /\ Wrap(nf_rx_avail + k - 1) \in W
                             /\ Ahead(Wrap(nf_rx_avail + k - 1), nf_rx_avail) = k - 1
  <2> TAKE k \in 1 .. nf_num
  <2>1. k - 1 \in 0 .. NENTRIES - 1 /\ nf_rx_avail + k - 1 = nf_rx_avail + (k - 1)
    BY <1>1, NEntriesAssumption DEF Slots
  <2>2. Wrap(nf_rx_avail + (k - 1)) \in Slots
    BY <1>1, <2>1, WrapSlot, NEntriesAssumption
  <2> QED
    BY <1>1, <2>1, <2>2, AheadWrap DEF Window
<1>7. \A s \in InRxd(b) \cap W : Ahead(s, nf_rx_avail) + 1 \in InTaken(b)'
  BY <1>1, <1>4, <1>5 DEF InRxd, Window
<1>8. \A k \in InTaken(b)' : /\ Wrap(nf_rx_avail + k - 1) \in InRxd(b) \cap W
                             /\ Ahead(Wrap(nf_rx_avail + k - 1), nf_rx_avail) + 1 = k
  BY <1>1, <1>4, <1>6 DEF InRxd, Window, RxStale, NfTake
<1>9. CASE \E s \in W : InRxd(b) = {s}
  <2>1. PICK s \in W : InRxd(b) = {s}
    BY <1>9
  <2>2. InRxd(b)' = {} /\ InTaken(b)' = {Ahead(s, nf_rx_avail) + 1}
    BY <1>3, <1>7, <1>8, <2>1
  <2> QED
    BY <1>2, <2>1, <2>2 DEF OnePlace, ExactlyOne
<1>10. CASE ~\E s \in W : InRxd(b) = {s}
  <2>1. InRxd(b) \cap W = {}
    BY <1>10 DEF OnePlace, ExactlyOne
  <2>2. InRxd(b)' = InRxd(b) /\ InTaken(b)' = {}
    BY <1>3, <1>8, <2>1
  <2> QED
    BY <1>2, <2>2 DEF OnePlace, ExactlyOne
<1> QED
  BY <1>9, <1>10

\* vioqueue_refill_desc_rx: a free buffer moves to a descriptor of the RX queue.
LEMMA RefillMoves ==
  ASSUME IInv, NfRefill, NEW b \in Objs, OnePlace(b)
  PROVE  OnePlace(b)'
<1>1. /\ nf_rx_avail \in Slots /\ nf_num \in 1 .. NENTRIES /\ nf_i \in Nat /\ nf_i < nf_num
      /\ nf_pool \in [ring : Seq(Objs), rear : Nat, cache : Seq(Objs)]
      /\ rxd_buf \in [Slots -> Objs]
      /\ nf_pc = "refill"
  BY OptionAssumption, NEntriesAssumption
  DEF IInv, TypeOK, NfTypeOK, ShmTypeOK, NfIndex, NfRefill, Cursor, Slots
<1>2. InTaken(b)' = InTaken(b) /\ InTxd(b)' = InTxd(b)
  BY <1>1 DEF NfRefill, InTxd, TxStale, InTaken, InBatch
<1>3. /\ nf_rx_avail \in RxStale /\ nf_rx_avail \notin RxStale'
      /\ RxStale = {nf_rx_avail} \cup RxStale'
  <2>1. nf_num - nf_i \in 1 .. NENTRIES /\ Wrap(nf_rx_avail + 1) \in Slots
    BY <1>1, WrapSlot, NEntriesAssumption
  <2>2. RxStale = Window(nf_rx_avail, nf_num - nf_i)
    BY <1>1 DEF RxStale
  <2>3. RxStale' = Window(Wrap(nf_rx_avail + 1), nf_num - nf_i - 1)
    <3>1. CASE nf_i + 1 < nf_num
      BY <1>1, <3>1 DEF NfRefill, RxStale
    <3>2. CASE ~(nf_i + 1 < nf_num)
      <4>1. nf_num - nf_i - 1 = 0 /\ RxStale' = {}
        BY <1>1, <3>2 DEF NfRefill, RxStale
      <4> QED
        BY <2>1, <4>1, EmptyWindow
    <3> QED
      BY <3>1, <3>2
  <2> QED
    BY <1>1, <2>1, <2>2, <2>3, WindowHead
<1>4. nf_rx_avail \notin InRxd(b) /\ RxStale \subseteq Slots
  BY <1>1, <1>3 DEF InRxd, RxStale, Window
<1>5. /\ AllocIdx(nf_pool) = b => InRxd(b)' = InRxd(b) \cup {nf_rx_avail}
      /\ AllocIdx(nf_pool) # b => InRxd(b)' = InRxd(b)
  BY <1>1, <1>3, <1>4 DEF NfRefill, InRxd
<1>6. CanAlloc(nf_pool) /\ nf_pool' = AfterAlloc(nf_pool)
  BY DEF NfRefill
<1> DEFINE n == Len(nf_pool.cache)
<1>7. \/ /\ n >= 1 /\ AllocIdx(nf_pool) = nf_pool.cache[n]
         /\ nf_pool'.ring = nf_pool.ring
         /\ DOMAIN nf_pool.cache = 1 .. n
         /\ DOMAIN nf_pool'.cache = 1 .. n - 1
         /\ \A k \in DOMAIN nf_pool'.cache : nf_pool'.cache[k] = nf_pool.cache[k]
      \/ /\ Len(nf_pool.ring) >= 1 /\ AllocIdx(nf_pool) = nf_pool.ring[1]
         /\ nf_pool'.cache = nf_pool.cache
         /\ DOMAIN nf_pool.ring = 1 .. Len(nf_pool.ring)
         /\ DOMAIN nf_pool'.ring = 1 .. Len(nf_pool.ring) - 1
         /\ \A k \in DOMAIN nf_pool'.ring : nf_pool'.ring[k] = nf_pool.ring[k + 1]
  BY <1>1, <1>6, AllocTakes
<1>8. n \in Nat /\ Len(nf_pool.ring) \in Nat
  BY <1>1
<1>9. CASE n >= 1 /\ AllocIdx(nf_pool) = nf_pool.cache[n] /\ nf_pool'.ring = nf_pool.ring
           /\ DOMAIN nf_pool.cache = 1 .. n
           /\ DOMAIN nf_pool'.cache = 1 .. n - 1
           /\ \A k \in DOMAIN nf_pool'.cache : nf_pool'.cache[k] = nf_pool.cache[k]
  <2>1. InRing(b)' = InRing(b)
    BY <1>9 DEF InRing
  <2>2. InCache(b)' = InCache(b) \ {n} /\ (n \in InCache(b) <=> AllocIdx(nf_pool) = b)
    BY <1>8, <1>9 DEF InCache
  <2>3. CASE AllocIdx(nf_pool) = b
    <3>1. InCache(b) = {n} /\ InRing(b) = {} /\ InRxd(b) = {} /\ InTaken(b) = {} /\ InTxd(b) = {}
      BY <2>2, <2>3 DEF OnePlace, ExactlyOne
    <3> QED
      BY <1>2, <1>5, <2>1, <2>2, <2>3, <3>1 DEF OnePlace, ExactlyOne
  <2>4. CASE AllocIdx(nf_pool) # b
    <3>1. InCache(b)' = InCache(b) /\ InRxd(b)' = InRxd(b)
      BY <1>5, <2>2, <2>4
    <3> QED
      BY <1>2, <2>1, <3>1 DEF OnePlace, ExactlyOne
  <2> QED
    BY <2>3, <2>4
<1>10. CASE /\ Len(nf_pool.ring) >= 1 /\ AllocIdx(nf_pool) = nf_pool.ring[1]
            /\ nf_pool'.cache = nf_pool.cache
            /\ DOMAIN nf_pool.ring = 1 .. Len(nf_pool.ring)
            /\ DOMAIN nf_pool'.ring = 1 .. Len(nf_pool.ring) - 1
            /\ \A k \in DOMAIN nf_pool'.ring : nf_pool'.ring[k] = nf_pool.ring[k + 1]
  <2>1. InCache(b)' = InCache(b)
    BY <1>10 DEF InCache
  <2>2. /\ 1 \in InRing(b) <=> AllocIdx(nf_pool) = b
        /\ \A k \in InRing(b)' : k + 1 \in InRing(b) /\ k + 1 # 1 /\ (k + 1) - 1 = k
        /\ \A k \in InRing(b) : k # 1 => k - 1 \in InRing(b)'
    BY <1>8, <1>10, SMTT(30) DEF InRing
  <2>3. CASE AllocIdx(nf_pool) = b
    <3>1. InRing(b) = {1} /\ InCache(b) = {} /\ InRxd(b) = {} /\ InTaken(b) = {} /\ InTxd(b) = {}
      BY <2>2, <2>3 DEF OnePlace, ExactlyOne
    <3>2. InRing(b)' = {}
      BY <2>2, <3>1
    <3> QED
      BY <1>2, <1>5, <2>1, <2>3, <3>1, <3>2 DEF OnePlace, ExactlyOne
  <2>4. CASE AllocIdx(nf_pool) # b
    <3>1. 1 \notin InRing(b) /\ InRxd(b)' = InRxd(b)
      BY <1>5, <2>2, <2>4
    <3>2. InRing(b) = {} => InRing(b)' = {}
      BY <2>2
    <3>3. ASSUME NEW x, InRing(b) = {x}
          PROVE  InRing(b)' = {x - 1}
      BY <2>2, <3>1, <3>3
    <3> QED
      BY <1>2, <2>1, <3>1, <3>2, <3>3 DEF OnePlace, ExactlyOne
  <2> QED
    BY <2>3, <2>4
<1> QED
  BY <1>7, <1>9, <1>10

\* virtio_xmit_cleanup: the buffer of a TX descriptor moves to the pool.
LEMMA CleanupMoves ==
  ASSUME IInv, NfCleanup, NEW b \in Objs, OnePlace(b), nf_pc' \notin {"failed", "overrun"}
  PROVE  OnePlace(b)'
<1>1. /\ nf_shadow \in Slots /\ nf_num \in 1 .. NENTRIES /\ nf_i \in 0 .. nf_num - 1
      /\ nf_pool \in [ring : Seq(Objs), rear : Nat, cache : Seq(Objs)]
      /\ txd_buf \in [Slots -> Objs \cup {NoBuf}]
      /\ nf_pc = "cleanup" /\ nf_free_cnt = 0
      /\ nf_shadow = nf_tx_avail
      /\ nf_tx_used = Wrap(nf_shadow + nf_i)
  BY OptionAssumption, NEntriesAssumption
  DEF IInv, TypeOK, NfTypeOK, ShmTypeOK, NfIndex, NfTxCursors, NfCleanup, Cursor, Slots
<1>2. /\ NoBuf \notin Objs
      /\ nf_i + 1 = nf_num - nf_free_cnt <=> nf_i + 1 = nf_num
      /\ nf_i + 1 = nf_num => ~(nf_num > nf_free_cnt + nf_i + 1)
  BY <1>1 DEF Objs, NoBuf
<1>3. \/ nf_i + 1 = nf_num /\ nf_i' = 0 /\ nf_pc' = "put"
      \/ nf_i + 1 < nf_num /\ nf_i' = nf_i + 1 /\ nf_pc' = "cleanup"
  BY <1>1, <1>2 DEF NfCleanup
<1>4. InRxd(b)' = InRxd(b) /\ InTaken(b)' = InTaken(b)
  BY <1>1, <1>3 DEF NfCleanup, shmVars, InRxd, RxStale, InTaken, InBatch
<1>5. nf_tx_used \in Slots \ TxStale /\ TxStale' = TxStale \cup {nf_tx_used}
  <2>1. nf_i \in 0 .. NENTRIES - 1
    BY <1>1, NEntriesAssumption
  <2>2. TxStale = Window(nf_shadow, nf_i)
    BY <1>1 DEF TxStale
  <2>3. TxStale' = Window(nf_shadow, nf_i + 1)
    <3>1. nf_tx_avail' = nf_shadow /\ nf_shadow' = nf_shadow /\ nf_num' = nf_num
      BY <1>1 DEF NfCleanup
    <3> QED
      BY <1>1, <1>3, <3>1 DEF TxStale
  <2> QED
    BY <1>1, <2>1, <2>2, <2>3, WindowEnd
<1>6. /\ txd_buf[nf_tx_used] = b => nf_tx_used \in InTxd(b) /\ InTxd(b)' = InTxd(b) \ {nf_tx_used}
      /\ txd_buf[nf_tx_used] # b => InTxd(b)' = InTxd(b)
  BY <1>5 DEF NfCleanup, shmVars, InTxd
<1>7. CASE txd_buf[nf_tx_used] = NoBuf
  <2>1. InCache(b)' = InCache(b) /\ InRing(b)' = InRing(b)
    BY <1>7 DEF NfCleanup, InCache, InRing
  <2> QED
    BY <1>2, <1>4, <1>6, <1>7, <2>1 DEF OnePlace, ExactlyOne
<1>8. CASE txd_buf[nf_tx_used] # NoBuf
  <2> DEFINE c == txd_buf[nf_tx_used]
             n == Len(nf_pool.cache)
             m == Len(nf_pool.ring)
  <2>1. c \in Objs /\ nf_pool' = AfterFree(nf_pool, c)
    BY <1>1, <1>5, <1>8 DEF NfCleanup
  <2>2. \/ /\ nf_pool'.ring = nf_pool.ring
           /\ DOMAIN nf_pool.cache = 1 .. n /\ n \in Nat
           /\ DOMAIN nf_pool'.cache = 1 .. n + 1
           /\ nf_pool'.cache[n + 1] = c
           /\ \A k \in DOMAIN nf_pool.cache : nf_pool'.cache[k] = nf_pool.cache[k]
        \/ /\ nf_pool'.cache = nf_pool.cache
           /\ DOMAIN nf_pool.ring = 1 .. m /\ m \in Nat
           /\ DOMAIN nf_pool'.ring = 1 .. m + 1
           /\ nf_pool'.ring[m + 1] = c
           /\ \A k \in DOMAIN nf_pool.ring : nf_pool'.ring[k] = nf_pool.ring[k]
    BY <1>1, <2>1, FreeAdds
  <2>3. \/ /\ InRing(b)' = InRing(b)
           /\ c = b => InCache(b)' = InCache(b) \cup {n + 1}
           /\ c # b => InCache(b)' = InCache(b)
        \/ /\ InCache(b)' = InCache(b)
           /\ c = b => InRing(b)' = InRing(b) \cup {m + 1}
           /\ c # b => InRing(b)' = InRing(b)
    BY <2>2 DEF InRing, InCache
  <2>4. CASE c # b
    BY <1>4, <1>6, <2>3, <2>4 DEF OnePlace, ExactlyOne
  <2>5. CASE c = b
    <3>1. /\ InTxd(b) = {nf_tx_used} /\ InTxd(b)' = {}
          /\ InCache(b) = {} /\ InRing(b) = {} /\ InRxd(b) = {} /\ InTaken(b) = {}
      BY <1>6, <2>5 DEF OnePlace, ExactlyOne
    <3>2. InRxd(b)' = {} /\ InTaken(b)' = {}
      BY <1>4, <3>1
    <3>3. \/ InRing(b)' = {} /\ InCache(b)' = {n + 1}
          \/ InCache(b)' = {} /\ InRing(b)' = {m + 1}
      BY <2>3, <2>5, <3>1
    <3> HIDE DEF n, m
    <3> QED
      BY <3>1, <3>2, <3>3 DEF OnePlace, ExactlyOne
  <2> QED
    BY <2>4, <2>5
<1> QED
  BY <1>7, <1>8

\* vioqueue_enqueue_burst_tx: a buffer of the batch moves to a TX descriptor.
LEMMA PutMoves ==
  ASSUME IInv, NfPut, NEW b \in Objs, OnePlace(b)
  PROVE  OnePlace(b)'
<1>1. /\ nf_tx_avail \in Slots /\ nf_num \in 1 .. NENTRIES /\ nf_i \in 0 .. nf_num - 1
      /\ txd_buf \in [Slots -> Objs \cup {NoBuf}]
      /\ nf_pc = "put"
  BY OptionAssumption, NEntriesAssumption
  DEF IInv, TypeOK, NfTypeOK, ShmTypeOK, NfIndex, NfPut, Cursor, Slots
<1>2. /\ InCache(b)' = InCache(b) /\ InRing(b)' = InRing(b) /\ InRxd(b)' = InRxd(b)
  BY <1>1 DEF NfPut, InCache, InRing, InRxd, RxStale
<1>3. /\ nf_tx_avail \in TxStale /\ nf_tx_avail \notin TxStale'
      /\ TxStale = {nf_tx_avail} \cup TxStale'
  <2>1. nf_num - nf_i \in 1 .. NENTRIES /\ Wrap(nf_tx_avail + 1) \in Slots
    BY <1>1, WrapSlot, NEntriesAssumption
  <2>2. TxStale = Window(nf_tx_avail, nf_num - nf_i)
    BY <1>1 DEF TxStale
  <2>3. TxStale' = Window(Wrap(nf_tx_avail + 1), nf_num - nf_i - 1)
    <3>1. CASE nf_i + 1 < nf_num
      BY <1>1, <3>1 DEF NfPut, TxStale
    <3>2. CASE ~(nf_i + 1 < nf_num)
      <4>1. nf_num - nf_i - 1 = 0 /\ TxStale' = {}
        BY <1>1, <3>2 DEF NfPut, TxStale
      <4> QED
        BY <2>1, <4>1, EmptyWindow
    <3> QED
      BY <3>1, <3>2
  <2> QED
    BY <1>1, <2>1, <2>2, <2>3, WindowHead
<1>4. nf_tx_avail \notin InTxd(b) /\ TxStale \subseteq Slots
  BY <1>1, <1>3 DEF InTxd, TxStale, Window
<1>5. /\ nf_bufs[nf_i + 1] = b => InTxd(b)' = InTxd(b) \cup {nf_tx_avail}
      /\ nf_bufs[nf_i + 1] # b => InTxd(b)' = InTxd(b)
  BY <1>1, <1>3, <1>4 DEF NfPut, InTxd
<1>6. InBatch = nf_i + 1 .. nf_num /\ InBatch' = InBatch \ {nf_i + 1} /\ nf_i + 1 \in InBatch
  <2>1. InBatch = nf_i + 1 .. nf_num
    BY <1>1 DEF InBatch
  <2>2. InBatch' = nf_i + 2 .. nf_num
    <3>1. CASE nf_i + 1 < nf_num
      BY <1>1, <3>1 DEF NfPut, InBatch
    <3>2. CASE ~(nf_i + 1 < nf_num)
      <4>1. nf_i + 1 = nf_num /\ InBatch' = {}
        BY <1>1, <3>2 DEF NfPut, InBatch
      <4> QED
        BY <1>1, <4>1
    <3> QED
      BY <3>1, <3>2
  <2> QED
    BY <1>1, <2>1, <2>2
<1>7. /\ nf_bufs[nf_i + 1] = b => nf_i + 1 \in InTaken(b) /\ InTaken(b)' = InTaken(b) \ {nf_i + 1}
      /\ nf_bufs[nf_i + 1] # b => InTaken(b)' = InTaken(b)
  BY <1>6 DEF NfPut, InTaken
<1>8. CASE nf_bufs[nf_i + 1] = b
  <2>1. /\ InTaken(b) = {nf_i + 1} /\ InTaken(b)' = {} /\ InTxd(b)' = {nf_tx_avail}
        /\ InCache(b) = {} /\ InRing(b) = {} /\ InRxd(b) = {}
    BY <1>5, <1>7, <1>8 DEF OnePlace, ExactlyOne
  <2> QED
    BY <1>2, <2>1 DEF OnePlace, ExactlyOne
<1>9. CASE nf_bufs[nf_i + 1] # b
  BY <1>2, <1>5, <1>7, <1>9 DEF OnePlace, ExactlyOne
<1> QED
  BY <1>8, <1>9

\* Every other step leaves the buffers where they are.
LEMMA NothingMoves ==
  ASSUME IInv, NEW b \in Objs, OnePlace(b),
         \/ NfHalve \/ NfExhausted \/ NfOffer \/ NfCheck \/ NfXmit \/ NfPublish \/ NfExit
         \/ UNCHANGED <<nfVars, rxd_buf, txd_buf>>
  PROVE  OnePlace(b)'
<1>1. /\ nf_num \in 1 .. BATCH_SIZE /\ nf_i \in Nat /\ nf_shadow \in Slots /\ nf_tx_avail \in Slots
      /\ nf_pc = "xmit" => nf_i = 0 /\ nf_free_cnt = 0
  BY DEF IInv, TypeOK, NfTypeOK, NfIndex, NfTxCursors, Cursor, Slots
<1>2. UNCHANGED <<nf_pool, rxd_buf, txd_buf>>
  BY DEF NfHalve, NfExhausted, NfOffer, NfCheck, NfXmit, NfPublish, NfExit, nfVars, shmVars
<1>3. UNCHANGED <<RxStale, TxStale, InBatch>> /\ (InBatch # {} => nf_bufs' = nf_bufs)
  <2>1. CASE NfHalve
    BY <1>1, <2>1 DEF NfHalve, RxStale, TxStale, InBatch
  <2>2. CASE NfExhausted
    BY <1>1, <2>2 DEF NfExhausted, RxStale, TxStale, InBatch
  <2>3. CASE NfOffer
    BY <1>1, <2>3 DEF NfOffer, RxStale, TxStale, InBatch
  <2>4. CASE NfCheck
    BY <1>1, <2>4 DEF NfCheck, RxStale, TxStale, InBatch
  <2>5. CASE NfXmit
    <3>1. nf_pc = "xmit" /\ nf_pc' = "cleanup" /\ nf_i' = 0 /\ nf_shadow' \in Slots
          /\ UNCHANGED <<nf_bufs, nf_num>>
      BY <1>1, <2>5 DEF NfXmit
    <3>2. TxStale = {} /\ TxStale' = {}
      BY <3>1, EmptyWindow DEF TxStale
    <3> QED
      BY <3>1, <3>2 DEF RxStale, InBatch
  <2>6. CASE NfPublish
    BY <1>1, <2>6 DEF NfPublish, RxStale, TxStale, InBatch
  <2>7. CASE NfExit
    BY <1>1, <2>7 DEF NfExit, RxStale, TxStale, InBatch
  <2>8. CASE UNCHANGED <<nfVars, rxd_buf, txd_buf>>
    BY <2>8 DEF nfVars, RxStale, TxStale, InBatch
  <2> QED
    BY <2>1, <2>2, <2>3, <2>4, <2>5, <2>6, <2>7, <2>8
<1>4. /\ InCache(b)' = InCache(b) /\ InRing(b)' = InRing(b) /\ InRxd(b)' = InRxd(b)
      /\ InTaken(b)' = InTaken(b) /\ InTxd(b)' = InTxd(b)
  BY <1>2, <1>3 DEF InCache, InRing, InRxd, InTaken, InTxd
<1> QED
  BY <1>4 DEF OnePlace, ExactlyOne
-----------------------------------------------------------------------------
LEMMA OwnedInit == Init => Owned
<1> SUFFICES ASSUME Init, NEW b \in Objs
             PROVE  OnePlace(b)
  BY DEF Owned
<1> USE NEntriesAssumption, PoolAssumption, GuestPoolAssumption
<1>1. nf_pc = "poll" /\ nf_pool.cache = <<>> /\ nf_pool.ring = [k \in 1 .. POOL_NUM - NENTRIES |-> NENTRIES + k - 1]
  BY DEF Init, NfInit, InitPool
<1>2. rxd_buf = [s \in Slots |-> s] /\ txd_buf = [s \in Slots |-> NoBuf] /\ b # NoBuf
  BY DEF Init, ShmInit, Objs, NoBuf
<1>3. InCache(b) = {} /\ InTaken(b) = {} /\ InTxd(b) = {}
  BY <1>1, <1>2 DEF InCache, InTaken, InBatch, InTxd
<1>4. RxStale = {} /\ b \in 0 .. POOL_NUM - 1
  BY <1>1 DEF RxStale, Objs
<1>5. InRxd(b) = {s \in Slots : s = b}
  BY <1>2, <1>4 DEF InRxd
<1>6. InRing(b) = {k \in 1 .. POOL_NUM - NENTRIES : NENTRIES + k - 1 = b}
  BY <1>1 DEF InRing
<1>7. CASE b < NENTRIES
  <2>1. InRing(b) = {}
    BY <1>4, <1>7, <1>6
  <2>2. InRxd(b) = {b}
    BY <1>4, <1>7, <1>5 DEF Slots
  <2> QED
    BY <1>3, <2>1, <2>2 DEF OnePlace, ExactlyOne
<1>8. CASE ~(b < NENTRIES)
  <2> DEFINE k == b - NENTRIES + 1
  <2>1. k \in 1 .. POOL_NUM - NENTRIES /\ NENTRIES + k - 1 = b
    BY <1>4, <1>8
  <2>2. \A j \in 1 .. POOL_NUM - NENTRIES : NENTRIES + j - 1 = b => j = k
    BY <1>4
  <2> HIDE DEF k
  <2>3. InRing(b) = {k}
    BY <1>6, <2>1, <2>2
  <2>4. InRxd(b) = {}
    BY <1>4, <1>8, <1>5 DEF Slots
  <2> QED
    BY <1>3, <2>3, <2>4 DEF OnePlace, ExactlyOne
<1> QED
  BY <1>7, <1>8

(***************************************************************************)
(* Owned is inductive relative to IInv.                                    *)
(***************************************************************************)
LEMMA OwnedStep ==
  ASSUME IInv, Owned, [Next]_vars
  PROVE  Owned'
<1>1. CASE RxStep \/ TxStep \/ UNCHANGED vars
  <2>1. UNCHANGED <<nfVars, rxd_buf, txd_buf>>
    <3>1. CASE RxStep
      BY <3>1 DEF RxStep, RxNext, RxStart, RxGenerate, RxExit, RxClaim, RxHalve, RxGiveUp,
                  RxCopy, RxPublish, shmVars
    <3>2. CASE TxStep
      BY <3>2 DEF TxStep, TxNext, TxStart, TxClaim, TxHalve, TxCopy, TxRelease, TxCheck, shmVars
    <3>3. CASE UNCHANGED vars
      BY <3>3 DEF vars, shmVars
    <3> QED
      BY <1>1, <3>1, <3>2, <3>3
  <2>2. nf_pc' = nf_pc
    BY <2>1 DEF nfVars
  <2> QED
    BY <2>1, <2>2, NothingMoves DEF Owned
<1>2. CASE NfNext
  <2>1. nf_pc \notin {"failed", "overrun"}
    BY <1>2 DEF NfNext, NfTake, NfHalve, NfRefill, NfExhausted, NfOffer, NfCheck, NfXmit,
                NfCleanup, NfPut, NfPublish, NfExit
  <2> SUFFICES ASSUME NEW b \in Objs, nf_pc' \notin {"failed", "overrun"}
               PROVE  OnePlace(b)'
    BY DEF Owned
  <2>2. OnePlace(b)
    BY <2>1 DEF Owned
  <2> QED
    BY <1>2, <2>2, TakeMoves, RefillMoves, CleanupMoves, PutMoves, NothingMoves DEF NfNext
<1> QED
  BY <1>1, <1>2 DEF Next, NfStep, Terminating

\* In the words of Places.
LEMMA OneIsOne ==
  ASSUME NEW b, OnePlace(b)
  PROVE  \E p : Places(b) = {p}
<1>1. ASSUME NEW x, InCache(b) = {x}, InRing(b) = {}, InRxd(b) = {}, InTaken(b) = {}, InTxd(b) = {}
      PROVE  Places(b) = {<<"cache", x>>}
  BY <1>1 DEF Places
<1>2. ASSUME NEW x, InRing(b) = {x}, InCache(b) = {}, InRxd(b) = {}, InTaken(b) = {}, InTxd(b) = {}
      PROVE  Places(b) = {<<"ring", x>>}
  BY <1>2 DEF Places
<1>3. ASSUME NEW x, InRxd(b) = {x}, InCache(b) = {}, InRing(b) = {}, InTaken(b) = {}, InTxd(b) = {}
      PROVE  Places(b) = {<<"rxd", x>>}
  BY <1>3 DEF Places
<1>4. ASSUME NEW x, InTaken(b) = {x}, InCache(b) = {}, InRing(b) = {}, InRxd(b) = {}, InTxd(b) = {}
      PROVE  Places(b) = {<<"batch", x>>}
  BY <1>4 DEF Places
<1>5. ASSUME NEW x, InTxd(b) = {x}, InCache(b) = {}, InRing(b) = {}, InRxd(b) = {}, InTaken(b) = {}
      PROVE  Places(b) = {<<"txd", x>>}
  BY <1>5 DEF Places
<1> QED
  BY <1>1, <1>2, <1>3, <1>4, <1>5 DEF OnePlace, ExactlyOne

(***************************************************************************)
(* A guest buffer is in one place at any time, whatever the sizes of the   *)
(* pool, the cache, the queues and the batches: no refill, cleanup or      *)
(* burst (vio.h) loses one, frees one twice or hands out one in use.       *)
(***************************************************************************)
THEOREM BuffersOwned == Spec => []BufferOwnership
<1>1. IInv /\ Owned /\ [Next]_vars => Owned'
  BY OwnedStep
<1>2. Owned => BufferOwnership
  BY OneIsOne, FS_Singleton DEF Owned, BufferOwnership
<1> QED
  BY <1>1, <1>2, OwnedInit, InductiveInvariant, PTL DEF Spec
=============================================================================
