--------------------------- MODULE StartupProofs ----------------------------
(***************************************************************************)
(* Proofs about how the processes get into their loops: the handshake      *)
(* (Startup), for every queue size and whatever an earlier session has     *)
(* left in the segment, and what their command lines lead to (Options),    *)
(* for every set of sizes, every width of the narrowed copies and every    *)
(* sequence of killed sessions.                                            *)
(***************************************************************************)
EXTENDS Startup, Options, TLAPS

LEMMA SizesOk ==
  /\ NENTRIES \in Nat \ {0} /\ POOL_NUM \in Nat \ {0} /\ POOL_NUM >= NENTRIES
  /\ NENTRIES - 1 \in Slots /\ 0 \in Slots /\ Slots \subseteq Objs
BY NEntriesAssumption, PoolAssumption, GuestPoolAssumption DEF Slots, Objs

LEMMA TypeInit == StartupInit => StartupTypeOK
<1> SUFFICES ASSUME StartupInit
             PROVE  StartupTypeOK
  OBVIOUS
<1> USE SizesOk
<1>1. 0 \in Objs
  BY DEF Objs
<1>2. rxd_flags \in [Slots -> Flags \cup {ZERO_FLAG}] /\ txd_flags \in [Slots -> Flags \cup {ZERO_FLAG}]
  BY DEF StartupInit, ZeroSegment, LeftSegment, LeftFlags, Flags
<1>3. rxd_buf \in [Slots -> Objs]
  BY <1>1 DEF StartupInit, ZeroSegment, LeftSegment, LeftBufs
<1>4. txd_buf \in [Slots -> Objs \cup {NoBuf}]
  BY <1>1 DEF StartupInit, ZeroSegment, LeftSegment, LeftBufs
<1>5. /\ is_start \in BOOLEAN /\ is_end \in BOOLEAN /\ exists \in BOOLEAN /\ staggered \in BOOLEAN
      /\ nf_at = "create" /\ rx_at = "open" /\ tx_at = "open"
      /\ nf_desc = 0 /\ rx_desc = 0 /\ tx_desc = 0
  <2>1. CASE exists = FALSE /\ ZeroSegment /\ staggered \in BOOLEAN
    BY <2>1 DEF StartupInit, ZeroSegment
  <2>2. CASE exists = TRUE /\ LeftSegment /\ staggered = TRUE
    BY <2>2 DEF StartupInit, LeftSegment
  <2> QED
    BY <2>1, <2>2 DEF StartupInit
<1>6. 0 \in 0 .. 2 * NENTRIES - 1
  OBVIOUS
<1> QED
  BY <1>2, <1>3, <1>4, <1>5, <1>6 DEF StartupTypeOK

LEMMA InvInit == StartupInit => StartupInv
<1> SUFFICES ASSUME StartupInit
             PROVE  StartupInv
  OBVIOUS
<1>1. nf_at = "create" /\ rx_at = "open" /\ tx_at = "open" /\ nf_desc = 0
  BY DEF StartupInit
<1>2. InitializedSoFar
  BY <1>1 DEF InitializedSoFar, InitializedRx, InitializedTx, NfPastDescs
<1>3. LastDescLast
  <2>1. ~staggered => ZeroSegment
    BY DEF StartupInit
  <2> QED
    BY <2>1, SizesOk DEF LastDescLast, ZeroSegment, NoBuf
<1>4. ~is_start \/ staggered
  BY DEF StartupInit, ZeroSegment
<1> QED
  BY <1>1, <1>2, <1>3, <1>4 DEF StartupInv, Staggering, Handshake, RxAfterTx, HandshakeHolds

-----------------------------------------------------------------------------
(***************************************************************************)
(* The loops of init_descs_rx and init_descs_tx (nf.c:43-70).              *)
(***************************************************************************)
LEMMA NfTypes ==
  ASSUME StartupTypeOK, NfStartup
  PROVE  StartupTypeOK'
<1> USE SizesOk
<1>1. nf_desc \in Slots /\ nf_desc \in Objs /\ 0 \in Slots
  BY DEF StartupTypeOK
<1>2. nf_desc + 1 < NENTRIES => nf_desc + 1 \in Slots
  BY <1>1 DEF Slots
<1> USE DEF StartupTypeOK, shmVars, rxAtVars, txAtVars, Flags
<1>3. CASE NfCreate
  BY <1>3 DEF NfCreate, NfStartup
<1>4. CASE NfFlagRx
  BY <1>1, <1>4 DEF NfFlagRx, NfStartup
<1>5. CASE NfBufRx
  <2>1. rxd_buf' \in [Slots -> Objs]
    BY <1>1, <1>5 DEF NfBufRx
  <2> QED
    BY <1>1, <1>2, <1>5, <2>1 DEF NfBufRx, NfNextDesc, NfStartup
<1>6. CASE NfFlagTx
  BY <1>1, <1>6 DEF NfFlagTx, NfStartup
<1>7. CASE NfBufTx
  <2>1. txd_buf' \in [Slots -> Objs \cup {NoBuf}]
    BY <1>1, <1>7 DEF NfBufTx
  <2> QED
    BY <1>1, <1>2, <1>7, <2>1 DEF NfBufTx, NfNextDesc, NfStartup
<1>8. CASE NfLowerEnd
  BY <1>8 DEF NfLowerEnd, NfStartup
<1>9. CASE NfLowerStart
  BY <1>9 DEF NfLowerStart, NfStartup
<1> QED
  BY <1>3, <1>4, <1>5, <1>6, <1>7, <1>8, <1>9 DEF NfStartup

LEMMA NfInitializes ==
  ASSUME StartupTypeOK, InitializedSoFar, NfStartup
  PROVE  InitializedSoFar'
<1> USE SizesOk
<1>0. /\ nf_desc \in Slots /\ nf_desc \in 0 .. NENTRIES - 1
      /\ DOMAIN rxd_flags = Slots /\ DOMAIN rxd_buf = Slots
      /\ DOMAIN txd_flags = Slots /\ DOMAIN txd_buf = Slots
      /\ rxd_flags \in [Slots -> Flags \cup {ZERO_FLAG}] /\ rxd_buf \in [Slots -> Objs]
      /\ txd_flags \in [Slots -> Flags \cup {ZERO_FLAG}] /\ txd_buf \in [Slots -> Objs \cup {NoBuf}]
  BY DEF StartupTypeOK, Slots
<1> USE DEF InitializedSoFar, InitializedRx, InitializedTx, NfPastDescs, shmVars
<1>1. CASE NfCreate
  BY <1>0, <1>1 DEF NfCreate
<1>2. CASE NfFlagRx
  <2>1. \A s \in 0 .. nf_desc - 1 : s \in Slots /\ s # nf_desc
    BY <1>0 DEF Slots
  <2> QED
    BY <1>0, <1>2, <2>1 DEF NfFlagRx
<1>3. CASE NfBufRx
  <2>1. rxd_buf'[nf_desc] = nf_desc /\ \A s \in Slots : s # nf_desc => rxd_buf'[s] = rxd_buf[s]
    BY <1>0, <1>3 DEF NfBufRx
  <2>2. \A s \in 0 .. nf_desc : rxd_flags'[s] = AVAIL_FLAG /\ rxd_buf'[s] = s
    BY <1>0, <1>3, <2>1 DEF NfBufRx, Slots
  <2>3. UNCHANGED txd_flags /\ UNCHANGED txd_buf
    BY <1>3 DEF NfBufRx
  <2>4. CASE nf_desc + 1 < NENTRIES
    <3>1. nf_desc' = nf_desc + 1 /\ nf_at' = "flag_rx"
      BY <1>3, <2>4 DEF NfBufRx, NfNextDesc
    <3>2. InitializedRx' = 0 .. nf_desc /\ InitializedTx' = {}
      BY <1>0, <3>1
    <3> QED
      BY <2>2, <3>1, <3>2
  <2>5. CASE ~(nf_desc + 1 < NENTRIES)
    <3>1. nf_desc' = 0 /\ nf_at' = "flag_tx" /\ Slots = 0 .. nf_desc
      BY <1>0, <1>3, <2>5 DEF NfBufRx, NfNextDesc, Slots
    <3>2. InitializedRx' = 0 .. nf_desc /\ InitializedTx' = {}
      BY <3>1
    <3> QED
      BY <2>2, <3>1, <3>2
  <2> QED
    BY <2>4, <2>5
<1>4. CASE NfFlagTx
  <2>1. \A s \in 0 .. nf_desc - 1 : s \in Slots /\ s # nf_desc
    BY <1>0 DEF Slots
  <2> QED
    BY <1>0, <1>4, <2>1 DEF NfFlagTx
<1>5. CASE NfBufTx
  <2>1. txd_buf'[nf_desc] = NoBuf /\ \A s \in Slots : s # nf_desc => txd_buf'[s] = txd_buf[s]
    BY <1>0, <1>5 DEF NfBufTx
  <2>2. \A s \in 0 .. nf_desc : txd_flags'[s] = USED_FLAG /\ txd_buf'[s] = NoBuf
    BY <1>0, <1>5, <2>1 DEF NfBufTx, Slots
  <2>3. \A s \in Slots : rxd_flags'[s] = AVAIL_FLAG /\ rxd_buf'[s] = s
    BY <1>5 DEF NfBufTx
  <2>4. CASE nf_desc + 1 < NENTRIES
    <3>1. nf_desc' = nf_desc + 1 /\ nf_at' = "flag_tx"
      BY <1>5, <2>4 DEF NfBufTx, NfNextDesc
    <3>2. InitializedRx' = Slots /\ InitializedTx' = 0 .. nf_desc
      BY <1>0, <3>1
    <3> QED
      BY <2>2, <2>3, <3>1, <3>2
  <2>5. CASE ~(nf_desc + 1 < NENTRIES)
    <3>1. nf_desc' = 0 /\ nf_at' = "end_flag" /\ Slots = 0 .. nf_desc
      BY <1>0, <1>5, <2>5 DEF NfBufTx, NfNextDesc, Slots
    <3>2. InitializedRx' = Slots /\ InitializedTx' = 0 .. nf_desc
      BY <3>1
    <3> QED
      BY <2>2, <2>3, <3>1, <3>2
  <2> QED
    BY <2>4, <2>5
<1>6. CASE NfLowerEnd
  BY <1>6 DEF NfLowerEnd
<1>7. CASE NfLowerStart
  BY <1>7 DEF NfLowerStart
<1> QED
  BY <1>1, <1>2, <1>3, <1>4, <1>5, <1>6, <1>7 DEF NfStartup

\* With its descriptors behind it nf.out has prepared the segment.
LEMMA PastIsPrepared ==
  ASSUME StartupTypeOK, InitializedSoFar, NfPastDescs
  PROVE  Prepared
<1>1. InitializedRx = Slots /\ InitializedTx = Slots
  BY DEF InitializedRx, InitializedTx, NfPastDescs
<1>2. \A s \in Slots : /\ rxd_flags[s] = AVAIL_FLAG /\ rxd_buf[s] = s
                       /\ txd_flags[s] = USED_FLAG /\ txd_buf[s] = NoBuf
  BY <1>1 DEF InitializedSoFar
<1> QED
  BY <1>2 DEF StartupTypeOK, Prepared

\* Every assertion of shm.h:97-102 holds of a prepared segment.
LEMMA PreparedIsReady ==
  ASSUME Prepared, NEW d \in 0 .. 2 * NENTRIES - 1
  PROVE  DescReady(d)
<1> USE SizesOk
<1>1. CASE d < NENTRIES
  <2>1. d \in Slots /\ d # NoBuf
    BY <1>1 DEF Slots, NoBuf
  <2> QED
    BY <1>1, <2>1 DEF DescReady, Prepared
<1>2. CASE ~(d < NENTRIES)
  <2>1. d - NENTRIES \in Slots
    BY <1>2 DEF Slots
  <2> QED
    BY <1>2, <2>1 DEF DescReady, Prepared
<1> QED
  BY <1>1, <1>2

(***************************************************************************)
(* A host process that is through with its assertions (shm.h:97-102) finds *)
(* nf.out past the descriptors: launched in turn because it was, launched  *)
(* early because the last of them was written last.                        *)
(***************************************************************************)
LEMMA AssertsSuffice ==
  ASSUME StartupTypeOK, StartupInv, NEW d \in 0 .. 2 * NENTRIES - 1, NEW then,
         then \notin {"aborted", "assert"},
         staggered => nf_at = "running"
  PROVE  /\ AfterAssert(d, then) \in {"aborted", "assert", then}
         /\ AfterAssert(d, then) = then => NfPastDescs
         /\ staggered => AfterAssert(d, then) # "aborted"
         /\ AfterAssert(d, then) = "assert" => d + 1 \in 0 .. 2 * NENTRIES - 1
<1> USE SizesOk
<1>1. AfterAssert(d, then) \in {"aborted", "assert", then}
  BY DEF AfterAssert
<1>2. AfterAssert(d, then) = "assert" => d + 1 \in 0 .. 2 * NENTRIES - 1
  BY DEF AfterAssert
<1>3. staggered => NfPastDescs /\ AfterAssert(d, then) # "aborted"
  <2> SUFFICES ASSUME staggered
               PROVE  NfPastDescs /\ AfterAssert(d, then) # "aborted"
    OBVIOUS
  <2>1. NfPastDescs
    BY DEF NfPastDescs
  <2>2. DescReady(d)
    BY <2>1, PastIsPrepared, PreparedIsReady DEF StartupInv
  <2> QED
    BY <2>1, <2>2 DEF AfterAssert
<1>4. ASSUME AfterAssert(d, then) = then, ~staggered
      PROVE  NfPastDescs
  <2>1. d = 2 * NENTRIES - 1 /\ DescReady(d)
    BY <1>4 DEF AfterAssert
  <2>2. ~(d < NENTRIES) /\ d - NENTRIES = NENTRIES - 1
    BY <2>1
  <2>3. txd_buf[NENTRIES - 1] = NoBuf
    BY <2>1, <2>2 DEF DescReady
  <2> QED
    BY <1>4, <2>3 DEF StartupInv, LastDescLast
<1> QED
  BY <1>1, <1>2, <1>3, <1>4

-----------------------------------------------------------------------------
LEMMA NfPreserves ==
  ASSUME StartupTypeOK, StartupInv, NfStartup
  PROVE  StartupInv'
<1> USE SizesOk
<1>0. /\ InitializedSoFar /\ LastDescLast /\ Staggering /\ Handshake /\ RxAfterTx /\ HandshakeHolds
      /\ UNCHANGED <<staggered, rx_at, tx_at>>
  BY DEF StartupInv, NfStartup, rxAtVars, txAtVars
<1>1. InitializedSoFar'
  BY NfInitializes DEF StartupInv
<1>2. LastDescLast'
  <2>1. CASE NfBufTx
    <3> SUFFICES ASSUME ~NfPastDescs', ~staggered
                 PROVE  txd_buf'[NENTRIES - 1] # NoBuf
      BY <1>0 DEF LastDescLast
    <3>1. nf_desc + 1 < NENTRIES /\ nf_desc \in Slots
      BY <2>1 DEF NfBufTx, NfNextDesc, NfPastDescs, StartupTypeOK
    <3>2. nf_desc # NENTRIES - 1
      BY <3>1 DEF Slots
    <3>3. txd_buf'[NENTRIES - 1] = txd_buf[NENTRIES - 1]
      BY <2>1, <3>1, <3>2 DEF NfBufTx, StartupTypeOK
    <3>4. ~NfPastDescs
      BY <2>1 DEF NfBufTx, NfPastDescs
    <3> QED
      BY <1>0, <3>3, <3>4 DEF LastDescLast
  <2>2. CASE ~NfBufTx
    <3>1. UNCHANGED txd_buf /\ (NfPastDescs => NfPastDescs')
      BY <2>2 DEF NfStartup, NfCreate, NfFlagRx, NfBufRx, NfFlagTx, NfLowerEnd, NfLowerStart, NfPastDescs, shmVars
    <3> QED
      BY <1>0, <3>1 DEF LastDescLast
  <2> QED
    BY <2>1, <2>2
<1>3. nf_at # "running" /\ nf_at' # "create"
  BY DEF NfStartup, NfCreate, NfFlagRx, NfBufRx, NfFlagTx, NfBufTx, NfNextDesc, NfLowerEnd, NfLowerStart
<1>4. Staggering'
  BY <1>0, <1>3 DEF Staggering
<1>5. exists' /\ (NfPastDescs => NfPastDescs')
  BY <1>0 DEF Handshake, NfStartup, NfCreate, NfFlagRx, NfBufRx, NfFlagTx, NfBufTx, NfNextDesc,
              NfLowerEnd, NfLowerStart, NfPastDescs
<1>6. nf_at' \in {"start_flag", "running"} => ~is_end'
  BY <1>0 DEF Handshake, NfStartup, NfCreate, NfFlagRx, NfBufRx, NfFlagTx, NfBufTx, NfNextDesc,
              NfLowerEnd, NfLowerStart
<1>7. is_start' => is_start /\ nf_at' # "running"
  BY DEF NfStartup, NfCreate, NfFlagRx, NfBufRx, NfFlagTx, NfBufTx, NfNextDesc,
         NfLowerEnd, NfLowerStart, shmVars
<1>8. Handshake'
  BY <1>0, <1>3, <1>5, <1>6, <1>7 DEF Handshake
<1>9. HandshakeHolds' /\ RxAfterTx'
  BY <1>0, <1>3 DEF HandshakeHolds, RxAfterTx, Staggering
<1> QED
  BY <1>1, <1>2, <1>4, <1>8, <1>9 DEF StartupInv

\* What a step of a host process leaves alone.
LEMMA HostLeaves ==
  ASSUME RxStartup \/ TxStartup, InitializedSoFar, LastDescLast
  PROVE  /\ UNCHANGED <<staggered, nf_at, nf_desc, rxd_flags, rxd_buf, txd_flags, txd_buf, is_end, exists>>
         /\ InitializedSoFar' /\ LastDescLast' /\ NfPastDescs' = NfPastDescs
<1>1. UNCHANGED <<staggered, nf_at, nf_desc, rxd_flags, rxd_buf, txd_flags, txd_buf, is_end, exists>>
  BY DEF RxStartup, RxOpen, RxAssert, RxSpin, TxStartup, TxOpen, TxAssert, TxRaiseStart, nfAtVars, shmVars
<1> QED
  BY <1>1 DEF InitializedSoFar, InitializedRx, InitializedTx, LastDescLast, NfPastDescs

LEMMA RxPreserves ==
  ASSUME StartupTypeOK, StartupInv, RxStartup
  PROVE  StartupTypeOK' /\ StartupInv'
<1>0. /\ InitializedSoFar /\ LastDescLast /\ Staggering /\ Handshake /\ RxAfterTx /\ HandshakeHolds
      /\ UNCHANGED <<staggered, nf_at, nf_desc, rxd_flags, rxd_buf, txd_flags, txd_buf, is_end, exists>>
      /\ InitializedSoFar' /\ LastDescLast' /\ NfPastDescs' = NfPastDescs
  BY HostLeaves DEF StartupInv
<1>1. UNCHANGED <<is_start, tx_at, tx_desc>>
  BY DEF RxStartup, RxOpen, RxAssert, RxSpin, txAtVars, shmVars
<1>2. CASE RxOpen
  <2>1. rx_at = "open" /\ rx_at' = (IF exists THEN "assert" ELSE "exited") /\ rx_desc' = rx_desc
    BY <1>2 DEF RxOpen
  <2>2. staggered => nf_at = "running"
    BY <1>2 DEF RxOpen
  <2>3. StartupTypeOK'
    BY <1>0, <1>1, <2>1 DEF StartupTypeOK
  <2> QED
    BY <1>0, <1>1, <2>1, <2>2, <2>3 DEF StartupInv, Staggering, Handshake, RxAfterTx, HandshakeHolds
<1>3. CASE RxAssert
  <2>1. /\ rx_at = "assert" /\ rx_at' = AfterAssert(rx_desc, "spin")
        /\ rx_desc' = IF rx_at' = "assert" THEN rx_desc + 1 ELSE 0
    BY <1>3 DEF RxAssert
  <2>2. /\ rx_at' \in {"aborted", "assert", "spin"}
        /\ rx_at' = "spin" => NfPastDescs
        /\ staggered => rx_at' # "aborted"
        /\ rx_at' = "assert" => rx_desc + 1 \in 0 .. 2 * NENTRIES - 1
    BY <1>0, <2>1, AssertsSuffice DEF StartupTypeOK, Staggering
  <2>3. StartupTypeOK'
    <3>1. 0 \in 0 .. 2 * NENTRIES - 1
      BY SizesOk
    <3> QED
      BY <1>0, <1>1, <2>1, <2>2, <3>1 DEF StartupTypeOK
  <2> QED
    BY <1>0, <1>1, <2>1, <2>2, <2>3 DEF StartupInv, Staggering, Handshake, RxAfterTx, HandshakeHolds
<1>4. CASE RxSpin
  <2>1. rx_at = "spin" /\ rx_at' = "running" /\ rx_desc' = rx_desc /\ is_start
    BY <1>4 DEF RxSpin
  <2>2. tx_at = "running"
    BY <1>0, <2>1 DEF Handshake, Staggering
  <2>3. StartupTypeOK'
    BY <1>0, <1>1, <2>1 DEF StartupTypeOK
  <2> QED
    BY <1>0, <1>1, <2>1, <2>2, <2>3 DEF StartupInv, Staggering, Handshake, RxAfterTx, HandshakeHolds
<1> QED
  BY <1>2, <1>3, <1>4 DEF RxStartup

LEMMA TxPreserves ==
  ASSUME StartupTypeOK, StartupInv, TxStartup
  PROVE  StartupTypeOK' /\ StartupInv'
<1>0. /\ InitializedSoFar /\ LastDescLast /\ Staggering /\ Handshake /\ RxAfterTx /\ HandshakeHolds
      /\ UNCHANGED <<staggered, nf_at, nf_desc, rxd_flags, rxd_buf, txd_flags, txd_buf, is_end, exists>>
      /\ InitializedSoFar' /\ LastDescLast' /\ NfPastDescs' = NfPastDescs
  BY HostLeaves DEF StartupInv
<1>1. UNCHANGED <<rx_at, rx_desc>>
  BY DEF TxStartup, rxAtVars
<1>2. CASE TxOpen
  <2>1. /\ tx_at = "open" /\ tx_at' = (IF exists THEN "assert" ELSE "exited")
        /\ tx_desc' = tx_desc /\ is_start' = is_start
    BY <1>2 DEF TxOpen, shmVars
  <2>2. staggered => rx_at # "open" /\ nf_at = "running"
    BY <1>0, <1>2 DEF TxOpen, Staggering
  <2>3. StartupTypeOK'
    BY <1>0, <1>1, <2>1 DEF StartupTypeOK
  <2> QED
    BY <1>0, <1>1, <2>1, <2>2, <2>3 DEF StartupInv, Staggering, Handshake, RxAfterTx, HandshakeHolds
<1>3. CASE TxAssert
  <2>1. /\ tx_at = "assert" /\ tx_at' = AfterAssert(tx_desc, "raise")
        /\ tx_desc' = (IF tx_at' = "assert" THEN tx_desc + 1 ELSE 0) /\ is_start' = is_start
    BY <1>3 DEF TxAssert, shmVars
  <2>2. /\ tx_at' \in {"aborted", "assert", "raise"}
        /\ tx_at' = "raise" => NfPastDescs
        /\ staggered => tx_at' # "aborted"
        /\ tx_at' = "assert" => tx_desc + 1 \in 0 .. 2 * NENTRIES - 1
    BY <1>0, <2>1, AssertsSuffice DEF StartupTypeOK, Staggering
  <2>3. StartupTypeOK'
    <3>1. 0 \in 0 .. 2 * NENTRIES - 1
      BY SizesOk
    <3> QED
      BY <1>0, <1>1, <2>1, <2>2, <3>1 DEF StartupTypeOK
  <2> QED
    BY <1>0, <1>1, <2>1, <2>2, <2>3 DEF StartupInv, Staggering, Handshake, RxAfterTx, HandshakeHolds
<1>4. CASE TxRaiseStart
  <2>1. tx_at = "raise" /\ tx_at' = "running" /\ tx_desc' = tx_desc /\ is_start' = TRUE
    BY <1>4 DEF TxRaiseStart
  <2>2. StartupTypeOK'
    BY <1>0, <1>1, <2>1 DEF StartupTypeOK
  <2> QED
    BY <1>0, <1>1, <2>1, <2>2 DEF StartupInv, Staggering, Handshake, RxAfterTx, HandshakeHolds
<1> QED
  BY <1>2, <1>3, <1>4 DEF TxStartup

LEMMA StartupStep ==
  StartupTypeOK /\ StartupInv /\ [StartupNext]_startupVars => StartupTypeOK' /\ StartupInv'
<1> SUFFICES ASSUME StartupTypeOK, StartupInv, [StartupNext]_startupVars
             PROVE  StartupTypeOK' /\ StartupInv'
  OBVIOUS
<1>1. CASE NfStartup
  BY <1>1, NfTypes, NfPreserves
<1>2. CASE RxStartup
  BY <1>2, RxPreserves
<1>3. CASE TxStartup
  BY <1>3, TxPreserves
<1>4. CASE UNCHANGED startupVars
  <2>1. UNCHANGED <<staggered, exists, nf_at, nf_desc, rx_at, rx_desc, tx_at, tx_desc, rxd_flags,
                    rxd_buf, txd_flags, txd_buf, is_start, is_end>>
    BY <1>4 DEF startupVars, shmVars, nfAtVars, rxAtVars, txAtVars
  <2>2. StartupTypeOK'
    BY <2>1 DEF StartupTypeOK
  <2>3. StartupInv'
    BY <2>1 DEF StartupInv, InitializedSoFar, InitializedRx, InitializedTx, NfPastDescs, LastDescLast,
                Staggering, Handshake, RxAfterTx, HandshakeHolds
  <2> QED
    BY <2>2, <2>3
<1> QED
  BY <1>1, <1>2, <1>3, <1>4 DEF StartupNext

(***************************************************************************)
(* The type of everything in the segment and of the three program points.  *)
(***************************************************************************)
THEOREM StartupTyped == StartupSpec => []StartupTypeOK
BY TypeInit, InvInit, StartupStep, PTL DEF StartupSpec

(***************************************************************************)
(* How far each process can be, given how far the others are, for every    *)
(* queue size, every left segment and any launch times on a new one.       *)
(***************************************************************************)
THEOREM StartupInvariant == StartupSpec => []StartupInv
BY TypeInit, InvInit, StartupStep, PTL DEF StartupSpec

(***************************************************************************)
(* The loops start on the descriptors of this session's nf.out.            *)
(***************************************************************************)
THEOREM LoopsPrepared == StartupSpec => []LoopsFindPrepared
<1>1. StartupTypeOK /\ StartupInv => LoopsFindPrepared
  <2> SUFFICES ASSUME StartupTypeOK, StartupInv, staggered, rx_at = "running" \/ tx_at = "running"
               PROVE  Prepared /\ ~is_end /\ nf_at = "running"
    BY DEF LoopsFindPrepared
  <2>1. nf_at = "running"
    BY DEF StartupInv, Staggering
  <2>2. Prepared
    BY <2>1, PastIsPrepared DEF NfPastDescs, StartupInv
  <2> QED
    BY <2>1, <2>2 DEF StartupInv, Handshake
<1> QED
  BY <1>1, StartupTyped, StartupInvariant, PTL

(***************************************************************************)
(* The assertions of shm.h:97-102 keep a host that is early out of its     *)
(* loop.                                                                   *)
(***************************************************************************)
THEOREM AssertsGuard == StartupSpec => []AssertsGuardLoops
<1>1. StartupTypeOK /\ StartupInv => AssertsGuardLoops
  BY PastIsPrepared DEF StartupInv, Handshake, AssertsGuardLoops
<1> QED
  BY <1>1, StartupTyped, StartupInvariant, PTL

(***************************************************************************)
(* rx.out generates nothing before tx.out has raised the start flag        *)
(* (rx.c:78).                                                              *)
(***************************************************************************)
THEOREM RxWaitsForTx == StartupSpec => []RxAfterTx
<1>1. StartupInv => RxAfterTx
  BY DEF StartupInv
<1> QED
  BY <1>1, StartupInvariant, PTL

(***************************************************************************)
(* Launched in turn, nobody stops and the start flag is not lost.          *)
(***************************************************************************)
THEOREM HandshakeIsSafe == StartupSpec => []HandshakeHolds
<1>1. StartupInv => HandshakeHolds
  BY DEF StartupInv
<1> QED
  BY <1>1, StartupInvariant, PTL
-----------------------------------------------------------------------------
\* The command lines: processes in their loops together have the same --vqsz.
States == {"absent", "loop", "aborted", "exited"}

OptTypes ==
  /\ at \in [Processes -> States]
  /\ opt \in [Processes -> [vq_size: Nat, batch_size: Nat]]
  /\ \A p \in Processes : at[p] = "loop" => opt[p].vq_size > 0

(***************************************************************************)
(* Once traffic has changed the descriptors nothing ties a process to      *)
(* them any more, but then all are in their loops and nobody can join.     *)
(***************************************************************************)
Joined ==
  \/ \A p \in Processes : at[p] = "loop"
  \/ \A p \in Processes : at[p] = "loop" => Asserted(descs, opt[p].vq_size)

OptIInv ==
  /\ OptTypes
  /\ at["nf"] = "absent" => \A p \in Processes : at[p] # "loop"
  /\ Joined
  /\ QueueSizesAgree

(***************************************************************************)
(* initialized_shm_assert (shm.h:95) holds for one size only: with a       *)
(* larger one it would find the first TX descriptor, which is used, among  *)
(* the RX descriptors, which are available.                                *)
(***************************************************************************)
LEMMA OneSize ==
  ASSUME NEW ds, NEW v \in Nat \ {0}, NEW w \in Nat \ {0}, Asserted(ds, v), Asserted(ds, w)
  PROVE  v = w
<1>1. ASSUME NEW a \in Nat \ {0}, NEW b \in Nat \ {0}, a < b, Asserted(ds, a), Asserted(ds, b)
      PROVE  FALSE
  <2>1. a \in Txd(a, a) /\ a \in Rxd(b, b)
    BY <1>1 DEF Txd, Rxd
  <2>2. ds[a] = EMPTY /\ ds[a] = [flags |-> "AVAIL", buf |-> TRUE]
    BY <1>1, <2>1 DEF Asserted
  <2> QED
    BY <2>2 DEF EMPTY
<1>2. ~(v < w) /\ ~(w < v)
  BY <1>1
<1> QED
  BY <1>2

LEMMA OptInitInv == OptInit => OptIInv
BY DEF OptInit, OptIInv, OptTypes, Joined, QueueSizesAgree, NoOpt, States

LEMMA ParsedType ==
  ASSUME NEW o \in Parsed
  PROVE  o \in [vq_size: Nat, batch_size: Nat] /\ o.vq_size > 0
<1>1. VQ_MIN \in Nat \ {0} /\ VQ_SIZES \subseteq Nat /\ BATCH_SIZES \subseteq Nat
  BY OptionsAssumption
<1>2. /\ o \in [vq_size: VQ_SIZES, batch_size: BATCH_SIZES]
      /\ o.vq_size >= VQ_MIN
  BY DEF Parsed
<1>3. o.vq_size \in Nat /\ o.batch_size \in Nat
  BY <1>1, <1>2
<1> QED
  BY <1>1, <1>2, <1>3

LEMMA NfLaunchInv ==
  ASSUME OptIInv, NEW o \in Parsed, NfLaunch(o)
  PROVE  OptIInv'
<1> DEFINE ds == Initialized(descs, o.vq_size)
           st == IF NEntries(o.vq_size) > PKTBUF_NUM THEN "exited"
                 ELSE IF Asserted(ds, o.vq_size) /\ Sane(o) THEN "loop" ELSE "aborted"
<1>1. /\ \A p \in Processes : at[p] # "loop"
      /\ at' = [at EXCEPT !["nf"] = st]
      /\ opt' = [opt EXCEPT !["nf"] = o]
      /\ descs' = ds
  BY DEF OptIInv, NfLaunch
<1>2. /\ st \in States
      /\ st # "absent"
      /\ st = "loop" => Asserted(ds, o.vq_size)
  BY DEF States
<1> HIDE DEF ds, st
<1>3. OptTypes'
  BY <1>1, <1>2, ParsedType DEF OptIInv, OptTypes, Processes
<1>4. at'["nf"] # "absent" /\ \A p \in Processes : at'[p] = "loop" => p = "nf"
  BY <1>1, <1>2 DEF OptIInv, OptTypes, Processes
<1>5. at'["nf"] = "loop" => Asserted(descs', opt'["nf"].vq_size)
  BY <1>1, <1>2 DEF OptIInv, OptTypes, Processes
<1>6. Joined'
  BY <1>4, <1>5 DEF Joined, Asserted
<1> QED
  BY <1>3, <1>4, <1>6 DEF OptIInv, QueueSizesAgree

LEMMA HostLaunchInv ==
  ASSUME OptIInv, NEW o \in Parsed, NEW h \in Hosts, HostLaunch(h, o)
  PROVE  OptIInv'
<1> DEFINE st == IF Asserted(descs, o.vq_size) THEN "loop" ELSE "aborted"
<1>1. /\ at["nf"] # "absent" /\ at[h] = "absent" /\ h # "nf" /\ h \in Processes
      /\ at' = [at EXCEPT ![h] = st]
      /\ opt' = [opt EXCEPT ![h] = o]
      /\ descs' = descs
  BY DEF HostLaunch, Hosts, Processes
<1>2. st \in States /\ (st = "loop" => Asserted(descs, o.vq_size))
  BY DEF States
<1> HIDE DEF st
<1>3. \A p \in Processes : at[p] = "loop" => Asserted(descs, opt[p].vq_size)
  BY <1>1 DEF OptIInv, Joined
<1>4. OptTypes'
  BY <1>1, <1>2, ParsedType DEF OptIInv, OptTypes
<1>5. \A p \in Processes : at'[p] = "loop" => Asserted(descs, opt'[p].vq_size)
  BY <1>1, <1>2, <1>3 DEF OptIInv, OptTypes
<1>6. Joined'
  BY <1>1, <1>5 DEF Joined, Asserted
<1>7. QueueSizesAgree'
  BY <1>4, <1>5, OneSize DEF QueueSizesAgree, OptTypes
<1>8. at'["nf"] # "absent"
  BY <1>1 DEF OptIInv, OptTypes, Processes
<1> QED
  BY <1>4, <1>6, <1>7, <1>8 DEF OptIInv

(***************************************************************************)
(* Every step preserves the invariant.                                     *)
(***************************************************************************)
LEMMA OptNextInv == OptIInv /\ [OptNext]_optVars => OptIInv'
<1> SUFFICES ASSUME OptIInv, [OptNext]_optVars
             PROVE  OptIInv'
  OBVIOUS
<1>1. CASE \E o \in Parsed : NfLaunch(o)
  BY <1>1, NfLaunchInv
<1>2. CASE \E o \in Parsed : \E p \in Hosts : HostLaunch(p, o)
  BY <1>2, HostLaunchInv
<1>3. CASE Traffic
  <2>1. (\A p \in Processes : at[p] = "loop") /\ UNCHANGED <<opt, at>>
    BY <1>3 DEF Traffic
  <2> QED
    BY <2>1 DEF OptIInv, OptTypes, Joined, QueueSizesAgree
<1>4. CASE KillAll
  <2>1. at' = [p \in Processes |-> "absent"] /\ opt' = [p \in Processes |-> NoOpt]
    BY <1>4 DEF KillAll
  <2> QED
    BY <2>1 DEF OptIInv, OptTypes, Joined, QueueSizesAgree, NoOpt, States
<1>5. CASE UNCHANGED optVars
  BY <1>5 DEF optVars, OptIInv, OptTypes, Joined, QueueSizesAgree, Asserted
<1> QED
  BY <1>1, <1>2, <1>3, <1>4, <1>5 DEF OptNext

(***************************************************************************)
(* What SizesFit rests on: no descriptor behind the guest's pool is        *)
(* ever available, so the loop of initialized_shm_assert over a size that  *)
(* does not fit into 16 bits finds one that is not.                        *)
(***************************************************************************)
AvailBounded == \A d \in Descs : descs[d].flags = "AVAIL" => d <= PKTBUF_NUM

Narrow(p) == at[p] = "loop" => opt[p].vq_size < UINT16

WidthInv ==
  /\ OptIInv
  /\ AvailBounded
  /\ \A p \in Processes : at[p] = "loop" => opt[p].vq_size \in VQ_SIZES /\ Narrow(p)
  /\ at["nf"] = "loop" => opt["nf"].batch_size <= opt["nf"].vq_size

LEMMA DescsBound ==
  ASSUME NEW v \in VQ_SIZES
  PROVE  \A d \in Nat : d < 2 * v => d \in Descs
<1>1. VQ_SIZES \subseteq Nat /\ \E m \in VQ_SIZES : \A w \in VQ_SIZES : w <= m
  BY OptionsAssumption
<1>2. Largest \in VQ_SIZES /\ \A w \in VQ_SIZES : w <= Largest
  BY <1>1 DEF Largest
<1>3. v \in Nat /\ Largest \in Nat /\ v <= Largest
  BY <1>1, <1>2
<1> QED
  BY <1>3 DEF Descs

(***************************************************************************)
(* A size that has been asserted fits (shm.h:95).                          *)
(***************************************************************************)
LEMMA AssertedIsNarrow ==
  ASSUME NEW ds, NEW v \in VQ_SIZES, v > 0, Asserted(ds, v),
         \A d \in Descs : ds[d].flags = "AVAIL" => d <= PKTBUF_NUM
  PROVE  v < UINT16
<1>1. v \in Nat /\ UINT16 \in Nat /\ PKTBUF_NUM \in Nat /\ PKTBUF_NUM <= UINT16 - 2
  BY OptionsAssumption
<1>2. v - 1 \in Nat /\ v - 1 \in Descs
  BY <1>1, DescsBound
<1>3. v - 1 \in Rxd(v, v)
  BY <1>1 DEF Rxd
<1>4. ds[v - 1].flags = "AVAIL"
  BY <1>3 DEF Asserted
<1> QED
  BY <1>1, <1>2, <1>4

LEMMA InitializedBounded ==
  ASSUME NEW v \in Nat, AvailBounded
  PROVE  \A d \in Descs : Initialized(descs, v)[d].flags = "AVAIL" => d <= PKTBUF_NUM
<1> SUFFICES ASSUME NEW d \in Descs, Initialized(descs, v)[d].flags = "AVAIL"
             PROVE  d <= PKTBUF_NUM
  OBVIOUS
<1> DEFINE n == NEntries(v)
<1> HIDE DEF n
<1>1. Initialized(descs, v)[d] =
         IF n <= PKTBUF_NUM /\ d \in Txd(v, n) THEN EMPTY
         ELSE IF d \in Rxd(v, n) /\ d <= PKTBUF_NUM
           THEN [flags |-> "AVAIL", buf |-> IF d < PKTBUF_NUM THEN TRUE ELSE descs[d].buf]
         ELSE descs[d]
  BY DEF Initialized, n
<1>2. CASE n <= PKTBUF_NUM /\ d \in Txd(v, n)
  BY <1>1, <1>2 DEF EMPTY
<1>3. CASE ~(n <= PKTBUF_NUM /\ d \in Txd(v, n)) /\ d \in Rxd(v, n) /\ d <= PKTBUF_NUM
  BY <1>3
<1>4. CASE ~(n <= PKTBUF_NUM /\ d \in Txd(v, n)) /\ ~(d \in Rxd(v, n) /\ d <= PKTBUF_NUM)
  BY <1>1, <1>4 DEF AvailBounded
<1> QED
  BY <1>2, <1>3, <1>4

LEMMA TrafficBounded ==
  ASSUME OptTypes, AvailBounded, Traffic
  PROVE  AvailBounded'
<1> SUFFICES ASSUME NEW d \in Descs, descs'[d].flags = "AVAIL"
             PROVE  d <= PKTBUF_NUM
  BY DEF AvailBounded, Descs, Largest
<1> DEFINE v == opt["nf"].vq_size
<1>1. v \in Nat /\ PKTBUF_NUM \in Nat /\ d \in Int
  BY OptionsAssumption DEF OptTypes, Processes, Descs
<1> HIDE DEF v
<1>2. PICK used \in {0, 1, v}, carrying \in {0, 1, v}, flags \in {"AVAIL", "USED"} :
        /\ v + carrying <= PKTBUF_NUM
        /\ descs' = [x \in Descs |->
                       IF x < v
                         THEN [flags |-> IF x < used THEN "USED" ELSE "AVAIL", buf |-> TRUE]
                       ELSE IF x < v + carrying THEN [flags |-> flags, buf |-> TRUE]
                       ELSE descs[x]]
  BY DEF Traffic, v
<1>3. carrying \in Nat
  BY <1>1
<1>4. CASE d < v \/ d < v + carrying
  BY <1>1, <1>2, <1>3, <1>4
<1>5. CASE ~(d < v) /\ ~(d < v + carrying)
  <2>1. descs'[d] = descs[d]
    BY <1>2, <1>5
  <2> QED
    BY <2>1 DEF AvailBounded
<1> QED
  BY <1>4, <1>5

LEMMA WidthInitInv == OptInit => WidthInv
<1> SUFFICES ASSUME OptInit
             PROVE  WidthInv
  OBVIOUS
<1>1. AvailBounded
  BY DEF OptInit, AvailBounded, ZERO
<1>2. \A p \in Processes : at[p] # "loop"
  BY DEF OptInit
<1> QED
  BY <1>1, <1>2, OptInitInv DEF WidthInv, Narrow, Processes

LEMMA WidthNextInv == WidthInv /\ [OptNext]_optVars => WidthInv'
<1> SUFFICES ASSUME WidthInv, [OptNext]_optVars
             PROVE  WidthInv'
  OBVIOUS
<1>0. OptIInv /\ OptIInv' /\ OptTypes /\ AvailBounded
  BY OptNextInv DEF WidthInv, OptIInv
<1>1. ASSUME NEW o \in Parsed, NfLaunch(o)
      PROVE  WidthInv'
  <2> DEFINE ds == Initialized(descs, o.vq_size)
             st == IF NEntries(o.vq_size) > PKTBUF_NUM THEN "exited"
                   ELSE IF Asserted(ds, o.vq_size) /\ Sane(o) THEN "loop" ELSE "aborted"
  <2>1. /\ at' = [at EXCEPT !["nf"] = st]
        /\ opt' = [opt EXCEPT !["nf"] = o]
        /\ descs' = ds
        /\ \A p \in Processes : at[p] # "loop"
        /\ st = "loop" => Asserted(ds, o.vq_size) /\ Sane(o)
    BY <1>0, <1>1 DEF NfLaunch, OptIInv
  <2>2. o.vq_size \in VQ_SIZES /\ o.vq_size \in Nat /\ o.vq_size > 0
    BY ParsedType DEF Parsed
  <2> HIDE DEF ds, st
  <2>3. AvailBounded'
    BY <1>0, <2>1, <2>2, InitializedBounded DEF AvailBounded, Descs, Largest, ds
  <2>4. \A p \in Processes : at'[p] = "loop" => p = "nf" /\ st = "loop" /\ opt'[p] = o
    BY <1>0, <2>1 DEF OptTypes, Processes
  <2>5. st = "loop" => o.vq_size < UINT16 /\ o.batch_size <= o.vq_size
    BY <2>1, <2>2, <2>3, AssertedIsNarrow DEF AvailBounded, Descs, Largest, Sane
  <2> QED
    BY <1>0, <2>2, <2>3, <2>4, <2>5 DEF WidthInv, Narrow, Processes
<1>2. ASSUME NEW o \in Parsed, NEW h \in Hosts, HostLaunch(h, o)
      PROVE  WidthInv'
  <2>1. /\ h # "nf" /\ h \in Processes /\ descs' = descs
        /\ at' = [at EXCEPT ![h] = IF Asserted(descs, o.vq_size) THEN "loop" ELSE "aborted"]
        /\ opt' = [opt EXCEPT ![h] = o]
    BY <1>2 DEF HostLaunch, Hosts, Processes
  <2>2. o.vq_size \in VQ_SIZES /\ o.vq_size \in Nat /\ o.vq_size > 0
    BY ParsedType DEF Parsed
  <2>3. AvailBounded'
    BY <1>0, <2>1 DEF AvailBounded, Descs, Largest
  <2>4. at'[h] = "loop" => o.vq_size < UINT16
    BY <1>0, <2>1, <2>2, AssertedIsNarrow DEF AvailBounded, OptTypes
  <2>5. opt'[h] = o /\ \A p \in Processes : p # h => at'[p] = at[p] /\ opt'[p] = opt[p]
    BY <1>0, <2>1 DEF OptTypes
  <2> QED
    BY <1>0, <2>1, <2>2, <2>3, <2>4, <2>5 DEF WidthInv, Narrow, Processes
<1>3. CASE Traffic
  <2>1. UNCHANGED <<opt, at>>
    BY <1>3 DEF Traffic
  <2> QED
    BY <1>0, <1>3, <2>1, TrafficBounded DEF WidthInv, Narrow
<1>4. CASE KillAll
  <2>1. at' = [p \in Processes |-> "absent"] /\ descs' = descs
    BY <1>4 DEF KillAll
  <2> QED
    BY <1>0, <2>1 DEF WidthInv, Narrow, AvailBounded, Descs, Largest, Processes
<1>5. CASE UNCHANGED optVars
  BY <1>0, <1>5 DEF optVars, WidthInv, Narrow, AvailBounded, Descs, Largest
<1> QED
  BY <1>1, <1>2, <1>3, <1>4, <1>5 DEF OptNext

(***************************************************************************)
(* No --vqsz that struct vioqueue narrows gets past the assertions of any  *)
(* of the three programs, on a segment of any history (shm.h:95,           *)
(* vioqueue.h:25), and no --batchsz past those of nf.out, which covers a   *)
(* host as far as it is given no larger one (nf.c:107-110).                *)
(***************************************************************************)
THEOREM SizesFit == OptSpec => []AssertedSizesFit
<1>1. WidthInv => AssertedSizesFit
  <2> SUFFICES ASSUME WidthInv
               PROVE  AssertedSizesFit
    OBVIOUS
  <2>1. \A x \in Nat : x < UINT16 => x % UINT16 = x
    BY OptionsAssumption
  <2>2. UINT16 \in Nat /\ \A p \in Processes : opt[p].vq_size \in Nat /\ opt[p].batch_size \in Nat
    BY OptionsAssumption DEF WidthInv, OptIInv, OptTypes
  <2>3. \A p \in Processes : at[p] = "loop" => opt[p].vq_size < UINT16
    BY <2>2 DEF WidthInv, Narrow
  <2>4. ASSUME at["nf"] = "loop", NEW p \in Processes, opt[p].batch_size <= opt["nf"].batch_size
        PROVE  opt[p].batch_size < UINT16
    BY <2>2, <2>3, <2>4 DEF WidthInv, Processes
  <2> QED
    BY <2>1, <2>2, <2>3, <2>4 DEF AssertedSizesFit, NEntries
<1> QED
  BY <1>1, WidthInitInv, WidthNextInv, PTL DEF OptSpec

(***************************************************************************)
(* The descriptors tell the sizes: no process that found another --vqsz    *)
(* than the others gets past its assertions (shm.h:95-103).                *)
(***************************************************************************)
THEOREM SizesAgree == OptSpec => []QueueSizesAgree
<1>1. OptIInv => QueueSizesAgree
  BY DEF OptIInv
<1> QED
  BY <1>1, OptInitInv, OptNextInv, PTL DEF OptSpec
-----------------------------------------------------------------------------
AllAbsent == at["nf"] = "absent" => \A p \in Processes : at[p] = "absent"

StartInv == OptIInv /\ AllAbsent /\ StartsAgain

(***************************************************************************)
(* init_descs_rx and init_descs_tx leave what initialized_shm_assert asks  *)
(* for, whatever was in the segment.                                       *)
(***************************************************************************)
LEMMA InitializedAsserted ==
  ASSUME NEW v \in VQ_SIZES, v > 0, v <= PKTBUF_NUM
  PROVE  NEntries(v) = v /\ Asserted(Initialized(descs, v), v)
<1>1. v \in Nat /\ PKTBUF_NUM \in Nat /\ UINT16 \in Nat \ {0} /\ v < UINT16
  BY OptionsAssumption
<1>2. NEntries(v) = v
  BY <1>1 DEF NEntries
<1>3. \A d \in Descs : Initialized(descs, v)[d] =
         IF v <= PKTBUF_NUM /\ d \in Txd(v, v) THEN EMPTY
         ELSE IF d \in Rxd(v, v) /\ d <= PKTBUF_NUM
           THEN [flags |-> "AVAIL", buf |-> IF d < PKTBUF_NUM THEN TRUE ELSE descs[d].buf]
         ELSE descs[d]
  BY <1>2 DEF Initialized
<1>4. \A d \in Rxd(v, v) : Initialized(descs, v)[d] = [flags |-> "AVAIL", buf |-> TRUE]
  <2> SUFFICES ASSUME NEW d \in Rxd(v, v)
               PROVE  Initialized(descs, v)[d] = [flags |-> "AVAIL", buf |-> TRUE]
    OBVIOUS
  <2>1. d \in Descs /\ d \notin Txd(v, v) /\ d < PKTBUF_NUM /\ d <= PKTBUF_NUM
    BY <1>1, DescsBound DEF Rxd, Txd
  <2> QED
    BY <1>3, <2>1
<1>5. \A d \in Txd(v, v) : Initialized(descs, v)[d] = EMPTY
  <2> SUFFICES ASSUME NEW d \in Txd(v, v)
               PROVE  Initialized(descs, v)[d] = EMPTY
    OBVIOUS
  <2>1. d \in Descs
    BY <1>1, DescsBound DEF Txd
  <2> QED
    BY <1>3, <2>1
<1> QED
  BY <1>2, <1>4, <1>5 DEF Asserted

LEMMA StartInitInv == OptInit => StartInv
<1> SUFFICES ASSUME OptInit
             PROVE  StartInv
  OBVIOUS
<1>1. \A p \in Processes : at[p] = "absent"
  BY DEF OptInit
<1> QED
  BY <1>1, OptInitInv DEF StartInv, AllAbsent, StartsAgain

LEMMA StartNextInv == StartInv /\ [OptNext]_optVars => StartInv'
<1> SUFFICES ASSUME StartInv, [OptNext]_optVars
             PROVE  AllAbsent' /\ StartsAgain'
  BY OptNextInv DEF StartInv
<1>0. OptTypes /\ Joined /\ AllAbsent /\ StartsAgain
  BY DEF StartInv, OptIInv
<1>1. ASSUME NEW o \in Parsed, NfLaunch(o)
      PROVE  AllAbsent' /\ StartsAgain'
  <2> DEFINE ds == Initialized(descs, o.vq_size)
             st == IF NEntries(o.vq_size) > PKTBUF_NUM THEN "exited"
                   ELSE IF Asserted(ds, o.vq_size) /\ Sane(o) THEN "loop" ELSE "aborted"
  <2>1. /\ at' = [at EXCEPT !["nf"] = st]
        /\ opt' = [opt EXCEPT !["nf"] = o]
        /\ \A p \in Processes : at[p] = "absent"
    BY <1>0, <1>1 DEF NfLaunch, AllAbsent
  <2>2. o.vq_size \in VQ_SIZES /\ o.vq_size \in Nat /\ o.vq_size > 0
    BY ParsedType DEF Parsed
  <2>3. Sane(o) /\ o.vq_size <= PKTBUF_NUM => st = "loop"
    <3>1. PKTBUF_NUM \in Nat
      BY OptionsAssumption
    <3> QED
      BY <2>2, <3>1, InitializedAsserted
  <2>4. st # "absent"
    OBVIOUS
  <2> HIDE DEF ds, st
  <2>5. /\ at'["nf"] = st /\ opt'["nf"] = o
        /\ \A p \in Processes : at'[p] # "absent" => p = "nf"
    BY <1>0, <2>1 DEF OptTypes, Processes
  <2> QED
    BY <2>3, <2>4, <2>5 DEF AllAbsent, StartsAgain, Processes
<1>2. ASSUME NEW o \in Parsed, NEW h \in Hosts, HostLaunch(h, o)
      PROVE  AllAbsent' /\ StartsAgain'
  <2>1. /\ h # "nf" /\ h \in Processes /\ at["nf"] # "absent" /\ at[h] = "absent"
        /\ at' = [at EXCEPT ![h] = IF Asserted(descs, o.vq_size) THEN "loop" ELSE "aborted"]
        /\ opt' = [opt EXCEPT ![h] = o]
    BY <1>2 DEF HostLaunch, Hosts, Processes
  <2>2. /\ opt'[h] = o /\ at'[h] # "absent"
        /\ at'[h] = "loop" <=> Asserted(descs, o.vq_size)
        /\ \A p \in Processes : p # h => at'[p] = at[p] /\ opt'[p] = opt[p]
    BY <1>0, <2>1 DEF OptTypes
  <2>3. AllAbsent'
    BY <2>1, <2>2 DEF AllAbsent, Processes
  <2>4. StartsAgain'
    <3> SUFFICES ASSUME \A p, q \in Processes :
                          at'[p] # "absent" /\ at'[q] # "absent" => opt'[p].vq_size = opt'[q].vq_size,
                        \A p \in Processes :
                          at'[p] # "absent" => Sane(opt'[p]) /\ opt'[p].vq_size <= PKTBUF_NUM
                 PROVE  \A p \in Processes : at'[p] # "absent" => at'[p] = "loop"
      BY DEF StartsAgain, Sane
    <3>1. \A p \in Processes : at[p] # "absent" => p # h
      BY <2>1
    <3>2. \A p \in Processes : at[p] # "absent" => at[p] = "loop"
      BY <1>0, <2>2, <3>1 DEF StartsAgain
    <3>3. at["nf"] = "loop" /\ opt["nf"].vq_size = o.vq_size
      BY <2>1, <2>2, <3>2 DEF Processes
    <3>4. Asserted(descs, o.vq_size)
      BY <1>0, <2>1, <3>3 DEF Joined, Processes
    <3> QED
      BY <2>2, <3>2, <3>4
  <2> QED
    BY <2>3, <2>4
<1>3. CASE Traffic
  <2>1. UNCHANGED <<opt, at>>
    BY <1>3 DEF Traffic
  <2> QED
    BY <1>0, <2>1 DEF AllAbsent, StartsAgain, Sane
<1>4. CASE KillAll
  <2>1. \A p \in Processes : at'[p] = "absent"
    BY <1>4 DEF KillAll
  <2> QED
    BY <2>1 DEF AllAbsent, StartsAgain
<1>5. CASE UNCHANGED optVars
  BY <1>0, <1>5 DEF optVars, AllAbsent, StartsAgain, Sane
<1> QED
  BY <1>1, <1>2, <1>3, <1>4, <1>5 DEF OptNext

(***************************************************************************)
(* A session whose options are right starts on whatever segment it finds   *)
(* (nf.c:29, nf.c:43-70, shm.h:95).                                        *)
(***************************************************************************)
THEOREM AlwaysStarts == OptSpec => []StartsAgain
<1>1. StartInv => StartsAgain
  BY DEF StartInv
<1> QED
  BY <1>1, StartInitInv, StartNextInv, PTL DEF OptSpec
=============================================================================
