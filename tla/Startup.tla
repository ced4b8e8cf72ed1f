------------------------------ MODULE Startup -------------------------------
(***************************************************************************)
(* How the three processes meet, before their I/O loops: nf.out creates    *)
(* the segment (src/nf.c), initializes the descriptors of both queues and  *)
(* lowers the flags; rx.out and tx.out open it, assert that the            *)
(* descriptors are initialized (shm.h:80), and tx.out raises the start     *)
(* flag that rx.out spins on.  Nothing but the order in which run.sh       *)
(* launches them, one second apart, keeps them from doing so too early.    *)
(*                                                                         *)
(* Both are here: staggered launches, on a new segment or on one that an   *)
(* earlier session has left behind, and launches at any time on a new one. *)
(*                                                                         *)
(* The I/O loops are what Pipeline describes; here they are one state,     *)
(* "running", and the session ends when all three have reached it.         *)
(***************************************************************************)
EXTENDS Shm

VARIABLES
  staggered,           \* run.sh: each process is launched when the one before it is up
  exists,              \* SHM_NAME names a segment
  nf_at, nf_desc,      \* nf.out: program point, next descriptor to initialize
  rx_at, rx_desc,      \* rx.out: program point, next descriptor to assert
  tx_at, tx_desc       \* tx.out: the same

nfAtVars    == <<nf_at, nf_desc>>
rxAtVars    == <<rx_at, rx_desc>>
txAtVars    == <<tx_at, tx_desc>>
startupVars == <<staggered, shmVars, exists, nfAtVars, rxAtVars, txAtVars>>

ZERO_FLAG == "ZERO"     \* the flag word of a segment nobody has written yet

\* A new segment is filled with zeros: no flag set and index 0 everywhere.
ZeroSegment ==
  /\ rxd_flags = [s \in Slots |-> ZERO_FLAG] /\ rxd_buf = [s \in Slots |-> 0]
  /\ txd_flags = [s \in Slots |-> ZERO_FLAG] /\ txd_buf = [s \in Slots |-> 0]
  /\ is_start = FALSE /\ is_end = FALSE

\* The flags of a queue that an interrupted session leaves behind.
LeftFlags == {[s \in Slots |-> IF s \in Window(h, a) THEN AVAIL_FLAG ELSE USED_FLAG] :
                h \in Slots, a \in 0 .. NENTRIES}

\* The buffers it leaves in them, no two descriptors of a queue with the same.
LeftBufs == {f \in [Slots -> Objs] : \A s, t \in Slots : f[s] = f[t] => s = t}

\* nf.out unlinks the segment when it ends (nf.c:154-163), not when it is killed.
\* A TX descriptor that it has not come to yet is empty, and was never AVAIL.
LeftSegment ==
  /\ rxd_flags \in LeftFlags /\ rxd_buf \in LeftBufs
  /\ txd_flags \in LeftFlags
  /\ txd_buf \in {[s \in Slots |-> IF s < n THEN f[s] ELSE NoBuf] : f \in LeftBufs, n \in 0 .. NENTRIES}
  /\ \A s \in Slots : txd_flags[s] = AVAIL_FLAG => txd_buf[s] # NoBuf
  /\ is_start \in BOOLEAN /\ is_end \in BOOLEAN

StartupInit ==
  /\ \/ exists = FALSE /\ ZeroSegment /\ staggered \in BOOLEAN
     \/ exists = TRUE /\ LeftSegment /\ staggered = TRUE
  /\ pktmem = [b \in Objs |-> 0]
  /\ nf_at = "create" /\ nf_desc = 0
  /\ rx_at = "open" /\ rx_desc = 0
  /\ tx_at = "open" /\ tx_desc = 0
-----------------------------------------------------------------------------
(***************************************************************************)
(* nf.out.  O_CREAT without O_TRUNC: a segment that exists is taken over   *)
(* with its contents.  The assertions that nf.out makes of its own         *)
(* descriptors before it lowers the flags (nf.c:107) are left out: nobody  *)
(* else writes descriptors before the I/O loops.                           *)
(***************************************************************************)
NfCreate ==
  /\ nf_at = "create"
  /\ exists' = TRUE
  /\ nf_at' = "flag_rx"
  /\ UNCHANGED <<nf_desc, shmVars>>

\* Mutant: i <= nentries.
NfNextDescPast(loop, then) ==
  IF nf_desc < NENTRIES
    THEN nf_desc' = nf_desc + 1 /\ nf_at' = loop
    ELSE nf_desc' = 0 /\ nf_at' = then

\* The next iteration of init_descs_rx or init_descs_tx.
NfNextDesc(loop, then) ==
  IF nf_desc + 1 < NENTRIES
    THEN nf_desc' = nf_desc + 1 /\ nf_at' = loop
    ELSE nf_desc' = 0 /\ nf_at' = then

\* The flag of a descriptor is up before its index is there.
NfFlagRx ==
  /\ nf_at = "flag_rx"
  /\ rxd_flags' = [rxd_flags EXCEPT ![nf_desc] = AVAIL_FLAG]
  /\ nf_at' = "buf_rx"
  /\ UNCHANGED <<nf_desc, rxd_buf, txd_flags, txd_buf, pktmem, is_start, is_end, exists>>

NfBufRx ==
  /\ nf_at = "buf_rx"
  /\ rxd_buf' = [rxd_buf EXCEPT ![nf_desc] = nf_desc]
  /\ NfNextDesc("flag_rx", "flag_tx")
  /\ UNCHANGED <<rxd_flags, txd_flags, txd_buf, pktmem, is_start, is_end, exists>>

NfFlagTx ==
  /\ nf_at = "flag_tx"
  /\ txd_flags' = [txd_flags EXCEPT ![nf_desc] = USED_FLAG]
  /\ nf_at' = "buf_tx"
  /\ UNCHANGED <<nf_desc, rxd_flags, rxd_buf, txd_buf, pktmem, is_start, is_end, exists>>

\* Mutant: the TX descriptors keep the index they held.
NfBufTxKeeps ==
  /\ nf_at = "buf_tx"
  /\ NfNextDesc("flag_tx", "end_flag")
  /\ UNCHANGED <<rxd_flags, rxd_buf, txd_flags, txd_buf, pktmem, is_start, is_end, exists>>

NfBufTx ==
  /\ nf_at = "buf_tx"
  /\ txd_buf' = [txd_buf EXCEPT ![nf_desc] = NoBuf]
  /\ NfNextDesc("flag_tx", "end_flag")
  /\ UNCHANGED <<rxd_flags, rxd_buf, txd_flags, pktmem, is_start, is_end, exists>>

\* Mutant: the end flag keeps the value it had.
NfLowerEndSkipped ==
  /\ nf_at = "end_flag"
  /\ nf_at' = "start_flag"
  /\ UNCHANGED <<nf_desc, shmVars, exists>>

NfLowerEnd ==
  /\ nf_at = "end_flag"
  /\ is_end' = FALSE
  /\ nf_at' = "start_flag"
  /\ UNCHANGED <<nf_desc, rxd_flags, rxd_buf, txd_flags, txd_buf, pktmem, is_start, exists>>

\* Mutant: the start flag keeps the value it had.
NfLowerStartSkipped ==
  /\ nf_at = "start_flag"
  /\ nf_at' = "running"
  /\ UNCHANGED <<nf_desc, shmVars, exists>>

NfLowerStart ==
  /\ nf_at = "start_flag"
  /\ is_start' = FALSE
  /\ nf_at' = "running"
  /\ UNCHANGED <<nf_desc, rxd_flags, rxd_buf, txd_flags, txd_buf, pktmem, is_end, exists>>

NfStartup == (NfCreate \/ NfFlagRx \/ NfBufRx \/ NfFlagTx \/ NfBufTx \/ NfLowerEnd \/ NfLowerStart)
             /\ UNCHANGED <<staggered, rxAtVars, txAtVars>>
-----------------------------------------------------------------------------
(***************************************************************************)
(* rx.out and tx.out.  Without O_CREAT the open fails when there is no     *)
(* segment yet, and then mmap does: the process exits.                     *)
(***************************************************************************)
\* One iteration of initialized_shm_assert: the RX descriptors, then the TX ones.
\* It looks at the flag and then at the index; nf.out makes each ready once and for
\* good, so what it finds is what both are when it looks at the second.
DescReady(d) ==
  IF d < NENTRIES
    THEN rxd_flags[d] = AVAIL_FLAG /\ rxd_buf[d] # NoBuf
    ELSE txd_flags[d - NENTRIES] = USED_FLAG /\ txd_buf[d - NENTRIES] = NoBuf

\* Mutant: only the RX descriptors are asserted.
AfterAssertRx(d, then) ==
  IF ~DescReady(d) THEN "aborted" ELSE IF d + 1 < NENTRIES THEN "assert" ELSE then

\* What a host process is up to when its assertion on descriptor d is done.
AfterAssert(d, then) ==
  IF ~DescReady(d) THEN "aborted" ELSE IF d + 1 < 2 * NENTRIES THEN "assert" ELSE then

RxOpen ==
  /\ rx_at = "open"
  /\ staggered => nf_at = "running"
  /\ rx_at' = IF exists THEN "assert" ELSE "exited"
  /\ UNCHANGED <<rx_desc, shmVars, exists>>

RxAssert ==
  /\ rx_at = "assert"
  /\ rx_at' = AfterAssert(rx_desc, "spin")
  /\ rx_desc' = IF rx_at' = "assert" THEN rx_desc + 1 ELSE 0
  /\ UNCHANGED <<shmVars, exists>>

RxSpin ==
  /\ rx_at = "spin"
  /\ is_start
  /\ rx_at' = "running"
  /\ UNCHANGED <<rx_desc, shmVars, exists>>

RxStartup == (RxOpen \/ RxAssert \/ RxSpin) /\ UNCHANGED <<staggered, nfAtVars, txAtVars>>

TxOpen ==
  /\ tx_at = "open"
  /\ staggered => rx_at \notin {"open", "assert"}
  /\ tx_at' = IF exists THEN "assert" ELSE "exited"
  /\ UNCHANGED <<tx_desc, shmVars, exists>>

TxAssert ==
  /\ tx_at = "assert"
  /\ tx_at' = AfterAssert(tx_desc, "raise")
  /\ tx_desc' = IF tx_at' = "assert" THEN tx_desc + 1 ELSE 0
  /\ UNCHANGED <<shmVars, exists>>

TxRaiseStart ==
  /\ tx_at = "raise"
  /\ is_start' = TRUE
  /\ tx_at' = "running"
  /\ UNCHANGED <<tx_desc, rxd_flags, rxd_buf, txd_flags, txd_buf, pktmem, is_end, exists>>

TxStartup == (TxOpen \/ TxAssert \/ TxRaiseStart) /\ UNCHANGED <<staggered, nfAtVars, rxAtVars>>

StartupNext == NfStartup \/ RxStartup \/ TxStartup

StartupSpec == StartupInit /\ [][StartupNext]_startupVars
FairStartup == StartupSpec /\ WF_startupVars(NfStartup)
                 /\ WF_startupVars(RxStartup) /\ WF_startupVars(TxStartup)
-----------------------------------------------------------------------------
StartupTypeOK ==
  /\ rxd_flags \in [Slots -> Flags \cup {ZERO_FLAG}]
  /\ rxd_buf \in [Slots -> Objs]
  /\ txd_flags \in [Slots -> Flags \cup {ZERO_FLAG}]
  /\ txd_buf \in [Slots -> Objs \cup {NoBuf}]
  /\ is_start \in BOOLEAN /\ is_end \in BOOLEAN /\ exists \in BOOLEAN /\ staggered \in BOOLEAN
  /\ nf_at \in {"create", "flag_rx", "buf_rx", "flag_tx", "buf_tx", "end_flag", "start_flag", "running"}
  /\ rx_at \in {"open", "exited", "assert", "aborted", "spin", "running"}
  /\ tx_at \in {"open", "exited", "assert", "aborted", "raise", "running"}
  /\ nf_desc \in Slots
  /\ rx_desc \in 0 .. 2 * NENTRIES - 1 /\ tx_desc \in 0 .. 2 * NENTRIES - 1

\* The segment as Pipeline starts with it, but for a start flag already raised.
Prepared ==
  /\ rxd_flags = [s \in Slots |-> AVAIL_FLAG] /\ rxd_buf = [s \in Slots |-> s]
  /\ txd_flags = [s \in Slots |-> USED_FLAG] /\ txd_buf = [s \in Slots |-> NoBuf]

(***************************************************************************)
(* Launched one after the other, whatever an earlier session left in the   *)
(* segment, rx.out and tx.out enter their I/O loops on the descriptors of  *)
(* this session's nf.out, with the end flag down: the state Pipeline       *)
(* starts from.                                                            *)
(***************************************************************************)
LoopsFindPrepared ==
  staggered /\ (rx_at = "running" \/ tx_at = "running") =>
    Prepared /\ ~is_end /\ nf_at = "running"

\* All three processes then get into their I/O loops: no assertion of shm.h:97-102
\* fails, and the start flag that tx.out raises is not lost.
AllLoop == staggered => <>(nf_at = "running" /\ rx_at = "running" /\ tx_at = "running")

(***************************************************************************)
(* On a new segment the assertions of shm.h:97-102 alone keep a host       *)
(* process that was launched too early out of its loop: behind them it     *)
(* finds both queues initialized, although nf.out may still have the       *)
(* flags to lower.                                                         *)
(***************************************************************************)
AssertsGuardLoops ==
  /\ rx_at \in {"spin", "running"} => Prepared
  /\ tx_at \in {"raise", "running"} => Prepared

\* rx.out never enters its loop before tx.out has asked for it (rx.c:78, tx.c:80).
RxAfterTx == rx_at = "running" => tx_at = "running"

(***************************************************************************)
(* The part of AllLoop that needs no fairness: launched one after the      *)
(* other, no host process finds the segment missing (rx.c:42) or fails an  *)
(* assertion of shm.h:97-102, and a start flag that is up stays up.        *)
(***************************************************************************)
HandshakeHolds ==
  staggered =>
    /\ rx_at \notin {"exited", "aborted"} /\ tx_at \notin {"exited", "aborted"}
    /\ tx_at = "running" => is_start

\* The loop of nf.out over the TX descriptors is behind it.
NfPastDescs == nf_at \in {"end_flag", "start_flag", "running"}

\* The descriptors that nf.out has initialized, in the order of its two loops.
InitializedRx == IF nf_at = "create" THEN {}
                 ELSE IF nf_at \in {"flag_rx", "buf_rx"} THEN 0 .. nf_desc - 1 ELSE Slots
InitializedTx == IF NfPastDescs THEN Slots
                 ELSE IF nf_at \in {"flag_tx", "buf_tx"} THEN 0 .. nf_desc - 1 ELSE {}

InitializedSoFar ==
  /\ nf_at = "create" => nf_desc = 0
  /\ nf_at = "buf_rx" => rxd_flags[nf_desc] = AVAIL_FLAG
  /\ nf_at = "buf_tx" => txd_flags[nf_desc] = USED_FLAG
  /\ \A s \in InitializedRx : rxd_flags[s] = AVAIL_FLAG /\ rxd_buf[s] = s
  /\ \A s \in InitializedTx : txd_flags[s] = USED_FLAG /\ txd_buf[s] = NoBuf

\* On a new segment the index of the last TX descriptor vouches for all the others.
LastDescLast == ~staggered /\ ~NfPastDescs => txd_buf[NENTRIES - 1] # NoBuf

\* run.sh: a process that has been launched finds the one before it up.
Staggering ==
  staggered =>
    /\ rx_at # "open" => nf_at = "running"
    /\ tx_at # "open" => rx_at # "open"

\* Who has got past its assertions, and who has raised the flag, at each point of nf.out.
Handshake ==
  /\ nf_at # "create" => exists
  /\ rx_at \in {"spin", "running"} => NfPastDescs
  /\ tx_at \in {"raise", "running"} => NfPastDescs
  /\ nf_at \in {"start_flag", "running"} => ~is_end
  /\ is_start => tx_at = "running" \/ (staggered /\ nf_at # "running")

(***************************************************************************)
(* The inductive invariant behind those above, with RxAfterTx a part of it:*)
(* initialized_shm_assert looks at the descriptors in the order in which   *)
(* nf.c:43-70 writes them, so the last one it looks at decides.            *)
(***************************************************************************)
StartupInv ==
  /\ InitializedSoFar /\ LastDescLast /\ Staggering /\ Handshake
  /\ RxAfterTx /\ HandshakeHolds
=============================================================================
