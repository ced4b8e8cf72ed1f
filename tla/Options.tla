------------------------------ MODULE Options -------------------------------
(***************************************************************************)
(* From the command lines to the loops (option.h, and the starts of the    *)
(* three mains).  Each process has a command line of its own; nothing but  *)
(* the assertions on the descriptors relates them.  parse_opt keeps 32     *)
(* bits, struct vioqueue and the bursts of nf.out 16; the descriptors are  *)
(* found with the 32-bit value and initialized up to the 16-bit one.       *)
(*                                                                         *)
(* nf.out is launched first and the hosts when it has come up or has       *)
(* failed, as run.sh does, so each start is one step here (Startup has     *)
(* their interleavings).  A session may be killed at any time: the segment *)
(* stays, and the next one may have other options.  descs are the          *)
(* descriptors from rxd on, whichever queue they belong to; the two flags  *)
(* behind the TX queue change no sign of an index and no flag.             *)
(*                                                                         *)
(* In the program UINT16 is 65536, PKTBUF_NUM 36864, VQ_MIN 256 and        *)
(* MAX_BATCH_SIZE 1024.                                                    *)
(***************************************************************************)
EXTENDS Integers

CONSTANTS
  UINT16,             \* the values of uint16_t
  PKTBUF_NUM,         \* the guest's packet buffers
  VQ_MIN,             \* the least --vqsz that parse_opt takes
  MAX_BATCH_SIZE,     \* the entries of mbptrs
  VQ_SIZES, BATCH_SIZES,    \* the values tried
  KILLS               \* how many sessions may be killed

ASSUME OptionsAssumption ==
  /\ UINT16 \in Nat \ {0} /\ PKTBUF_NUM \in 1 .. UINT16 - 2 /\ VQ_MIN \in 1 .. PKTBUF_NUM
  /\ MAX_BATCH_SIZE \in Nat /\ KILLS \in Nat
  /\ VQ_SIZES \subseteq Nat /\ BATCH_SIZES \subseteq Nat
  /\ \E v \in VQ_SIZES : \A w \in VQ_SIZES : w <= v

VARIABLES
  opt,                \* the options of each process
  at,                 \* "absent", "loop", "aborted" by an assertion, "exited"
  descs,              \* flags, and whether the index is a buffer's (>= 0)
  killed              \* the sessions killed so far

optVars == <<opt, at, descs, killed>>

Processes == {"nf", "rx", "tx"}
Hosts     == {"rx", "tx"}

\* What parse_opt returns; for everything else it exits before anything happens.
Parsed == [vq_size: {v \in VQ_SIZES : v >= VQ_MIN}, batch_size: BATCH_SIZES \ {0}]
NoOpt  == [vq_size |-> 0, batch_size |-> 0]      \* of a process that is absent

Largest == CHOOSE v \in VQ_SIZES : \A w \in VQ_SIZES : w <= v
Descs   == 0 .. 2 * Largest - 1

ZERO  == [flags |-> "ZERO", buf |-> TRUE]      \* a new segment: index 0 everywhere
EMPTY == [flags |-> "USED", buf |-> FALSE]

OptInit ==
  /\ opt = [p \in Processes |-> NoOpt]
  /\ at = [p \in Processes |-> "absent"]
  /\ descs = [d \in Descs |-> ZERO]
  /\ killed = 0
-----------------------------------------------------------------------------
\* init_vq takes vq_entry_num as uint16_t.
NEntries(vq_size) == vq_size % UINT16

Rxd(vq_size, n) == 0 .. n - 1
Txd(vq_size, n) == vq_size .. vq_size + n - 1

PowerOfTwo(n) == \E k \in 0 .. 30 : n = 2^k

\* Mutant: the bound of the loops is the narrowed size.
AssertedNarrow(ds, vq_size) ==
  /\ \A d \in Rxd(vq_size, NEntries(vq_size)) : ds[d] = [flags |-> "AVAIL", buf |-> TRUE]
  /\ \A d \in Txd(vq_size, NEntries(vq_size)) : ds[d] = EMPTY

\* Mutant: only the RX queue is looked at.
AssertedRx(ds, vq_size) ==
  \A d \in Rxd(vq_size, vq_size) : ds[d] = [flags |-> "AVAIL", buf |-> TRUE]

\* initialized_shm_assert, with the 32-bit size.
Asserted(ds, vq_size) ==
  /\ \A d \in Rxd(vq_size, vq_size) : ds[d] = [flags |-> "AVAIL", buf |-> TRUE]
  /\ \A d \in Txd(vq_size, vq_size) : ds[d] = EMPTY

\* Mutant: init_descs_tx leaves the index of a descriptor alone.
InitializedKeeps(ds, vq_size) ==
  [d \in Descs |->
     CASE d \in Rxd(vq_size, NEntries(vq_size)) -> [flags |-> "AVAIL", buf |-> TRUE]
       [] d \in Txd(vq_size, NEntries(vq_size)) -> [ds[d] EXCEPT !.flags = "USED"]
       [] OTHER -> ds[d]]

(***************************************************************************)
(* init_descs_rx and init_descs_tx.  A size beyond the pool ends nf.out in *)
(* mbuf_alloc, when the flag of the descriptor it is about has gone up.    *)
(***************************************************************************)
Initialized(ds, vq_size) ==
  LET n == NEntries(vq_size)
  IN  [d \in Descs |->
         IF n <= PKTBUF_NUM /\ d \in Txd(vq_size, n) THEN EMPTY
         ELSE IF d \in Rxd(vq_size, n) /\ d <= PKTBUF_NUM
           THEN [flags |-> "AVAIL", buf |-> IF d < PKTBUF_NUM THEN TRUE ELSE ds[d].buf]
         ELSE ds[d]]

\* nf.c:109-110.
Sane(o) == o.batch_size <= o.vq_size /\ PowerOfTwo(o.vq_size)

NfLaunch(o) ==
  LET ds == Initialized(descs, o.vq_size)
  IN  /\ at["nf"] = "absent"
      /\ opt' = [opt EXCEPT !["nf"] = o]
      /\ descs' = ds
      /\ at' = [at EXCEPT !["nf"] =
                  IF NEntries(o.vq_size) > PKTBUF_NUM THEN "exited"
                  ELSE IF Asserted(ds, o.vq_size) /\ Sane(o) THEN "loop" ELSE "aborted"]
      /\ UNCHANGED killed

HostLaunch(p, o) ==
  /\ at["nf"] # "absent" /\ at[p] = "absent"
  /\ opt' = [opt EXCEPT ![p] = o]
  /\ at' = [at EXCEPT ![p] = IF Asserted(descs, o.vq_size) THEN "loop" ELSE "aborted"]
  /\ UNCHANGED <<descs, killed>>

(***************************************************************************)
(* The loops, as far as the assertions of later sessions can tell: some of *)
(* the RX descriptors are used, some TX descriptors carry a buffer, all of *)
(* which come from the pool.                                               *)
(***************************************************************************)
Traffic ==
  LET v == opt["nf"].vq_size
  IN  /\ \A p \in Processes : at[p] = "loop"
      /\ \E used \in {0, 1, v}, carrying \in {0, 1, v}, flags \in {"AVAIL", "USED"} :
           /\ v + carrying <= PKTBUF_NUM
           /\ descs' = [d \in Descs |->
                          IF d < v
                            THEN [flags |-> IF d < used THEN "USED" ELSE "AVAIL", buf |-> TRUE]
                          ELSE IF d < v + carrying THEN [flags |-> flags, buf |-> TRUE]
                          ELSE descs[d]]
      /\ UNCHANGED <<opt, at, killed>>

\* The processes are killed; others may be launched.
KillAll ==
  /\ at["nf"] # "absent"
  /\ killed < KILLS
  /\ killed' = killed + 1
  /\ at' = [p \in Processes |-> "absent"]
  /\ opt' = [p \in Processes |-> NoOpt]
  /\ UNCHANGED descs

OptNext ==
  \/ \E o \in Parsed : NfLaunch(o) \/ \E p \in Hosts : HostLaunch(p, o)
  \/ Traffic
  \/ KillAll

OptSpec == OptInit /\ [][OptNext]_optVars
-----------------------------------------------------------------------------
(***************************************************************************)
(* The descriptors tell the sizes: processes that are in their loops       *)
(* together have the same --vqsz, although none of them can see the        *)
(* options of another and the segment may hold what a session with other   *)
(* sizes left behind (shm.h:95-103).                                       *)
(***************************************************************************)
QueueSizesAgree ==
  \A p, q \in Processes : at[p] = "loop" /\ at[q] = "loop" => opt[p].vq_size = opt[q].vq_size

(***************************************************************************)
(* No process is in its loop with a --vqsz that struct vioqueue cannot     *)
(* hold.  Of the batch sizes only nf.out's is asserted (nf.c:109): beside  *)
(* an nf.out in its loop a --batchsz fits into 16 bits if it is nf.out's   *)
(* or smaller, as with run.sh, which passes one to all.  By themselves     *)
(* rx.out and tx.out let any --batchsz pass (rx.c:80 counts in 16 bits).   *)
(***************************************************************************)
AssertedSizesFit ==
  /\ \A p \in Processes : at[p] = "loop" => NEntries(opt[p].vq_size) = opt[p].vq_size
  /\ at["nf"] = "loop" =>
       \A p \in Processes : opt[p].batch_size <= opt["nf"].batch_size =>
                              opt[p].batch_size % UINT16 = opt[p].batch_size

(***************************************************************************)
(* With one size for all, as run.sh passes it, that the guest's pool can   *)
(* serve and nf.c:109-110 accept, every process starts, whatever sessions  *)
(* of other sizes have left in the segment.                                *)
(***************************************************************************)
StartsAgain ==
  LET launched == {p \in Processes : at[p] # "absent"}
  IN  /\ \A p, q \in launched : opt[p].vq_size = opt[q].vq_size
      /\ \A p \in launched : Sane(opt[p]) /\ opt[p].vq_size <= PKTBUF_NUM
      => \A p \in launched : at[p] = "loop"

(***************************************************************************)
(* The batches of a process that is in its loop fit into its mbptrs        *)
(* (option.h:7, rx.c:61, nf.c:81, tx.c:24).                                *)
(***************************************************************************)
BatchFits == \A p \in Processes : at[p] = "loop" => opt[p].batch_size <= MAX_BATCH_SIZE
=============================================================================
