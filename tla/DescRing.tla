------------------------------ MODULE DescRing ------------------------------
(***************************************************************************)
(* What a vioqueue promises, whatever the batching on its two sides: the   *)
(* descriptors change hands one at a time and in circular order, each side *)
(* handing over only descriptors that are its own.  No flag is flipped     *)
(* twice in a row by the same side, none is skipped.                       *)
(***************************************************************************)
EXTENDS Vioqueue

VARIABLES
  flags,          \* whose descriptor it is: AVAIL the host's, USED the guest's
  host, guest     \* the descriptor each side hands over next

ringVars == <<flags, host, guest>>

\* The RX queue starts with every descriptor AVAIL, the TX queue with every one USED.
RingInit ==
  /\ flags \in {[s \in Slots |-> f] : f \in Flags}
  /\ host = 0
  /\ guest = 0

HostGives ==
  /\ flags[host] = AVAIL_FLAG
  /\ flags' = [flags EXCEPT ![host] = USED_FLAG]
  /\ host' = Wrap(host + 1)
  /\ UNCHANGED guest

GuestGives ==
  /\ flags[guest] = USED_FLAG
  /\ flags' = [flags EXCEPT ![guest] = AVAIL_FLAG]
  /\ guest' = Wrap(guest + 1)
  /\ UNCHANGED host

RingNext == HostGives \/ GuestGives

RingSpec == RingInit /\ [][RingNext]_ringVars
=============================================================================
