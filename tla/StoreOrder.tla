----------------------------- MODULE StoreOrder -----------------------------
(***************************************************************************)
(* The RX queue with the store buffers of x86 between each process and the *)
(* shared memory.  A store goes to the end of the buffer of the core, the  *)
(* buffer drains into memory in order and at any time, and a load finds    *)
(* the youngest store of its own core before it looks into memory.  The    *)
(* release fences of vhost.h and vio.h compile to nothing but an order of  *)
(* the stores, which the buffer keeps.  Pipeline has one memory for all.   *)
(*                                                                         *)
(* Every action is one load or one store.  vhost_enqueue_burst and         *)
(* vioqueue_dequeue_burst_rx halve a burst until the flag of its last      *)
(* descriptor is the right one; here they try any size up to BATCH.        *)
(* nf.out frees a buffer as soon as it has checked the packet, which is    *)
(* earlier than the TX queue lets it.  PKTS and SB_SIZE bound the packets sent and *)
(* the stores a core can have in flight.                                   *)
(*                                                                         *)
(* Program points: host_pc  probe, index (loads buf_idxs), copy, publish   *)
(*                 guest_pc poll, index (loads idxs), refill, offer, check *)
(***************************************************************************)
EXTENDS Vioqueue, SequencesExt

CONSTANTS BATCH, BUFS, PKTS, SB_SIZE

ASSUME StoreOrderAssumption ==
  /\ BATCH \in 1 .. NENTRIES /\ BUFS \in Nat /\ BUFS >= NENTRIES + BATCH
  /\ PKTS \in Nat /\ SB_SIZE \in Nat \ {0}

VARIABLES
  flags, bufs, payload,                     \* memory: descriptors and packets
  host_sb, guest_sb,                        \* stores in flight, the oldest first
  host_pc, host_cur, host_num, host_i, host_bufs, host_sent,
  guest_pc, guest_cur, guest_num, guest_i, guest_bufs, guest_prev,
  free                                      \* the guest's free buffers

memVars   == <<flags, bufs, payload>>
hostVars  == <<host_pc, host_cur, host_num, host_i, host_bufs, host_sent>>
guestVars == <<guest_pc, guest_cur, guest_num, guest_i, guest_bufs, guest_prev, free>>
soVars    == <<memVars, host_sb, guest_sb, hostVars, guestVars>>

SoInit ==
  /\ flags = [s \in Slots |-> AVAIL_FLAG]
  /\ bufs = [s \in Slots |-> s]
  /\ payload = [b \in 0 .. BUFS - 1 |-> 0]
  /\ host_sb = <<>> /\ guest_sb = <<>>
  /\ host_pc = "probe" /\ host_cur = 0 /\ host_num = 0 /\ host_i = 0
  /\ host_bufs = <<>> /\ host_sent = 0
  /\ guest_pc = "poll" /\ guest_cur = 0 /\ guest_num = 0 /\ guest_i = 0
  /\ guest_bufs = <<>> /\ guest_prev = 0
  /\ free = [k \in 1 .. BUFS - NENTRIES |-> NENTRIES + k - 1]
-----------------------------------------------------------------------------
Store(at, key, val) == [at |-> at, key |-> key, val |-> val]

\* What a core loads from `at' with these stores in flight and this memory.
Load(sb, at, key, mem) ==
  LET mine == {k \in DOMAIN sb : sb[k].at = at /\ sb[k].key = key}
  IN  IF mine = {} THEN mem[key] ELSE sb[CHOOSE k \in mine : \A j \in mine : j <= k].val

\* Mutant: no fence at all, on a core that reorders its stores.
DrainableUnfenced(sb) == {k \in DOMAIN sb : \A j \in 1 .. k - 1 : sb[j].at # sb[k].at \/ sb[j].key # sb[k].key}

\* Mutant: only the fences order the stores, not the flags of a batch among each other.
DrainableFences(sb) ==
  {k \in DOMAIN sb : \A j \in 1 .. k - 1 : sb[j].at = "flags" /\ sb[k].at = "flags"}

\* The stores that may reach memory next.
Drainable(sb) == {k \in DOMAIN sb : k = 1}

Reaches(store) ==
  /\ flags'   = IF store.at = "flags" THEN [flags EXCEPT ![store.key] = store.val] ELSE flags
  /\ bufs'    = IF store.at = "bufs" THEN [bufs EXCEPT ![store.key] = store.val] ELSE bufs
  /\ payload' = IF store.at = "payload" THEN [payload EXCEPT ![store.key] = store.val] ELSE payload

HostDrain ==
  /\ \E k \in Drainable(host_sb) : Reaches(host_sb[k]) /\ host_sb' = RemoveAt(host_sb, k)
  /\ UNCHANGED <<guest_sb, hostVars, guestVars>>

GuestDrain ==
  /\ \E k \in Drainable(guest_sb) : Reaches(guest_sb[k]) /\ guest_sb' = RemoveAt(guest_sb, k)
  /\ UNCHANGED <<host_sb, hostVars, guestVars>>

HostStores(store) ==
  Len(host_sb) < SB_SIZE /\ host_sb' = Append(host_sb, store) /\ UNCHANGED <<memVars, guest_sb>>
GuestStores(store) ==
  Len(guest_sb) < SB_SIZE /\ guest_sb' = Append(guest_sb, store) /\ UNCHANGED <<memVars, host_sb>>
Loads == UNCHANGED <<memVars, host_sb, guest_sb>>

\* The next descriptor of a burst, or the next program point after its last one.
HostGoesOn(pc) ==
  IF host_i + 1 < host_num THEN host_i' = host_i + 1 /\ UNCHANGED host_pc
  ELSE host_i' = 0 /\ host_pc' = pc
GuestGoesOn(pc) ==
  IF guest_i + 1 < guest_num THEN guest_i' = guest_i + 1 /\ UNCHANGED guest_pc
  ELSE guest_i' = 0 /\ guest_pc' = pc
-----------------------------------------------------------------------------
HostProbe ==
  /\ host_pc = "probe"
  /\ \E n \in 1 .. BATCH :
       /\ n <= PKTS - host_sent
       /\ Contiguous(host_cur, n)
       /\ Load(host_sb, "flags", Wrap(host_cur + n - 1), flags) = AVAIL_FLAG
       /\ host_num' = n
  /\ host_pc' = "index"
  /\ Loads
  /\ UNCHANGED <<host_cur, host_i, host_bufs, host_sent, guestVars>>

HostIndex ==
  /\ host_pc = "index"
  /\ host_bufs' = Append(host_bufs, Load(host_sb, "bufs", host_cur + host_i, bufs))
  /\ HostGoesOn("copy")
  /\ Loads
  /\ UNCHANGED <<host_cur, host_num, host_sent, guestVars>>

HostCopy ==
  /\ host_pc = "copy"
  /\ HostStores(Store("payload", host_bufs[host_i + 1], host_sent + host_i + 1))
  /\ HostGoesOn("publish")
  /\ UNCHANGED <<host_cur, host_num, host_bufs, host_sent, guestVars>>

HostPublish ==
  /\ host_pc = "publish"
  /\ HostStores(Store("flags", host_cur + host_i, USED_FLAG))
  /\ HostGoesOn("probe")
  /\ IF host_i + 1 < host_num
       THEN UNCHANGED <<host_cur, host_num, host_bufs, host_sent>>
       ELSE /\ host_cur' = Wrap(host_cur + host_num)
            /\ host_sent' = host_sent + host_num
            /\ host_num' = 0 /\ host_bufs' = <<>>
  /\ UNCHANGED guestVars

HostNext == HostProbe \/ HostIndex \/ HostCopy \/ HostPublish
-----------------------------------------------------------------------------
GuestPoll ==
  /\ guest_pc = "poll"
  /\ \E n \in 1 .. BATCH :
       /\ Load(guest_sb, "flags", Wrap(guest_cur + n - 1), flags) = USED_FLAG
       /\ guest_num' = n
  /\ guest_pc' = "index"
  /\ Loads
  /\ UNCHANGED <<guest_cur, guest_i, guest_bufs, guest_prev, free, hostVars>>

GuestIndex ==
  /\ guest_pc = "index"
  /\ guest_bufs' = Append(guest_bufs, Load(guest_sb, "bufs", Wrap(guest_cur + guest_i), bufs))
  /\ GuestGoesOn("refill")
  /\ Loads
  /\ UNCHANGED <<guest_cur, guest_num, guest_prev, free, hostVars>>

\* vioqueue_refill_desc_rx gives the descriptors their indices, then all flags go up.
GuestRefill ==
  /\ guest_pc = "refill"
  /\ GuestStores(Store("bufs", Wrap(guest_cur + guest_i), free[1]))
  /\ free' = Tail(free)
  /\ GuestGoesOn("offer")
  /\ UNCHANGED <<guest_cur, guest_num, guest_bufs, guest_prev, hostVars>>

GuestOffer ==
  /\ guest_pc = "offer"
  /\ GuestStores(Store("flags", Wrap(guest_cur + guest_i), AVAIL_FLAG))
  /\ GuestGoesOn("check")
  /\ UNCHANGED <<guest_cur, guest_num, guest_bufs, guest_prev, free, hostVars>>

GuestCheck ==
  /\ guest_pc = "check"
  /\ guest_prev' = Load(guest_sb, "payload", guest_bufs[guest_i + 1], payload)
  /\ free' = Append(free, guest_bufs[guest_i + 1])
  /\ GuestGoesOn("poll")
  /\ IF guest_i + 1 < guest_num
       THEN UNCHANGED <<guest_cur, guest_num, guest_bufs>>
       ELSE /\ guest_cur' = Wrap(guest_cur + guest_num)
            /\ guest_num' = 0 /\ guest_bufs' = <<>>
  /\ Loads
  /\ UNCHANGED hostVars

GuestNext == GuestPoll \/ GuestIndex \/ GuestRefill \/ GuestOffer \/ GuestCheck
-----------------------------------------------------------------------------
SoNext == HostNext \/ GuestNext \/ HostDrain \/ GuestDrain

(***************************************************************************)
(* The processes poll without end on cores of their own, and a store does  *)
(* not stay in a store buffer for ever.                                    *)
(***************************************************************************)
SoSpec == /\ SoInit /\ [][SoNext]_soVars
          /\ WF_soVars(HostNext) /\ WF_soVars(GuestNext)
          /\ WF_soVars(HostDrain) /\ WF_soVars(GuestDrain)

\* The descriptor whose flag each side stores next.
HostAt  == IF host_pc = "publish" THEN Wrap(host_cur + host_i) ELSE host_cur
GuestAt == IF guest_pc = "offer" THEN Wrap(guest_cur + guest_i)
           ELSE IF guest_pc = "check" THEN Wrap(guest_cur + guest_num) ELSE guest_cur

\* The descriptor whose flag reaches memory next: of the oldest flag in flight.
FlagStores(sb)  == {k \in DOMAIN sb : sb[k].at = "flags"}
DrainsAt(sb, c) ==
  IF FlagStores(sb) = {} THEN c
  ELSE sb[CHOOSE k \in FlagStores(sb) : \A j \in FlagStores(sb) : k <= j].key

DrainedRing == INSTANCE DescRing WITH
  host  <- DrainsAt(host_sb, HostAt),
  guest <- DrainsAt(guest_sb, GuestAt)

(***************************************************************************)
(* As memory sees them the descriptors change hands one by one and in      *)
(* order, although either side decides on a batch from flags that may be   *)
(* older than what the other side has already stored (vhost.h:108,         *)
(* vio.h:25).                                                              *)
(***************************************************************************)
DrainedInOrder == DrainedRing!RingSpec

(***************************************************************************)
(* check_pkt finds the packets in order: whoever loads a flag that is up   *)
(* also loads the index and the payload that were stored before it         *)
(* (vhost.h:90, mdque.h:20), and no store to a buffer that has been used   *)
(* again is still in flight.                                               *)
(***************************************************************************)
LoadedInOrder ==
  guest_pc = "check" =>
    Load(guest_sb, "payload", guest_bufs[guest_i + 1], payload) = guest_prev + 1

(***************************************************************************)
(* Every packet gets through, although a side that polls sees the flags    *)
(* of the other only when they have drained.                               *)
(***************************************************************************)
AllLoaded == <>(guest_prev = PKTS)
=============================================================================
