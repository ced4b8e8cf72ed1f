--------------------------- MODULE StoreOrderInv ----------------------------
(***************************************************************************)
(* The inductive invariant of StoreOrder.  It counts from the cursors that *)
(* memory has reached: hd and gd are the descriptors whose flags rx.out    *)
(* and nf.out change next in memory, hf and gf the flags each of them has  *)
(* in flight, a the AVAIL descriptors that memory has from hd up to gd.    *)
(***************************************************************************)
EXTENDS StoreOrder

Bufs == 0 .. BUFS - 1

HostPayload == [at : {"payload"}, key : Bufs, val : Nat]
HostFlag    == [at : {"flags"}, key : Slots, val : {USED_FLAG}]
GuestBuf    == [at : {"bufs"}, key : Slots, val : Bufs]
GuestFlag   == [at : {"flags"}, key : Slots, val : {AVAIL_FLAG}]

SoMemory ==
  /\ flags \in [Slots -> Flags] /\ bufs \in [Slots -> Bufs] /\ payload \in [Bufs -> Nat]
  /\ host_sb \in Seq(HostPayload \cup HostFlag)
  /\ guest_sb \in Seq(GuestBuf \cup GuestFlag)

HostControl ==
  /\ host_pc \in {"probe", "index", "copy", "publish"}
  /\ host_cur \in Slots /\ host_num \in Nat /\ host_i \in Nat /\ host_sent \in Nat
  /\ host_pc = "probe" => host_num = 0 /\ host_i = 0
  /\ host_pc # "probe" => host_i < host_num /\ host_num <= BATCH /\ host_cur + host_num <= NENTRIES
  /\ host_bufs \in Seq(Bufs)
  /\ Len(host_bufs) = IF host_pc = "index" THEN host_i ELSE host_num

GuestControl ==
  /\ guest_pc \in {"poll", "index", "refill", "offer", "check"}
  /\ guest_cur \in Slots /\ guest_num \in Nat /\ guest_i \in Nat /\ guest_prev \in Nat
  /\ guest_pc = "poll" => guest_num = 0 /\ guest_i = 0
  /\ guest_pc # "poll" => guest_i < guest_num /\ guest_num <= BATCH
  /\ guest_bufs \in Seq(Bufs)
  /\ Len(guest_bufs) = IF guest_pc = "index" THEN guest_i ELSE guest_num
  /\ free \in Seq(Bufs)
  /\ Len(free) = (BUFS - NENTRIES) - (IF guest_pc = "refill" THEN guest_i
                                      ELSE IF guest_pc = "offer" THEN guest_num
                                      ELSE IF guest_pc = "check" THEN guest_num - guest_i ELSE 0)
-----------------------------------------------------------------------------
\* The descriptors claimed by each side whose flags it has not stored yet; of those,
\* the ones rx.out has copied a packet for and the ones nf.out has refilled.
HostLeft    == IF host_pc = "publish" THEN host_num - host_i ELSE host_num
HostCopied  == IF host_pc = "copy" THEN host_i ELSE IF host_pc = "publish" THEN host_num - host_i ELSE 0
GuestLeft   == IF guest_pc = "check" THEN 0
               ELSE IF guest_pc = "offer" THEN guest_num - guest_i ELSE guest_num
GuestFilled == IF guest_pc = "refill" THEN guest_i
               ELSE IF guest_pc = "offer" THEN guest_num - guest_i ELSE 0

\* The claimed ones whose packets are in the batch of nf.out.
GuestEmptied == IF guest_pc \in {"refill", "offer"} THEN GuestLeft ELSE 0

\* The flags each side has stored, and the packets nf.out had checked before this burst.
HostCount  == host_sent + (IF host_pc = "publish" THEN host_i ELSE 0)
GuestBase  == guest_prev - (IF guest_pc = "check" THEN guest_i ELSE 0)
GuestCount == GuestBase + (IF guest_pc = "offer" THEN guest_i
                           ELSE IF guest_pc = "check" THEN guest_num ELSE 0)

(***************************************************************************)
(* The flags in flight are those of the n descriptors from d on, the       *)
(* oldest store first.                                                     *)
(***************************************************************************)
FlagsFollow(sb, d, n) ==
  /\ \A k \in FlagStores(sb) : sb[k].key \in Window(d, n)
  /\ \A j, k \in FlagStores(sb) : j < k => Ahead(sb[j].key, d) < Ahead(sb[k].key, d)
  /\ \A s \in Window(d, n) : \E k \in FlagStores(sb) : sb[k].key = s

SharedInMemory(hd, gd, hf, gf, a) ==
  /\ HostAt = Wrap(hd + hf) /\ FlagsFollow(host_sb, hd, hf)
  /\ GuestAt = Wrap(gd + gf) /\ FlagsFollow(guest_sb, gd, gf)
  /\ gd = Wrap(hd + a)
  /\ \A s \in Slots : flags[s] = AVAIL_FLAG <=> Ahead(s, hd) < a
  /\ hf + HostLeft <= a /\ gf + GuestLeft <= NENTRIES - a
  /\ HostCount - hf = GuestCount - gf + (NENTRIES - a)
-----------------------------------------------------------------------------
\* The buffer of a descriptor as nf.out's core sees it: refills in flight included.
Own(s) == Load(guest_sb, "bufs", s, bufs)

BufStores == {k \in DOMAIN guest_sb : guest_sb[k].at = "bufs"}

\* A refill is in flight at most once, and older than the flag that publishes it.
RefillsInFlight(gd, gf) ==
  /\ \A k \in BufStores : guest_sb[k].key \in Window(gd, gf + GuestFilled)
  /\ \A j, k \in BufStores : guest_sb[j].key = guest_sb[k].key => j = k
  /\ \A k \in BufStores, j \in FlagStores(guest_sb) : guest_sb[j].key = guest_sb[k].key => k < j

\* The indices that each side has loaded, those of rx.out until it publishes them.
IndicesLoaded ==
  /\ \A k \in DOMAIN host_bufs :
       (host_pc = "publish" => k > host_i) => host_bufs[k] = Own(host_cur + k - 1)
  /\ guest_pc = "index" => \A k \in DOMAIN guest_bufs : guest_bufs[k] = Own(Wrap(guest_cur + k - 1))

\* The descriptors whose buffer is in the batch of nf.out, and the part of the batch in use.
Stale == IF guest_pc = "refill" THEN Window(Wrap(guest_cur + guest_i), guest_num - guest_i) ELSE {}
Batch == IF guest_pc \in {"poll", "index"} THEN {}
         ELSE (IF guest_pc = "check" THEN guest_i + 1 ELSE 1) .. guest_num

\* No buffer is in two places.
BuffersApart ==
  /\ \A s, t \in Slots \ Stale : Own(s) = Own(t) => s = t
  /\ \A j, k \in Batch : guest_bufs[j] = guest_bufs[k] => j = k
  /\ \A j, k \in DOMAIN free : free[j] = free[k] => j = k
  /\ \A s \in Slots \ Stale, k \in Batch : Own(s) # guest_bufs[k]
  /\ \A s \in Slots \ Stale, k \in DOMAIN free : Own(s) # free[k]
  /\ \A j \in Batch, k \in DOMAIN free : guest_bufs[j] # free[k]
-----------------------------------------------------------------------------
PayloadStores == {k \in DOMAIN host_sb : host_sb[k].at = "payload"}

\* The id of the packet that rx.out puts into the descriptor n places after hd.
HostId(n, hf) == HostCount - hf + n + 1

\* A payload is in flight or in memory, and older than the flag that publishes it.
PayloadsInFlight(hd, hf) ==
  /\ \A k \in PayloadStores :
       \E s \in Window(hd, hf + HostCopied) :
         /\ host_sb[k].key = Own(s) /\ host_sb[k].val = HostId(Ahead(s, hd), hf)
         /\ \A j \in FlagStores(host_sb) : host_sb[j].key = s => k < j
  /\ \A s \in Window(hd, hf + HostCopied) :
       \/ payload[Own(s)] = HostId(Ahead(s, hd), hf)
       \/ \E k \in PayloadStores : host_sb[k].key = Own(s)

\* What nf.out will load: the packets it has not taken yet, and its batch.
PayloadsArrived(gd, gf, a) ==
  /\ \A s \in Slots : gf + GuestEmptied <= Ahead(s, gd) /\ Ahead(s, gd) < NENTRIES - a =>
                        payload[Own(s)] = GuestCount - gf + Ahead(s, gd) + 1
  /\ \A k \in Batch : payload[guest_bufs[k]] = GuestBase + k

InFlight(hd, gd, hf, gf, a) ==
  /\ SharedInMemory(hd, gd, hf, gf, a)
  /\ RefillsInFlight(gd, gf)
  /\ PayloadsInFlight(hd, hf)
  /\ PayloadsArrived(gd, gf, a)

(***************************************************************************)
(* The inductive invariant behind LoadedInOrder and DrainedInOrder: flags, *)
(* refills and payloads in flight are in the order of the code, so that    *)
(* memory is at every moment what it was some stores ago                   *)
(* (vhost.h:80-96, mdque.h:6-23).                                          *)
(***************************************************************************)
SoInv ==
  /\ SoMemory /\ HostControl /\ GuestControl
  /\ IndicesLoaded /\ BuffersApart
  /\ \E hd, gd \in Slots, hf, gf, a \in 0 .. NENTRIES : InFlight(hd, gd, hf, gf, a)
=============================================================================
