-------------------------- MODULE StoreOrderProofs --------------------------
(***************************************************************************)
(* Proofs about the RX queue with a store buffer per core, for every size  *)
(* of queue, batch, pool and store buffer and every number of packets: the *)
(* flags reach memory in the order of DescRing, and nf.out loads the       *)
(* packets in the order in which rx.out has sent them.                     *)
(***************************************************************************)
EXTENDS StoreOrderInv, VioqueueProofs, SequenceTheorems

LEMMA SoSizes ==
  /\ NENTRIES \in Nat \ {0} /\ BATCH \in 1 .. NENTRIES
  /\ BUFS \in Nat /\ BUFS >= NENTRIES + BATCH /\ PKTS \in Nat
BY NEntriesAssumption, StoreOrderAssumption

-----------------------------------------------------------------------------
(***************************************************************************)
(* A store buffer, when a store goes in at its end and one goes out at its *)
(* head.                                                                   *)
(***************************************************************************)
LEMMA Appended ==
  ASSUME NEW S, NEW sb \in Seq(S), NEW st \in S
  PROVE  /\ Append(sb, st) \in Seq(S)
         /\ Len(sb) \in Nat /\ DOMAIN sb = 1 .. Len(sb)
         /\ DOMAIN Append(sb, st) = 1 .. Len(sb) + 1
         /\ \A k \in 1 .. Len(sb) : Append(sb, st)[k] = sb[k]
         /\ Append(sb, st)[Len(sb) + 1] = st
BY AppendProperties, LenProperties

LEMMA Drained ==
  ASSUME NEW S, NEW sb \in Seq(S), NEW k \in Drainable(sb)
  PROVE  /\ k = 1 /\ Len(sb) \in Nat \ {0} /\ DOMAIN sb = 1 .. Len(sb)
         /\ RemoveAt(sb, k) = Tail(sb)
         /\ Tail(sb) \in Seq(S) /\ DOMAIN Tail(sb) = 1 .. Len(sb) - 1
         /\ \A j \in 1 .. Len(sb) - 1 : Tail(sb)[j] = sb[j + 1]
         /\ sb[1] \in S
<1>1. k = 1 /\ Len(sb) \in Nat \ {0} /\ DOMAIN sb = 1 .. Len(sb) /\ sb # <<>> /\ sb[1] \in S
  BY LenProperties DEF Drainable
<1>2. /\ Tail(sb) \in Seq(S) /\ Len(Tail(sb)) = Len(sb) - 1
      /\ \A j \in 1 .. Len(Tail(sb)) : Tail(sb)[j] = sb[j + 1]
  BY <1>1, HeadTailProperties
<1>3. DOMAIN Tail(sb) = 1 .. Len(sb) - 1
  BY <1>2, LenProperties
<1>4. RemoveAt(sb, 1) = SubSeq(sb, 1, 0) \o SubSeq(sb, 2, Len(sb))
  BY DEF RemoveAt
<1>5. SubSeq(sb, 1, 0) = <<>>
  BY <1>1, SubSeqEmpty
<1>6. SubSeq(sb, 2, Len(sb)) = Tail(sb)
  BY <1>1, TailIsSubSeq
<1>7. <<>> \o Tail(sb) = Tail(sb)
  BY <1>2, ConcatEmptySeq
<1> QED
  BY <1>1, <1>2, <1>3, <1>4, <1>5, <1>6, <1>7

(***************************************************************************)
(* What a core loads when it has the place at most once in its buffer.     *)
(***************************************************************************)
LEMMA LoadsMemory ==
  ASSUME NEW sb, NEW at, NEW key, NEW mem,
         \A k \in DOMAIN sb : ~(sb[k].at = at /\ sb[k].key = key)
  PROVE  Load(sb, at, key, mem) = mem[key]
<1>1. {k \in DOMAIN sb : sb[k].at = at /\ sb[k].key = key} = {}
  OBVIOUS
<1> QED
  BY <1>1 DEF Load

LEMMA LoadsStore ==
  ASSUME NEW sb, NEW at, NEW key, NEW mem, NEW k \in DOMAIN sb, k \in Nat,
         sb[k].at = at, sb[k].key = key,
         \A j \in DOMAIN sb : sb[j].at = at /\ sb[j].key = key => j = k
  PROVE  Load(sb, at, key, mem) = sb[k].val
<1> DEFINE mine == {j \in DOMAIN sb : sb[j].at = at /\ sb[j].key = key}
<1>1. mine = {k}
  OBVIOUS
<1>2. (CHOOSE x \in mine : \A j \in mine : j <= x) = k
  BY <1>1
<1> QED
  BY <1>1, <1>2 DEF Load

-----------------------------------------------------------------------------
\* Counting from a cursor that lies m descriptors ahead.
LEMMA WindowShift ==
  ASSUME NEW c \in Slots, NEW m \in Nat, NEW n \in Nat, m + n <= NENTRIES, NEW s \in Slots
  PROVE  s \in Window(Wrap(c + m), n) <=> m <= Ahead(s, c) /\ Ahead(s, c) < m + n
BY NEntriesAssumption DEF Window, Wrap, Ahead, Slots

LEMMA SlotAt ==
  ASSUME NEW c \in Slots, NEW m \in Nat, m < NENTRIES
  PROVE  /\ Wrap(c + m) \in Slots /\ Ahead(Wrap(c + m), c) = m
         /\ \A s \in Slots : Ahead(s, c) = m => s = Wrap(c + m)
BY NEntriesAssumption DEF Wrap, Ahead, Slots

LEMMA AheadNat ==
  ASSUME NEW c \in Slots, NEW s \in Slots
  PROVE  Ahead(s, c) \in Nat /\ Ahead(s, c) < NENTRIES
BY NEntriesAssumption DEF Ahead, Slots

-----------------------------------------------------------------------------
(***************************************************************************)
(* The flags in flight.                                                    *)
(***************************************************************************)
LEMMA NextFlag ==
  ASSUME NEW S, NEW sb \in Seq(S), NEW d \in Slots, NEW n \in 0 .. NENTRIES,
         FlagsFollow(sb, d, n)
  PROVE  DrainsAt(sb, Wrap(d + n)) = d
<1> DEFINE F == FlagStores(sb)
<1>0. F \subseteq Nat
  BY LenProperties DEF FlagStores
<1>1. CASE n = 0
  <2>1. F = {}
    BY <1>1, EmptyWindow DEF FlagsFollow
  <2> QED
    BY <1>1, <2>1, WrapZero DEF DrainsAt
<1>2. CASE n # 0
  <2>1. d \in Window(d, n)
    BY <1>2, AheadZero DEF Window
  <2>2. PICK k \in F : sb[k].key = d
    BY <2>1 DEF FlagsFollow
  <2>3. \A j \in F : k <= j
    <3> TAKE j \in F
    <3>1. sb[j].key \in Slots
      BY DEF FlagsFollow, Window
    <3>2. Ahead(d, d) = 0 /\ Ahead(sb[j].key, d) \in Nat
      BY <3>1, AheadZero, AheadNat
    <3>3. ~(j < k)
      BY <2>2, <3>2 DEF FlagsFollow
    <3> QED
      BY <1>0, <3>3
  <2>4. (CHOOSE x \in F : \A j \in F : x <= j) = k
    BY <1>0, <2>3
  <2> QED
    BY <2>2, <2>4 DEF DrainsAt
<1> QED
  BY <1>1, <1>2

LEMMA FlagAppended ==
  ASSUME NEW S, NEW sb \in Seq(S), NEW st \in S, NEW d \in Slots, NEW n \in 0 .. NENTRIES - 1,
         FlagsFollow(sb, d, n), st.at = "flags", st.key = Wrap(d + n)
  PROVE  FlagsFollow(Append(sb, st), d, n + 1)
<1> DEFINE new == Append(sb, st)
           e   == Len(sb) + 1
<1>1. /\ Len(sb) \in Nat /\ DOMAIN sb = 1 .. Len(sb) /\ DOMAIN new = 1 .. Len(sb) + 1
      /\ \A k \in 1 .. Len(sb) : new[k] = sb[k]
      /\ new[e] = st
  BY Appended
<1>2. FlagStores(new) = FlagStores(sb) \cup {e} /\ FlagStores(sb) \subseteq 1 .. Len(sb)
  BY <1>1 DEF FlagStores
<1>0. n \in Nat /\ n < NENTRIES
  BY SoSizes
<1>3. /\ Wrap(d + n) \in Slots /\ Ahead(Wrap(d + n), d) = n
      /\ \A s \in Slots : Ahead(s, d) = n => s = Wrap(d + n)
  BY <1>0, SlotAt
<1>4. \A s \in Slots : s \in Window(d, n + 1) <=> s \in Window(d, n) \/ s = Wrap(d + n)
  <2> TAKE s \in Slots
  <2>1. Ahead(s, d) \in Nat
    BY AheadNat
  <2>2. Ahead(s, d) < n + 1 <=> Ahead(s, d) < n \/ Ahead(s, d) = n
    BY <1>0, <2>1
  <2> QED
    BY <1>3, <2>2 DEF Window
<1> HIDE DEF new, e
<1>5. \A k \in FlagStores(new) : new[k].key \in Window(d, n + 1)
  BY <1>1, <1>2, <1>3, <1>4 DEF FlagsFollow, Window
<1>6. \A k \in FlagStores(sb) : sb[k].key \in Slots /\ Ahead(sb[k].key, d) < n
  BY DEF FlagsFollow, Window
<1>7. ASSUME NEW j \in FlagStores(new), NEW k \in FlagStores(new), j < k
      PROVE  Ahead(new[j].key, d) < Ahead(new[k].key, d)
  <2>1. j \in FlagStores(sb) /\ new[j] = sb[j]
    BY <1>1, <1>2, <1>7 DEF e
  <2>2. CASE k = e
    BY <1>1, <1>3, <1>6, <2>1, <2>2
  <2>3. CASE k # e
    BY <1>1, <1>2, <1>7, <2>1, <2>3 DEF FlagsFollow
  <2> QED
    BY <2>2, <2>3
<1>8. ASSUME NEW s \in Window(d, n + 1)
      PROVE  \E k \in FlagStores(new) : new[k].key = s
  <2>1. CASE s = Wrap(d + n)
    BY <1>1, <1>2, <2>1
  <2>2. CASE s # Wrap(d + n)
    <3>1. s \in Window(d, n)
      BY <1>4, <2>2 DEF Window
    <3>2. PICK k \in FlagStores(sb) : sb[k].key = s
      BY <3>1 DEF FlagsFollow
    <3> QED
      BY <1>1, <1>2, <3>2
  <2> QED
    BY <2>1, <2>2
<1> QED
  BY <1>5, <1>7, <1>8 DEF FlagsFollow, new

LEMMA OtherAppended ==
  ASSUME NEW S, NEW sb \in Seq(S), NEW st \in S, NEW d \in Slots, NEW n \in 0 .. NENTRIES,
         FlagsFollow(sb, d, n), st.at # "flags"
  PROVE  FlagsFollow(Append(sb, st), d, n)
<1> DEFINE new == Append(sb, st)
<1>1. /\ Len(sb) \in Nat /\ DOMAIN sb = 1 .. Len(sb) /\ DOMAIN new = 1 .. Len(sb) + 1
      /\ \A k \in 1 .. Len(sb) : new[k] = sb[k]
      /\ new[Len(sb) + 1] = st
  BY Appended
<1>2. FlagStores(new) = FlagStores(sb) /\ FlagStores(sb) \subseteq 1 .. Len(sb)
  BY <1>1 DEF FlagStores
<1>3. \A k \in FlagStores(sb) : new[k] = sb[k]
  BY <1>1, <1>2
<1> HIDE DEF new
<1>4. FlagsFollow(new, d, n)
  BY <1>2, <1>3 DEF FlagsFollow
<1> QED
  BY <1>4 DEF new

LEMMA FlagDrained ==
  ASSUME NEW S, NEW sb \in Seq(S), NEW k \in Drainable(sb), NEW d \in Slots, NEW n \in 0 .. NENTRIES,
         FlagsFollow(sb, d, n), sb[k].at = "flags"
  PROVE  sb[k].key = d /\ n > 0 /\ FlagsFollow(RemoveAt(sb, k), Wrap(d + 1), n - 1)
<1> DEFINE new == Tail(sb)
<1>1. /\ k = 1 /\ Len(sb) \in Nat \ {0} /\ DOMAIN sb = 1 .. Len(sb)
      /\ RemoveAt(sb, k) = new /\ DOMAIN new = 1 .. Len(sb) - 1
      /\ \A j \in 1 .. Len(sb) - 1 : new[j] = sb[j + 1]
  BY Drained
<1> HIDE DEF new
<1>2. 1 \in FlagStores(sb)
  BY <1>1 DEF FlagStores
<1>3. n > 0
  BY <1>2, AheadNat DEF FlagsFollow, Window
<1>4. sb[1].key = d
  <2>1. d \in Window(d, n)
    BY <1>3, AheadZero DEF Window
  <2>2. PICK j \in FlagStores(sb) : sb[j].key = d
    BY <2>1 DEF FlagsFollow
  <2>3. sb[1].key \in Slots /\ Ahead(d, d) = 0 /\ Ahead(sb[1].key, d) \in Nat
    BY <1>2, AheadZero, AheadNat DEF FlagsFollow, Window
  <2>4. ~(1 < j)
    BY <1>2, <2>2, <2>3 DEF FlagsFollow
  <2>5. j = 1
    BY <1>1, <2>4 DEF FlagStores
  <2> QED
    BY <2>2, <2>5
<1>5. \A j \in DOMAIN new : (j \in FlagStores(new) <=> j + 1 \in FlagStores(sb)) /\ new[j] = sb[j + 1]
  BY <1>1 DEF FlagStores
<1>6. \A j \in FlagStores(new) : j \in 1 .. Len(sb) - 1 /\ j \in DOMAIN new
  BY <1>1 DEF FlagStores
<1>7. \A s \in Slots : s \in Window(Wrap(d + 1), n - 1) <=> s \in Window(d, n) /\ s # d
  <2>1. \A s \in Slots : s \in Window(Wrap(d + 1), n - 1) <=> 1 <= Ahead(s, d) /\ Ahead(s, d) < 1 + (n - 1)
    BY <1>3, WindowShift, SoSizes
  <2> QED
    BY <1>3, <2>1, AheadZero, AheadNat DEF Window
<1>8. \A s \in Slots \ {d} : Ahead(s, Wrap(d + 1)) = Ahead(s, d) - 1
  BY AheadNext
<1>9. ASSUME NEW j \in FlagStores(new)
      PROVE  /\ j + 1 \in FlagStores(sb) /\ new[j] = sb[j + 1]
             /\ new[j].key \in Window(d, n) /\ new[j].key \in Slots /\ new[j].key # d
  <2>1. j + 1 \in FlagStores(sb) /\ new[j] = sb[j + 1] /\ 1 < j + 1
    BY <1>5, <1>6
  <2>2. sb[j + 1].key \in Window(d, n)
    BY <2>1 DEF FlagsFollow
  <2>3. Ahead(sb[1].key, d) < Ahead(sb[j + 1].key, d)
    BY <1>2, <2>1 DEF FlagsFollow
  <2> QED
    BY <1>4, <2>1, <2>2, <2>3, AheadNat DEF Window
<1>10. ASSUME NEW i \in FlagStores(new), NEW j \in FlagStores(new), i < j
       PROVE  Ahead(new[i].key, Wrap(d + 1)) < Ahead(new[j].key, Wrap(d + 1))
  <2>1. i + 1 < j + 1
    BY <1>6, <1>10
  <2>2. Ahead(sb[i + 1].key, d) < Ahead(sb[j + 1].key, d)
    BY <1>9, <2>1 DEF FlagsFollow
  <2>3. /\ Ahead(new[i].key, Wrap(d + 1)) = Ahead(sb[i + 1].key, d) - 1
        /\ Ahead(new[j].key, Wrap(d + 1)) = Ahead(sb[j + 1].key, d) - 1
    BY <1>8, <1>9
  <2>4. Ahead(sb[i + 1].key, d) \in Nat /\ Ahead(sb[j + 1].key, d) \in Nat
    BY <1>9, AheadNat
  <2> QED
    BY <2>2, <2>3, <2>4
<1>11. ASSUME NEW s \in Window(Wrap(d + 1), n - 1)
       PROVE  \E j \in FlagStores(new) : new[j].key = s
  <2>1. s \in Window(d, n) /\ s # d
    BY <1>7 DEF Window
  <2>2. PICK j \in FlagStores(sb) : sb[j].key = s
    BY <2>1 DEF FlagsFollow
  <2>3. j \in 1 .. Len(sb) /\ j # 1
    BY <1>1, <1>4, <2>1, <2>2 DEF FlagStores
  <2>4. j - 1 \in DOMAIN new /\ (j - 1) + 1 = j
    BY <1>1, <2>3
  <2> QED
    BY <1>5, <2>2, <2>4
<1>12. \A j \in FlagStores(new) : new[j].key \in Window(Wrap(d + 1), n - 1)
  BY <1>7, <1>9
<1>13. FlagsFollow(new, Wrap(d + 1), n - 1)
  BY <1>10, <1>11, <1>12 DEF FlagsFollow
<1> QED
  BY <1>1, <1>3, <1>4, <1>13

LEMMA OtherDrained ==
  ASSUME NEW S, NEW sb \in Seq(S), NEW k \in Drainable(sb), NEW d \in Slots, NEW n \in 0 .. NENTRIES,
         FlagsFollow(sb, d, n), sb[k].at # "flags"
  PROVE  FlagsFollow(RemoveAt(sb, k), d, n)
<1> DEFINE new == Tail(sb)
<1>1. /\ k = 1 /\ Len(sb) \in Nat \ {0} /\ DOMAIN sb = 1 .. Len(sb)
      /\ RemoveAt(sb, k) = new /\ DOMAIN new = 1 .. Len(sb) - 1
      /\ \A j \in 1 .. Len(sb) - 1 : new[j] = sb[j + 1]
  BY Drained
<1> HIDE DEF new
<1>2. \A j \in FlagStores(sb) : j # 1 /\ j \in 1 .. Len(sb)
  BY <1>1 DEF FlagStores
<1>3. \A j \in DOMAIN new : (j \in FlagStores(new) <=> j + 1 \in FlagStores(sb)) /\ new[j] = sb[j + 1]
  BY <1>1 DEF FlagStores
<1>4. \A j \in FlagStores(new) : j \in 1 .. Len(sb) - 1 /\ j + 1 \in FlagStores(sb) /\ new[j] = sb[j + 1]
  BY <1>1, <1>3 DEF FlagStores
<1>5. ASSUME NEW i \in FlagStores(new), NEW j \in FlagStores(new), i < j
      PROVE  Ahead(new[i].key, d) < Ahead(new[j].key, d)
  <2>1. i + 1 < j + 1
    BY <1>4, <1>5
  <2> QED
    BY <1>4, <2>1 DEF FlagsFollow
<1>6. ASSUME NEW s \in Window(d, n)
      PROVE  \E j \in FlagStores(new) : new[j].key = s
  <2>1. PICK j \in FlagStores(sb) : sb[j].key = s
    BY DEF FlagsFollow
  <2>2. j - 1 \in DOMAIN new /\ (j - 1) + 1 = j
    BY <1>1, <1>2
  <2> QED
    BY <1>3, <2>1, <2>2
<1> QED
  BY <1>1, <1>4, <1>5, <1>6 DEF FlagsFollow

(***************************************************************************)
(* Whoever loads a flag of the other side's value has none of his own in   *)
(* flight there: it is in memory (vhost.h:108, vio.h:25).                  *)
(***************************************************************************)
LEMMA FlagInFlight ==
  ASSUME NEW S, NEW sb \in Seq(S), NEW d \in Slots, NEW n \in 0 .. NENTRIES, NEW v, NEW mem,
         FlagsFollow(sb, d, n), \A k \in FlagStores(sb) : sb[k].val = v, NEW s \in Window(d, n)
  PROVE  Load(sb, "flags", s, mem) = v
<1>1. PICK k \in FlagStores(sb) : sb[k].key = s
  BY DEF FlagsFollow
<1>2. FlagStores(sb) \subseteq Nat
  BY LenProperties DEF FlagStores
<1>3. ASSUME NEW j \in FlagStores(sb), sb[j].key = s
      PROVE  j = k
  <2>1. s \in Slots
    BY DEF Window
  <2>2. ~(j < k) /\ ~(k < j)
    BY <1>1, <1>3, <2>1, AheadNat DEF FlagsFollow
  <2> QED
    BY <1>2, <2>2
<1>4. /\ k \in DOMAIN sb /\ k \in Nat /\ sb[k].at = "flags" /\ sb[k].key = s
      /\ \A j \in DOMAIN sb : sb[j].at = "flags" /\ sb[j].key = s => j = k
  BY <1>1, <1>2, <1>3 DEF FlagStores
<1>5. \A j \in DOMAIN sb : sb[j].at = "flags" /\ sb[j].key = s <=> j = k
  BY <1>4
<1>6. {j \in DOMAIN sb : sb[j].at = "flags" /\ sb[j].key = s} = {k}
  BY <1>4, <1>5
<1>7. (CHOOSE x \in {k} : \A j \in {k} : j <= x) = k
  BY <1>4
<1>8. Load(sb, "flags", s, mem) = sb[k].val
  BY <1>6, <1>7 DEF Load
<1> QED
  BY <1>8

LEMMA FlagInMemory ==
  ASSUME NEW sb, NEW d, NEW n, NEW mem, FlagsFollow(sb, d, n), NEW s, s \notin Window(d, n)
  PROVE  Load(sb, "flags", s, mem) = mem[s]
<1>1. \A k \in DOMAIN sb : ~(sb[k].at = "flags" /\ sb[k].key = s)
  BY DEF FlagsFollow, FlagStores
<1> QED
  BY <1>1, LoadsMemory

-----------------------------------------------------------------------------
(***************************************************************************)
(* What a state of the invariant says at once.                             *)
(***************************************************************************)
SoInvAt(hd, gd, hf, gf, a) ==
  /\ SoMemory /\ HostControl /\ GuestControl
  /\ IndicesLoaded /\ BuffersApart
  /\ InFlight(hd, gd, hf, gf, a)

LEMMA HostCounts ==
  ASSUME HostControl
  PROVE  /\ HostLeft \in Nat /\ HostLeft <= BATCH /\ HostCopied \in Nat /\ HostCopied <= HostLeft
         /\ HostCount \in Nat
BY SoSizes DEF HostControl, HostLeft, HostCopied, HostCount

LEMMA GuestCounts ==
  ASSUME GuestControl
  PROVE  /\ GuestLeft \in Nat /\ GuestLeft <= BATCH
         /\ GuestFilled \in Nat /\ GuestFilled <= GuestLeft
         /\ GuestEmptied \in Nat /\ GuestEmptied <= GuestLeft
         /\ GuestBase \in Int /\ GuestCount \in Int
BY SoSizes DEF GuestControl, GuestLeft, GuestFilled, GuestEmptied, GuestBase, GuestCount

\* The USED descriptors in memory are the N - a descriptors from gd on.
LEMMA TwoSides ==
  ASSUME NEW hd \in Slots, NEW a \in 0 .. NENTRIES, NEW s \in Slots
  PROVE  Ahead(s, hd) < a <=> ~(Ahead(s, Wrap(hd + a)) < NENTRIES - a)
BY NEntriesAssumption DEF Ahead, Wrap, Slots

LEMMA NoRefillAhead ==
  ASSUME NEW hd \in Slots, NEW gd \in Slots, NEW hf \in 0 .. NENTRIES, NEW gf \in 0 .. NENTRIES,
         NEW a \in 0 .. NENTRIES, HostControl, GuestControl,
         SharedInMemory(hd, gd, hf, gf, a), NEW s \in Slots, Ahead(s, hd) < a
  PROVE  ~(Ahead(s, gd) < gf + GuestLeft)
<1>1. gd = Wrap(hd + a) /\ gf + GuestLeft <= NENTRIES - a
  BY DEF SharedInMemory
<1>2. ~(Ahead(s, gd) < NENTRIES - a)
  BY <1>1, TwoSides
<1> QED
  BY <1>1, <1>2, AheadNat, GuestCounts, SoSizes

LEMMA OwnIs ==
  ASSUME SoMemory, NEW gd, NEW gf, RefillsInFlight(gd, gf)
  PROVE  /\ \A k \in BufStores : guest_sb[k].key \in Slots /\ Own(guest_sb[k].key) = guest_sb[k].val
         /\ \A s \in Slots : (\A k \in BufStores : guest_sb[k].key # s) => Own(s) = bufs[s]
         /\ \A s \in Slots : Own(s) \in Bufs
<1> DEFINE S == GuestBuf \cup GuestFlag
<1>1. guest_sb \in Seq(S)
  BY DEF SoMemory
<1>2. ASSUME NEW k \in BufStores
      PROVE  guest_sb[k].key \in Slots /\ guest_sb[k].val \in Bufs /\ Own(guest_sb[k].key) = guest_sb[k].val
  <2>1. guest_sb[k].at = "bufs" /\ k \in DOMAIN guest_sb /\ k \in Nat
    BY <1>1, LenProperties DEF BufStores
  <2>2. guest_sb[k] \in S
    BY <1>1, <2>1, LenProperties
  <2>3. guest_sb[k] \in GuestBuf
    BY <2>1, <2>2 DEF GuestFlag
  <2>4. \A j \in DOMAIN guest_sb : guest_sb[j].at = "bufs" /\ guest_sb[j].key = guest_sb[k].key => j = k
    BY DEF RefillsInFlight, BufStores
  <2> HIDE DEF S
  <2>5. Load(guest_sb, "bufs", guest_sb[k].key, bufs) = guest_sb[k].val
    BY <2>1, <2>4, LoadsStore
  <2> QED
    BY <2>3, <2>5 DEF GuestBuf, Own
<1>3. ASSUME NEW s \in Slots, \A k \in BufStores : guest_sb[k].key # s
      PROVE  Own(s) = bufs[s]
  <2>1. \A k \in DOMAIN guest_sb : ~(guest_sb[k].at = "bufs" /\ guest_sb[k].key = s)
    BY <1>3 DEF BufStores
  <2> QED
    BY <2>1, LoadsMemory DEF Own
<1>4. \A s \in Slots : bufs[s] \in Bufs
  BY DEF SoMemory
<1> QED
  BY <1>2, <1>3, <1>4

LEMMA OwnSame ==
  ASSUME UNCHANGED <<guest_sb, bufs>>
  PROVE  \A s : Own(s)' = Own(s)
BY DEF Own

-----------------------------------------------------------------------------
(***************************************************************************)
(* What one side leaves alone, and what either side has claimed.           *)
(***************************************************************************)
LEMMA HostFrame ==
  ASSUME UNCHANGED hostVars
  PROVE  /\ HostControl' = HostControl /\ HostAt' = HostAt /\ HostLeft' = HostLeft
         /\ HostCopied' = HostCopied /\ HostCount' = HostCount
BY DEF hostVars, HostControl, HostAt, HostLeft, HostCopied, HostCount

LEMMA GuestFrame ==
  ASSUME UNCHANGED guestVars
  PROVE  /\ GuestControl' = GuestControl /\ GuestAt' = GuestAt /\ GuestLeft' = GuestLeft
         /\ GuestFilled' = GuestFilled /\ GuestEmptied' = GuestEmptied
         /\ GuestBase' = GuestBase /\ GuestCount' = GuestCount
         /\ Stale' = Stale /\ Batch' = Batch
<1>1. GuestControl' = GuestControl /\ GuestAt' = GuestAt
  BY DEF guestVars, GuestControl, GuestAt
<1>2. GuestLeft' = GuestLeft /\ GuestFilled' = GuestFilled /\ GuestEmptied' = GuestEmptied
  BY DEF guestVars, GuestLeft, GuestFilled, GuestEmptied
<1>3. GuestBase' = GuestBase /\ GuestCount' = GuestCount
  BY DEF guestVars, GuestBase, GuestCount
<1>4. Stale' = Stale /\ Batch' = Batch
  BY DEF guestVars, Stale, Batch
<1> QED
  BY <1>1, <1>2, <1>3, <1>4

LEMMA HostClaimed ==
  ASSUME NEW hd \in Slots, NEW gd \in Slots, NEW hf \in 0 .. NENTRIES, NEW gf \in 0 .. NENTRIES,
         NEW a \in 0 .. NENTRIES, HostControl, SharedInMemory(hd, gd, hf, gf, a),
         host_pc # "probe", NEW k \in 1 .. host_num, host_pc = "publish" => k > host_i
  PROVE  /\ host_cur + k - 1 \in Slots
         /\ Ahead(host_cur + k - 1, hd) = hf + k - 1 - (IF host_pc = "publish" THEN host_i ELSE 0)
         /\ Ahead(host_cur + k - 1, hd) < a
<1>1. /\ host_cur \in Slots /\ host_num \in Nat /\ host_i \in Nat /\ host_i < host_num
      /\ host_cur + host_num <= NENTRIES
  BY DEF HostControl
<1>2. HostAt = Wrap(hd + hf) /\ hf + HostLeft <= a
  BY DEF SharedInMemory
<1>3. CASE host_pc = "publish"
  <2>1. host_cur + host_i = Wrap(hd + hf) /\ hf + host_num - host_i <= a
    BY <1>1, <1>2, <1>3, SoSizes DEF HostAt, HostLeft, Wrap, Slots
  <2> QED
    BY <1>1, <1>3, <2>1, SoSizes DEF Wrap, Ahead, Slots
<1>4. CASE host_pc # "publish"
  <2>1. host_cur = Wrap(hd + hf) /\ hf + host_num <= a
    BY <1>1, <1>2, <1>4 DEF HostAt, HostLeft
  <2> QED
    BY <1>1, <1>4, <2>1, SoSizes DEF Wrap, Ahead, Slots
<1> QED
  BY <1>3, <1>4

LEMMA GuestClaimed ==
  ASSUME NEW hd \in Slots, NEW gd \in Slots, NEW hf \in 0 .. NENTRIES, NEW gf \in 0 .. NENTRIES,
         NEW a \in 0 .. NENTRIES, GuestControl, SharedInMemory(hd, gd, hf, gf, a),
         guest_pc \in {"index", "refill", "offer"},
         NEW k \in 1 .. guest_num, guest_pc = "offer" => k > guest_i
  PROVE  LET s == Wrap(guest_cur + k - 1)
         IN  /\ s \in Slots
             /\ Ahead(s, gd) = gf + k - 1 - (IF guest_pc = "offer" THEN guest_i ELSE 0)
             /\ Ahead(s, gd) < NENTRIES - a
<1> DEFINE s == Wrap(guest_cur + k - 1)
<1>1. /\ guest_cur \in Slots /\ guest_num \in Nat /\ guest_i \in Nat /\ guest_i < guest_num
      /\ guest_num <= NENTRIES
  BY SoSizes DEF GuestControl
<1>2. GuestAt = Wrap(gd + gf) /\ gf + GuestLeft <= NENTRIES - a
  BY DEF SharedInMemory
<1>3. s \in Slots
  BY <1>1, SoSizes DEF Wrap, Slots
<1>4. CASE guest_pc = "offer"
  <2>1. Wrap(guest_cur + guest_i) = Wrap(gd + gf) /\ gf + guest_num - guest_i <= NENTRIES - a
    BY <1>1, <1>2, <1>4, SoSizes DEF GuestAt, GuestLeft
  <2>2. s = Wrap(Wrap(gd + gf) + (k - 1 - guest_i))
    BY <1>1, <1>4, <2>1, SoSizes DEF Wrap, Slots
  <2> QED
    BY <1>1, <1>3, <1>4, <2>1, <2>2, SoSizes DEF Wrap, Ahead, Slots
<1>5. CASE guest_pc # "offer"
  <2>1. guest_cur = Wrap(gd + gf) /\ gf + guest_num <= NENTRIES - a
    BY <1>1, <1>2, <1>5 DEF GuestAt, GuestLeft
  <2> QED
    BY <1>1, <1>3, <1>5, <2>1, SoSizes DEF Wrap, Ahead, Slots
<1> QED
  BY <1>4, <1>5

(***************************************************************************)
(* A load or a store of rx.out, and of nf.out: what is left to show of it. *)
(***************************************************************************)
HostIndices ==
  \A k \in DOMAIN host_bufs :
    (host_pc = "publish" => k > host_i) => host_bufs[k] = Own(host_cur + k - 1)

GuestIndices ==
  guest_pc = "index" => \A k \in DOMAIN guest_bufs : guest_bufs[k] = Own(Wrap(guest_cur + k - 1))

LEMMA HostSide ==
  ASSUME NEW hd \in Slots, NEW gd \in Slots, NEW hf \in 0 .. NENTRIES, NEW gf \in 0 .. NENTRIES,
         NEW a \in 0 .. NENTRIES, NEW hf2 \in 0 .. NENTRIES,
         SoInvAt(hd, gd, hf, gf, a), UNCHANGED <<memVars, guest_sb, guestVars>>,
         host_sb' \in Seq(HostPayload \cup HostFlag), HostControl', HostIndices',
         HostAt' = Wrap(hd + hf2), FlagsFollow(host_sb', hd, hf2), hf2 + HostLeft' <= a,
         HostCount' - hf2 = HostCount - hf, PayloadsInFlight(hd, hf2)'
  PROVE  SoInvAt(hd, gd, hf2, gf, a)'
<1>1. /\ SoMemory /\ GuestControl /\ IndicesLoaded /\ BuffersApart /\ SharedInMemory(hd, gd, hf, gf, a)
      /\ RefillsInFlight(gd, gf) /\ PayloadsArrived(gd, gf, a)
  BY DEF SoInvAt, InFlight
<1>2. UNCHANGED <<flags, bufs, payload, guest_sb>> /\ UNCHANGED guestVars
  BY DEF memVars
<1>3. UNCHANGED <<free, guest_bufs, guest_pc, guest_cur>>
  BY DEF guestVars
<1>4. \A s : Own(s)' = Own(s)
  BY <1>2, OwnSame
<1>5. SoMemory'
  BY <1>1, <1>2 DEF SoMemory
<1>6. GuestControl'
  BY <1>1, <1>2, GuestFrame
<1>7. IndicesLoaded'
  BY <1>1, <1>3, <1>4 DEF IndicesLoaded, HostIndices
<1>8. BuffersApart'
  BY <1>1, <1>2, <1>3, <1>4, GuestFrame DEF BuffersApart
<1>9. SharedInMemory(hd, gd, hf2, gf, a)'
  <2>1. FlagsFollow(host_sb, hd, hf2)' /\ FlagsFollow(guest_sb, gd, gf)'
    BY <1>1, <1>2 DEF SharedInMemory
  <2>2. /\ GuestAt' = Wrap(gd + gf) /\ gd = Wrap(hd + a)
        /\ \A s \in Slots : flags'[s] = AVAIL_FLAG <=> Ahead(s, hd) < a
        /\ gf + GuestLeft' <= NENTRIES - a
        /\ HostCount' - hf2 = GuestCount' - gf + (NENTRIES - a)
    BY <1>1, <1>2, GuestFrame DEF SharedInMemory
  <2> QED
    BY <2>1, <2>2 DEF SharedInMemory
<1>10. RefillsInFlight(gd, gf)'
  BY <1>1, <1>2, GuestFrame DEF RefillsInFlight, BufStores, FlagStores
<1>11. PayloadsArrived(gd, gf, a)'
  BY <1>1, <1>2, <1>3, <1>4, GuestFrame DEF PayloadsArrived
<1> QED
  BY <1>5, <1>6, <1>7, <1>8, <1>9, <1>10, <1>11 DEF SoInvAt, InFlight

LEMMA GuestSide ==
  ASSUME NEW hd \in Slots, NEW gd \in Slots, NEW hf \in 0 .. NENTRIES, NEW gf \in 0 .. NENTRIES,
         NEW a \in 0 .. NENTRIES, NEW gf2 \in 0 .. NENTRIES,
         SoInvAt(hd, gd, hf, gf, a), UNCHANGED <<memVars, host_sb, hostVars>>,
         guest_sb' \in Seq(GuestBuf \cup GuestFlag), GuestControl', GuestIndices', BuffersApart',
         GuestAt' = Wrap(gd + gf2), FlagsFollow(guest_sb', gd, gf2), gf2 + GuestLeft' <= NENTRIES - a,
         GuestCount' - gf2 = GuestCount - gf,
         RefillsInFlight(gd, gf2)', PayloadsArrived(gd, gf2, a)',
         \A s \in Slots : Ahead(s, hd) < a => Own(s)' = Own(s)
  PROVE  SoInvAt(hd, gd, hf, gf2, a)'
<1>1. /\ SoMemory /\ HostControl /\ IndicesLoaded /\ SharedInMemory(hd, gd, hf, gf, a)
      /\ PayloadsInFlight(hd, hf)
  BY DEF SoInvAt, InFlight
<1>2. UNCHANGED <<flags, bufs, payload, host_sb>> /\ UNCHANGED hostVars
  BY DEF memVars
<1>3. UNCHANGED <<host_pc, host_cur, host_num, host_i, host_bufs>>
  BY <1>2 DEF hostVars
<1>4. SoMemory'
  BY <1>1, <1>2 DEF SoMemory
<1>5. HostControl'
  BY <1>1, <1>2, HostFrame
<1>6. IndicesLoaded'
  <2>0. \A s \in Slots : Ahead(s, hd) < a => Load(guest_sb', "bufs", s, bufs') = Own(s)
    BY DEF Own
  <2>1. ASSUME NEW k \in DOMAIN host_bufs, host_pc = "publish" => k > host_i
        PROVE  host_bufs[k] = Load(guest_sb', "bufs", host_cur + k - 1, bufs')
    <3>1. k \in 1 .. host_num /\ host_pc # "probe"
      BY <1>1, LenProperties DEF HostControl
    <3>2. host_cur + k - 1 \in Slots /\ Ahead(host_cur + k - 1, hd) < a
      BY <1>1, <2>1, <3>1, HostClaimed
    <3>3. host_bufs[k] = Own(host_cur + k - 1)
      BY <1>1, <2>1 DEF IndicesLoaded
    <3> QED
      BY <2>0, <3>2, <3>3
  <2>2. HostIndices'
    BY <1>3, <2>1 DEF HostIndices, Own
  <2> QED
    BY <2>2 DEF IndicesLoaded, GuestIndices, HostIndices
<1>7. SharedInMemory(hd, gd, hf, gf2, a)'
  <2>1. FlagsFollow(host_sb, hd, hf)' /\ FlagsFollow(guest_sb, gd, gf2)'
    BY <1>1, <1>2 DEF SharedInMemory
  <2>2. /\ HostAt' = Wrap(hd + hf) /\ gd = Wrap(hd + a)
        /\ \A s \in Slots : flags'[s] = AVAIL_FLAG <=> Ahead(s, hd) < a
        /\ hf + HostLeft' <= a
        /\ HostCount' - hf = GuestCount' - gf2 + (NENTRIES - a)
    BY <1>1, <1>2, HostFrame DEF SharedInMemory
  <2> QED
    BY <2>1, <2>2 DEF SharedInMemory
<1>8. PayloadsInFlight(hd, hf)'
  <2>1. \A s \in Window(hd, hf + HostCopied) : Own(s)' = Own(s)
    <3> TAKE s \in Window(hd, hf + HostCopied)
    <3>1. s \in Slots /\ Ahead(s, hd) < hf + HostCopied /\ hf + HostLeft <= a
      BY <1>1 DEF Window, SharedInMemory
    <3>2. HostLeft \in Nat /\ HostCopied \in Nat /\ HostCopied <= HostLeft
      BY <1>1, HostCounts
    <3>3. Ahead(s, hd) \in Nat /\ hf \in Nat /\ a \in Nat
      BY <3>1, AheadNat, SoSizes
    <3>4. Ahead(s, hd) < a
      BY <3>1, <3>2, <3>3
    <3> QED
      BY <3>1, <3>4
  <2>2. HostCount' = HostCount /\ HostCopied' = HostCopied
    BY <1>2, HostFrame
  <2> QED
    BY <1>1, <1>2, <2>1, <2>2 DEF PayloadsInFlight, PayloadStores, FlagStores, HostId
<1> QED
  BY <1>4, <1>5, <1>6, <1>7, <1>8 DEF SoInvAt, InFlight
-----------------------------------------------------------------------------
(***************************************************************************)
(* The steps of rx.out.                                                    *)
(***************************************************************************)
LEMMA Unpacked ==
  ASSUME NEW hd, NEW gd, NEW hf, NEW gf, NEW a, SoInvAt(hd, gd, hf, gf, a)
  PROVE  /\ SoMemory /\ HostControl /\ GuestControl /\ IndicesLoaded /\ BuffersApart
         /\ SharedInMemory(hd, gd, hf, gf, a) /\ RefillsInFlight(gd, gf)
         /\ PayloadsInFlight(hd, hf) /\ PayloadsArrived(gd, gf, a)
BY DEF SoInvAt, InFlight

LEMMA HostFlagValues ==
  ASSUME SoMemory
  PROVE  /\ host_sb \in Seq(HostPayload \cup HostFlag)
         /\ \A k \in FlagStores(host_sb) : host_sb[k].val = USED_FLAG
         /\ \A k \in DOMAIN host_sb : host_sb[k].at # "bufs"
<1>1. host_sb \in Seq(HostPayload \cup HostFlag)
  BY DEF SoMemory
<1>2. \A k \in DOMAIN host_sb : host_sb[k] \in HostPayload \cup HostFlag
  BY <1>1, LenProperties
<1> QED
  BY <1>1, <1>2 DEF FlagStores, HostPayload, HostFlag

LEMMA GuestFlagValues ==
  ASSUME SoMemory
  PROVE  /\ guest_sb \in Seq(GuestBuf \cup GuestFlag)
         /\ \A k \in FlagStores(guest_sb) : guest_sb[k].val = AVAIL_FLAG
         /\ \A k \in DOMAIN guest_sb : guest_sb[k].at # "payload"
<1>1. guest_sb \in Seq(GuestBuf \cup GuestFlag)
  BY DEF SoMemory
<1>2. \A k \in DOMAIN guest_sb : guest_sb[k] \in GuestBuf \cup GuestFlag
  BY <1>1, LenProperties
<1> QED
  BY <1>1, <1>2 DEF FlagStores, GuestBuf, GuestFlag

\* A cursor n - 1 descriptors further on, if it is not one that was passed already.
LEMMA LastAhead ==
  ASSUME NEW d \in Slots, NEW m \in 0 .. NENTRIES, NEW n \in 1 .. NENTRIES,
         ~(Ahead(Wrap(Wrap(d + m) + n - 1), d) < m)
  PROVE  /\ Wrap(Wrap(d + m) + n - 1) \in Slots
         /\ Ahead(Wrap(Wrap(d + m) + n - 1), d) = m + n - 1
BY NEntriesAssumption DEF Ahead, Wrap, Slots

LEMMA HostProbeStep ==
  ASSUME NEW hd \in Slots, NEW gd \in Slots, NEW hf \in 0 .. NENTRIES, NEW gf \in 0 .. NENTRIES,
         NEW a \in 0 .. NENTRIES, SoInvAt(hd, gd, hf, gf, a), HostProbe
  PROVE  SoInvAt(hd, gd, hf, gf, a)'
<1>1. /\ SoMemory /\ HostControl /\ GuestControl /\ IndicesLoaded /\ BuffersApart
      /\ SharedInMemory(hd, gd, hf, gf, a) /\ PayloadsInFlight(hd, hf)
  BY Unpacked
<1>2. /\ host_pc = "probe" /\ host_pc' = "index"
      /\ UNCHANGED <<memVars, host_sb, guest_sb, guestVars, host_cur, host_i, host_bufs, host_sent>>
  BY DEF HostProbe, Loads
<1>3. PICK n \in 1 .. BATCH :
        /\ Contiguous(host_cur, n)
        /\ Load(host_sb, "flags", Wrap(host_cur + n - 1), flags) = AVAIL_FLAG
        /\ host_num' = n
  BY DEF HostProbe
<1>4. host_cur \in Slots /\ host_num = 0 /\ host_i = 0 /\ host_sent \in Nat /\ host_bufs \in Seq(Bufs) /\ Len(host_bufs) = 0
  BY <1>1, <1>2 DEF HostControl
<1>5. HostAt = Wrap(hd + hf) /\ host_cur = Wrap(hd + hf)
  BY <1>1, <1>2 DEF SharedInMemory, HostAt
<1>6. n \in 1 .. NENTRIES
  BY SoSizes
<1> DEFINE s == Wrap(host_cur + n - 1)
<1>7. s \in Slots
  BY <1>4, <1>6, SoSizes DEF Wrap, Slots
<1>8. s \notin Window(hd, hf) /\ flags[s] = AVAIL_FLAG
  <2>1. FlagsFollow(host_sb, hd, hf)
    BY <1>1 DEF SharedInMemory
  <2>2. Load(host_sb, "flags", s, flags) # USED_FLAG
    BY <1>3 DEF AVAIL_FLAG, USED_FLAG
  <2> DEFINE S == HostPayload \cup HostFlag
  <2>3. host_sb \in Seq(S) /\ \A k \in FlagStores(host_sb) : host_sb[k].val = USED_FLAG
    BY <1>1, HostFlagValues
  <2> HIDE DEF s, S
  <2>4. s \in Window(hd, hf) => Load(host_sb, "flags", s, flags) = USED_FLAG
    BY <2>1, <2>3, FlagInFlight
  <2>5. s \notin Window(hd, hf) => Load(host_sb, "flags", s, flags) = flags[s]
    BY <2>1, FlagInMemory
  <2> QED
    BY <1>3, <2>2, <2>4, <2>5 DEF s
<1>9. Ahead(s, hd) < a /\ ~(Ahead(s, hd) < hf)
  BY <1>1, <1>7, <1>8 DEF SharedInMemory, Window
<1>10. hf + n <= a
  <2>1. Ahead(s, hd) = hf + n - 1
    BY <1>5, <1>6, <1>9, LastAhead
  <2> QED
    BY <1>6, <1>9, <2>1, SoSizes
<1>11. HostControl'
  BY <1>2, <1>3, <1>4 DEF HostControl, Contiguous
<1>12. /\ HostAt' = HostAt /\ HostLeft' = n /\ HostCopied = 0 /\ HostCopied' = 0 /\ HostCount' = HostCount
  BY <1>2, <1>3 DEF HostAt, HostLeft, HostCopied, HostCount
<1>13. HostIndices'
  <2>1. DOMAIN host_bufs = {}
    BY <1>4, LenProperties
  <2> QED
    BY <1>2, <2>1 DEF HostIndices
<1>14. PayloadsInFlight(hd, hf)'
  BY <1>1, <1>2, <1>12, OwnSame DEF memVars, PayloadsInFlight, PayloadStores, FlagStores, HostId
<1>15. FlagsFollow(host_sb', hd, hf)
  BY <1>1, <1>2 DEF SharedInMemory
<1>16. host_sb' \in Seq(HostPayload \cup HostFlag)
  BY <1>1, <1>2 DEF SoMemory
<1> HIDE DEF s
<1> QED
  BY <1>2, <1>5, <1>10, <1>11, <1>12, <1>13, <1>14, <1>15, <1>16, HostSide, HostCounts, <1>1

LEMMA HostIndexStep ==
  ASSUME NEW hd \in Slots, NEW gd \in Slots, NEW hf \in 0 .. NENTRIES, NEW gf \in 0 .. NENTRIES,
         NEW a \in 0 .. NENTRIES, SoInvAt(hd, gd, hf, gf, a), HostIndex
  PROVE  SoInvAt(hd, gd, hf, gf, a)'
<1>1. /\ SoMemory /\ HostControl /\ GuestControl /\ IndicesLoaded /\ BuffersApart
      /\ SharedInMemory(hd, gd, hf, gf, a) /\ RefillsInFlight(gd, gf) /\ PayloadsInFlight(hd, hf)
  BY Unpacked
<1>2. /\ host_pc = "index"
      /\ host_bufs' = Append(host_bufs, Load(host_sb, "bufs", host_cur + host_i, bufs))
      /\ \/ host_i + 1 < host_num /\ host_i' = host_i + 1 /\ host_pc' = host_pc
         \/ ~(host_i + 1 < host_num) /\ host_i' = 0 /\ host_pc' = "copy"
      /\ UNCHANGED <<memVars, host_sb, guest_sb, guestVars, host_cur, host_num, host_sent>>
  BY DEF HostIndex, HostGoesOn, Loads
<1>3. /\ host_cur \in Slots /\ host_num \in Nat /\ host_i \in Nat /\ host_sent \in Nat /\ host_bufs \in Seq(Bufs)
      /\ Len(host_bufs) = host_i /\ host_i < host_num /\ host_num <= BATCH /\ host_cur + host_num <= NENTRIES
  BY <1>1, <1>2 DEF HostControl
<1> DEFINE s == host_cur + host_i
<1>4. s \in Slots /\ Ahead(s, hd) < a
  <2>1. host_i + 1 \in 1 .. host_num /\ host_cur + (host_i + 1) - 1 = s
    BY <1>3, SoSizes DEF Slots
  <2> HIDE DEF s
  <2> QED
    BY <1>1, <1>2, <2>1, HostClaimed
<1>5. Load(host_sb, "bufs", s, bufs) = bufs[s]
  BY <1>1, HostFlagValues, LoadsMemory
<1>6. Own(s) = bufs[s] /\ Own(s) \in Bufs
  <2>1. ~(Ahead(s, gd) < gf + GuestLeft)
    BY <1>1, <1>4, NoRefillAhead
  <2>2. GuestLeft \in Nat /\ GuestFilled \in Nat /\ GuestFilled <= GuestLeft /\ Ahead(s, gd) \in Nat /\ gf \in Nat
    BY <1>1, <1>4, GuestCounts, AheadNat, SoSizes
  <2>3. s \notin Window(gd, gf + GuestFilled)
    BY <2>1, <2>2 DEF Window
  <2>4. \A k \in BufStores : guest_sb[k].key # s
    BY <1>1, <2>3 DEF RefillsInFlight
  <2> QED
    BY <1>1, <1>4, <2>4, OwnIs
<1>7. /\ host_bufs' \in Seq(Bufs) /\ Len(host_bufs') = host_i + 1
      /\ \A k \in 1 .. host_i : host_bufs'[k] = host_bufs[k]
      /\ host_bufs'[host_i + 1] = Own(s)
      /\ DOMAIN host_bufs = 1 .. host_i /\ DOMAIN host_bufs' = 1 .. host_i + 1
  BY <1>2, <1>3, <1>5, <1>6, AppendProperties, LenProperties
<1>8. HostControl'
  BY <1>2, <1>3, <1>7, SoSizes DEF HostControl
<1>9. HostAt' = HostAt /\ HostLeft' = HostLeft /\ HostCopied = 0 /\ HostCopied' = 0 /\ HostCount' = HostCount
  BY <1>2 DEF HostAt, HostLeft, HostCopied, HostCount
<1>10. HostIndices'
  <2>1. ASSUME NEW k \in DOMAIN host_bufs'
        PROVE  host_bufs'[k] = Own(host_cur + k - 1)
    <3>1. CASE k = host_i + 1
      <4>1. host_cur + k - 1 = s
        BY <1>3, <3>1 DEF Slots
      <4> QED
        BY <1>7, <3>1, <4>1
    <3>2. CASE k # host_i + 1
      <4>1. k \in 1 .. host_i
        BY <1>3, <1>7, <3>2
      <4> QED
        BY <1>1, <1>2, <1>7, <4>1 DEF IndicesLoaded
    <3> QED
      BY <3>1, <3>2
  <2> QED
    BY <1>2, <2>1 DEF HostIndices, Own, memVars
<1>11. PayloadsInFlight(hd, hf)'
  BY <1>1, <1>2, <1>9, OwnSame DEF memVars, PayloadsInFlight, PayloadStores, FlagStores, HostId
<1>12. /\ FlagsFollow(host_sb', hd, hf) /\ host_sb' \in Seq(HostPayload \cup HostFlag)
       /\ HostAt = Wrap(hd + hf) /\ hf + HostLeft <= a
  BY <1>1, <1>2 DEF SharedInMemory, SoMemory
<1> QED
  BY <1>1, <1>2, <1>8, <1>9, <1>10, <1>11, <1>12, HostSide, HostCounts
LEMMA HostCopyStep ==
  ASSUME NEW hd \in Slots, NEW gd \in Slots, NEW hf \in 0 .. NENTRIES, NEW gf \in 0 .. NENTRIES,
         NEW a \in 0 .. NENTRIES, SoInvAt(hd, gd, hf, gf, a), HostCopy
  PROVE  SoInvAt(hd, gd, hf, gf, a)'
<1> DEFINE S  == HostPayload \cup HostFlag
           st == Store("payload", host_bufs[host_i + 1], host_sent + host_i + 1)
           s  == host_cur + host_i
<1>1. /\ SoMemory /\ HostControl /\ GuestControl /\ IndicesLoaded /\ BuffersApart
      /\ SharedInMemory(hd, gd, hf, gf, a) /\ PayloadsInFlight(hd, hf)
  BY Unpacked
<1>2. /\ host_pc = "copy" /\ host_sb' = Append(host_sb, st)
      /\ \/ host_i + 1 < host_num /\ host_i' = host_i + 1 /\ host_pc' = host_pc
         \/ ~(host_i + 1 < host_num) /\ host_i' = 0 /\ host_pc' = "publish"
      /\ UNCHANGED <<memVars, guest_sb, guestVars, host_cur, host_num, host_bufs, host_sent>>
  BY DEF HostCopy, HostStores, HostGoesOn
<1>3. /\ host_cur \in Slots /\ host_num \in Nat /\ host_i \in Nat /\ host_sent \in Nat /\ host_bufs \in Seq(Bufs)
      /\ Len(host_bufs) = host_num /\ host_i < host_num /\ host_num <= BATCH /\ host_cur + host_num <= NENTRIES
      /\ DOMAIN host_bufs = 1 .. host_num
  BY <1>1, <1>2, LenProperties DEF HostControl
<1>4. s \in Slots /\ Ahead(s, hd) = hf + host_i /\ Ahead(s, hd) < a
  <2>1. host_i + 1 \in 1 .. host_num /\ host_cur + (host_i + 1) - 1 = s
    BY <1>3, SoSizes DEF Slots
  <2>2. s \in Slots /\ Ahead(s, hd) = hf + (host_i + 1) - 1 - 0 /\ Ahead(s, hd) < a
    <3> HIDE DEF s
    <3> QED
      BY <1>1, <1>2, <2>1, HostClaimed
  <2> QED
    BY <1>3, <2>2, SoSizes
<1>5. host_bufs[host_i + 1] = Own(s) /\ Own(s) \in Bufs
  <2>1. host_i + 1 \in DOMAIN host_bufs /\ host_cur + (host_i + 1) - 1 = s
    BY <1>3, SoSizes DEF Slots
  <2>2. \A k \in DOMAIN host_bufs : host_bufs[k] = Own(host_cur + k - 1)
    BY <1>1, <1>2 DEF IndicesLoaded
  <2>3. host_bufs[host_i + 1] \in Bufs
    BY <1>3, <2>1
  <2> QED
    BY <2>1, <2>2, <2>3
<1>6. st.at = "payload" /\ st.key = Own(s) /\ st.val = host_sent + host_i + 1 /\ st \in S
  BY <1>3, <1>5 DEF Store, HostPayload
<1>7. host_sb \in Seq(S)
  BY <1>1 DEF SoMemory
<1> HIDE DEF S, st, s
<1>8. /\ host_sb' \in Seq(S)
      /\ Len(host_sb) \in Nat /\ DOMAIN host_sb = 1 .. Len(host_sb)
      /\ DOMAIN host_sb' = 1 .. Len(host_sb) + 1
      /\ \A k \in 1 .. Len(host_sb) : host_sb'[k] = host_sb[k]
      /\ host_sb'[Len(host_sb) + 1] = st
  BY <1>2, <1>6, <1>7, Appended
<1>9. /\ PayloadStores' = PayloadStores \cup {Len(host_sb) + 1}
      /\ FlagStores(host_sb') = FlagStores(host_sb)
      /\ PayloadStores \subseteq 1 .. Len(host_sb) /\ FlagStores(host_sb) \subseteq 1 .. Len(host_sb)
  BY <1>6, <1>8 DEF PayloadStores, FlagStores
<1>10. FlagsFollow(host_sb', hd, hf) /\ FlagsFollow(host_sb, hd, hf)
  BY <1>1, <1>2, <1>6, <1>7, OtherAppended DEF SharedInMemory
<1>11. HostControl'
  BY <1>2, <1>3 DEF HostControl
<1>12. HostAt' = HostAt /\ HostLeft' = HostLeft /\ HostCopied = host_i /\ HostCopied' = host_i + 1 /\ HostCount' = HostCount /\ HostCount = host_sent
  <2>1. host_cur = Wrap(host_cur + 0)
    BY <1>3, WrapZero
  <2> QED
    BY <1>2, <1>3, <2>1 DEF HostAt, HostLeft, HostCopied, HostCount
<1>13. HostIndices'
  BY <1>1, <1>2, <1>3 DEF HostIndices, IndicesLoaded, Own, memVars
<1>14. \A t \in Slots : t \in Window(hd, hf + HostCopied') <=> t \in Window(hd, hf + HostCopied) \/ t = s
  <2> TAKE t \in Slots
  <2>1. Ahead(t, hd) \in Nat /\ hf \in Nat
    BY AheadNat, SoSizes
  <2>2. Ahead(t, hd) < hf + (host_i + 1) <=> Ahead(t, hd) < hf + host_i \/ Ahead(t, hd) = hf + host_i
    BY <1>3, <2>1
  <2>3. Ahead(t, hd) = hf + host_i => t = s
    BY <1>4, AheadBounds
  <2> QED
    BY <1>4, <1>12, <2>2, <2>3 DEF Window
<1>15. PayloadsInFlight(hd, hf)'
  <2>1. \A t : Own(t)' = Own(t)
    BY <1>2, OwnSame DEF memVars
  <2>2. \A n : HostId(n, hf)' = HostId(n, hf)
    BY <1>12 DEF HostId
  <2>3. s \notin Window(hd, hf)
    BY <1>3, <1>4, SoSizes DEF Window
  <2>4. ASSUME NEW k \in PayloadStores'
        PROVE  \E t \in Window(hd, hf + HostCopied') :
                 /\ host_sb'[k].key = Own(t) /\ host_sb'[k].val = HostId(Ahead(t, hd), hf)
                 /\ \A j \in FlagStores(host_sb') : host_sb'[j].key = t => k < j
    <3>1. CASE k = Len(host_sb) + 1
      <4>1. s \in Window(hd, hf + HostCopied')
        BY <1>4, <1>14
      <4>2. host_sb'[k].key = Own(s) /\ host_sb'[k].val = host_sent + host_i + 1
        BY <1>6, <1>8, <3>1
      <4>3. HostId(Ahead(s, hd), hf) = host_sent + host_i + 1
        BY <1>3, <1>4, <1>12, SoSizes DEF HostId
      <4>4. \A j \in FlagStores(host_sb') : host_sb'[j].key # s
        BY <1>10, <2>3 DEF FlagsFollow
      <4> QED
        BY <4>1, <4>2, <4>3, <4>4
    <3>2. CASE k # Len(host_sb) + 1
      <4>1. k \in PayloadStores /\ host_sb'[k] = host_sb[k]
        BY <1>8, <1>9, <3>2
      <4>2. PICK t \in Window(hd, hf + HostCopied) :
              /\ host_sb[k].key = Own(t) /\ host_sb[k].val = HostId(Ahead(t, hd), hf)
              /\ \A j \in FlagStores(host_sb) : host_sb[j].key = t => k < j
        BY <1>1, <4>1 DEF PayloadsInFlight
      <4>3. t \in Window(hd, hf + HostCopied')
        BY <1>14 DEF Window
      <4>4. \A j \in FlagStores(host_sb') : host_sb'[j] = host_sb[j]
        BY <1>8, <1>9
      <4> QED
        BY <1>9, <4>1, <4>2, <4>3, <4>4
    <3> QED
      BY <3>1, <3>2
  <2>5. ASSUME NEW t \in Window(hd, hf + HostCopied')
        PROVE  \/ payload[Own(t)] = HostId(Ahead(t, hd), hf)
               \/ \E k \in PayloadStores' : host_sb'[k].key = Own(t)
    <3>1. CASE t = s
      BY <1>6, <1>8, <1>9, <3>1
    <3>2. CASE t # s
      <4>1. t \in Window(hd, hf + HostCopied)
        BY <1>14, <3>2 DEF Window
      <4>2. \A k \in PayloadStores : k \in PayloadStores' /\ host_sb'[k] = host_sb[k]
        BY <1>8, <1>9
      <4> QED
        BY <1>1, <4>1, <4>2 DEF PayloadsInFlight
    <3> QED
      BY <3>1, <3>2
  <2>6. payload' = payload
    BY <1>2 DEF memVars
  <2> QED
    BY <2>1, <2>2, <2>4, <2>5, <2>6 DEF PayloadsInFlight
<1>16. HostAt = Wrap(hd + hf) /\ hf + HostLeft <= a
  BY <1>1 DEF SharedInMemory
<1> QED
  BY <1>2, <1>8, <1>10, <1>11, <1>12, <1>13, <1>15, <1>16, HostSide DEF S

LEMMA HostPublishStep ==
  ASSUME NEW hd \in Slots, NEW gd \in Slots, NEW hf \in 0 .. NENTRIES, NEW gf \in 0 .. NENTRIES,
         NEW a \in 0 .. NENTRIES, SoInvAt(hd, gd, hf, gf, a), HostPublish
  PROVE  hf + 1 \in 0 .. NENTRIES /\ SoInvAt(hd, gd, hf + 1, gf, a)'
<1> DEFINE S  == HostPayload \cup HostFlag
           s  == host_cur + host_i
           st == Store("flags", s, USED_FLAG)
<1>1. /\ SoMemory /\ HostControl /\ GuestControl /\ IndicesLoaded /\ BuffersApart
      /\ SharedInMemory(hd, gd, hf, gf, a) /\ PayloadsInFlight(hd, hf)
  BY Unpacked
<1>2. /\ host_pc = "publish" /\ host_sb' = Append(host_sb, st)
      /\ \/ /\ host_i + 1 < host_num /\ host_i' = host_i + 1 /\ host_pc' = host_pc
            /\ UNCHANGED <<host_cur, host_num, host_bufs, host_sent>>
         \/ /\ ~(host_i + 1 < host_num) /\ host_i' = 0 /\ host_pc' = "probe"
            /\ host_cur' = Wrap(host_cur + host_num) /\ host_sent' = host_sent + host_num
            /\ host_num' = 0 /\ host_bufs' = <<>>
      /\ UNCHANGED <<memVars, guest_sb, guestVars>>
  BY DEF HostPublish, HostStores, HostGoesOn
<1>3. /\ host_cur \in Slots /\ host_num \in Nat /\ host_i \in Nat /\ host_sent \in Nat /\ host_bufs \in Seq(Bufs)
      /\ Len(host_bufs) = host_num /\ host_i < host_num /\ host_num <= BATCH /\ host_cur + host_num <= NENTRIES
      /\ DOMAIN host_bufs = 1 .. host_num
  BY <1>1, <1>2, LenProperties DEF HostControl
<1>4. s \in Slots /\ Ahead(s, hd) = hf /\ Ahead(s, hd) < a
  <2>1. host_i + 1 \in 1 .. host_num /\ host_cur + (host_i + 1) - 1 = s
    BY <1>3, SoSizes DEF Slots
  <2>2. s \in Slots /\ Ahead(s, hd) = hf + (host_i + 1) - 1 - host_i /\ Ahead(s, hd) < a
    <3>1. host_i + 1 > host_i
      BY <1>3
    <3> HIDE DEF s
    <3> QED
      BY <1>1, <1>2, <2>1, <3>1, HostClaimed
  <2> QED
    BY <1>3, <2>2, SoSizes
<1>5. hf \in Nat /\ hf < a /\ a \in Nat /\ a <= NENTRIES /\ hf + 1 \in 0 .. NENTRIES /\ hf \in 0 .. NENTRIES - 1 /\ hf + 1 <= NENTRIES
  BY <1>4, SoSizes
<1>6. st.at = "flags" /\ st.key = s /\ st \in S
  BY <1>4 DEF Store, HostFlag
<1>7. host_sb \in Seq(S)
  BY <1>1 DEF SoMemory
<1>8. s = Wrap(hd + hf)
  BY <1>4, AheadBounds
<1>9. /\ HostAt' = Wrap(hd + (hf + 1)) /\ hf + 1 + HostLeft' <= a
      /\ HostCount' - (hf + 1) = HostCount - hf
      /\ hf + 1 + HostCopied' = hf + HostCopied
  <2>1. hf + (host_num - host_i) <= a
    BY <1>1, <1>2 DEF SharedInMemory, HostLeft
  <2>2. CASE host_i + 1 < host_num
    <3>1. host_pc' = "publish" /\ host_i' = host_i + 1 /\ UNCHANGED <<host_cur, host_num, host_sent>>
      BY <1>2, <2>2
    <3>2. Wrap(host_cur + (host_i + 1)) = Wrap(hd + (hf + 1))
      BY <1>3, <1>5, <1>8, <2>1, <2>2, SoSizes DEF Wrap, Slots
    <3> QED
      BY <1>2, <1>3, <1>5, <2>1, <3>1, <3>2 DEF HostAt, HostLeft, HostCount, HostCopied
  <2>3. CASE ~(host_i + 1 < host_num)
    <3>1. /\ host_pc' = "probe" /\ host_i' = 0 /\ host_num' = 0 /\ host_num = host_i + 1
          /\ host_cur' = Wrap(host_cur + host_num) /\ host_sent' = host_sent + host_num
      BY <1>2, <1>3, <2>3
    <3>2. Wrap(host_cur + host_num) = Wrap(hd + (hf + 1))
      BY <1>3, <1>5, <1>8, <3>1, SoSizes DEF Wrap, Slots
    <3> QED
      BY <1>2, <1>3, <1>5, <2>1, <3>1, <3>2 DEF HostAt, HostLeft, HostCount, HostCopied
  <2> QED
    BY <2>2, <2>3
<1>10. HostControl'
  <2>1. Wrap(host_cur + host_num) \in Slots
    BY <1>3, SoSizes DEF Wrap, Slots
  <2>2. <<>> \in Seq(Bufs) /\ Len(<<>>) = 0
    OBVIOUS
  <2>3. CASE host_i + 1 < host_num
    BY <1>2, <1>3, <2>3 DEF HostControl
  <2>4. CASE ~(host_i + 1 < host_num)
    <3>1. /\ host_pc' = "probe" /\ host_i' = 0 /\ host_num' = 0 /\ host_bufs' = <<>>
          /\ host_cur' = Wrap(host_cur + host_num) /\ host_sent' = host_sent + host_num
      BY <1>2, <2>4
    <3> QED
      BY <1>3, <2>1, <2>2, <3>1 DEF HostControl
  <2> QED
    BY <2>3, <2>4
<1>11. HostIndices'
  <2>1. \A t : Own(t)' = Own(t)
    BY <1>2, OwnSame DEF memVars
  <2>2. CASE host_i + 1 < host_num
    <3>1. /\ host_pc' = host_pc /\ host_i' = host_i + 1 /\ UNCHANGED <<host_cur, host_bufs>>
      BY <1>2, <2>2
    <3> QED
      BY <1>1, <1>2, <1>3, <3>1 DEF IndicesLoaded, HostIndices, Own, memVars
  <2>3. CASE ~(host_i + 1 < host_num)
    <3>1. host_bufs' = <<>>
      BY <1>2, <2>3
    <3>2. DOMAIN host_bufs' = {}
      BY <3>1
    <3> QED
      BY <3>2 DEF HostIndices
  <2> QED
    BY <2>2, <2>3
<1> HIDE DEF S, st, s
<1>12. /\ host_sb' \in Seq(S)
       /\ Len(host_sb) \in Nat /\ DOMAIN host_sb = 1 .. Len(host_sb)
       /\ DOMAIN host_sb' = 1 .. Len(host_sb) + 1
       /\ \A k \in 1 .. Len(host_sb) : host_sb'[k] = host_sb[k]
       /\ host_sb'[Len(host_sb) + 1] = st
  BY <1>2, <1>6, <1>7, Appended
<1>13. /\ PayloadStores' = PayloadStores
       /\ FlagStores(host_sb') = FlagStores(host_sb) \cup {Len(host_sb) + 1}
       /\ PayloadStores \subseteq 1 .. Len(host_sb) /\ FlagStores(host_sb) \subseteq 1 .. Len(host_sb)
  BY <1>6, <1>12 DEF PayloadStores, FlagStores
<1>14. FlagsFollow(host_sb', hd, hf + 1)
  BY <1>1, <1>2, <1>5, <1>6, <1>7, <1>8, FlagAppended DEF SharedInMemory
<1>15. PayloadsInFlight(hd, hf + 1)'
  <2>1. \A t : Own(t)' = Own(t)
    BY <1>2, OwnSame DEF memVars
  <2>2. \A n \in Nat : HostId(n, hf + 1)' = HostId(n, hf)
    BY <1>1, <1>5, <1>9, <1>10, HostCounts DEF HostId, HostControl, HostCount
  <2>3. \A t \in Window(hd, hf + HostCopied) : Ahead(t, hd) \in Nat
    BY AheadNat DEF Window
  <2>4. \A k \in PayloadStores : host_sb'[k] = host_sb[k] /\ k \in Nat /\ k < Len(host_sb) + 1
    BY <1>12, <1>13
  <2>5. ASSUME NEW k \in PayloadStores', NEW t \in Window(hd, hf + HostCopied),
               \A j \in FlagStores(host_sb) : host_sb[j].key = t => k < j,
               NEW j \in FlagStores(host_sb'), host_sb'[j].key = t
        PROVE  k < j
    <3>1. CASE j = Len(host_sb) + 1
      BY <1>13, <2>4, <3>1
    <3>2. CASE j # Len(host_sb) + 1
      BY <1>12, <1>13, <2>5, <3>2
    <3> QED
      BY <3>1, <3>2
  <2>6. payload' = payload
    BY <1>2 DEF memVars
  <2>7. ASSUME NEW k \in PayloadStores'
        PROVE  \E t \in Window(hd, hf + 1 + HostCopied') :
                 /\ host_sb'[k].key = Own(t)' /\ host_sb'[k].val = HostId(Ahead(t, hd), hf + 1)'
                 /\ \A j \in FlagStores(host_sb') : host_sb'[j].key = t => k < j
    <3>1. k \in PayloadStores /\ host_sb'[k] = host_sb[k]
      BY <1>13, <2>4
    <3>2. PICK t \in Window(hd, hf + HostCopied) :
            /\ host_sb[k].key = Own(t) /\ host_sb[k].val = HostId(Ahead(t, hd), hf)
            /\ \A j \in FlagStores(host_sb) : host_sb[j].key = t => k < j
      BY <1>1, <3>1 DEF PayloadsInFlight
    <3>3. t \in Window(hd, hf + 1 + HostCopied')
      BY <1>9
    <3>4. HostId(Ahead(t, hd), hf + 1)' = HostId(Ahead(t, hd), hf)
      BY <2>2, <2>3
    <3> QED
      BY <2>1, <2>5, <3>1, <3>2, <3>3, <3>4
  <2>8. ASSUME NEW t \in Window(hd, hf + 1 + HostCopied')
        PROVE  \/ payload[Own(t)] = HostId(Ahead(t, hd), hf)
               \/ \E k \in PayloadStores' : host_sb'[k].key = Own(t)
    <3>1. t \in Window(hd, hf + HostCopied)
      BY <1>9
    <3> QED
      BY <1>1, <1>13, <2>4, <3>1 DEF PayloadsInFlight
  <2>9. \A t \in Window(hd, hf + 1 + HostCopied') : HostId(Ahead(t, hd), hf + 1)' = HostId(Ahead(t, hd), hf)
    BY <1>9, <2>2, <2>3
  <2> QED
    BY <2>1, <2>6, <2>7, <2>8, <2>9 DEF PayloadsInFlight
<1> QED
  BY <1>2, <1>5, <1>9, <1>10, <1>11, <1>12, <1>14, <1>15, HostSide DEF S
-----------------------------------------------------------------------------
(***************************************************************************)
(* The steps of nf.out.                                                    *)
(***************************************************************************)
LEMMA GuestPollStep ==
  ASSUME NEW hd \in Slots, NEW gd \in Slots, NEW hf \in 0 .. NENTRIES, NEW gf \in 0 .. NENTRIES,
         NEW a \in 0 .. NENTRIES, SoInvAt(hd, gd, hf, gf, a), GuestPoll
  PROVE  SoInvAt(hd, gd, hf, gf, a)'
<1>1. /\ SoMemory /\ HostControl /\ GuestControl /\ IndicesLoaded /\ BuffersApart
      /\ SharedInMemory(hd, gd, hf, gf, a) /\ RefillsInFlight(gd, gf) /\ PayloadsArrived(gd, gf, a)
  BY Unpacked
<1>2. /\ guest_pc = "poll" /\ guest_pc' = "index"
      /\ UNCHANGED <<memVars, host_sb, guest_sb, hostVars, guest_cur, guest_i, guest_bufs, guest_prev, free>>
  BY DEF GuestPoll, Loads
<1>3. PICK n \in 1 .. BATCH :
        /\ Load(guest_sb, "flags", Wrap(guest_cur + n - 1), flags) = USED_FLAG
        /\ guest_num' = n
  BY DEF GuestPoll
<1>4. /\ guest_cur \in Slots /\ guest_num = 0 /\ guest_i = 0 /\ guest_prev \in Nat
      /\ guest_bufs \in Seq(Bufs) /\ Len(guest_bufs) = 0
      /\ free \in Seq(Bufs) /\ Len(free) = (BUFS - NENTRIES) - 0
  BY <1>1, <1>2 DEF GuestControl
<1>5. GuestAt = Wrap(gd + gf) /\ guest_cur = Wrap(gd + gf) /\ gd = Wrap(hd + a)
  BY <1>1, <1>2 DEF SharedInMemory, GuestAt
<1>6. n \in 1 .. NENTRIES
  BY SoSizes
<1> DEFINE s == Wrap(guest_cur + n - 1)
<1>7. s \in Slots
  BY <1>4, <1>6, SoSizes DEF Wrap, Slots
<1>8. s \notin Window(gd, gf) /\ flags[s] = USED_FLAG
  <2>1. FlagsFollow(guest_sb, gd, gf)
    BY <1>1 DEF SharedInMemory
  <2>2. Load(guest_sb, "flags", s, flags) # AVAIL_FLAG
    BY <1>3 DEF AVAIL_FLAG, USED_FLAG
  <2> DEFINE S == GuestBuf \cup GuestFlag
  <2>3. guest_sb \in Seq(S) /\ \A k \in FlagStores(guest_sb) : guest_sb[k].val = AVAIL_FLAG
    BY <1>1, GuestFlagValues
  <2> HIDE DEF s, S
  <2>4. s \in Window(gd, gf) => Load(guest_sb, "flags", s, flags) = AVAIL_FLAG
    BY <2>1, <2>3, FlagInFlight
  <2>5. s \notin Window(gd, gf) => Load(guest_sb, "flags", s, flags) = flags[s]
    BY <2>1, FlagInMemory
  <2> QED
    BY <1>3, <2>2, <2>4, <2>5 DEF s
<1>9. Ahead(s, gd) < NENTRIES - a /\ ~(Ahead(s, gd) < gf)
  <2>1. ~(Ahead(s, hd) < a)
    BY <1>1, <1>7, <1>8 DEF SharedInMemory, AVAIL_FLAG, USED_FLAG
  <2> HIDE DEF s
  <2>2. Ahead(s, Wrap(hd + a)) < NENTRIES - a
    BY <1>7, <2>1, TwoSides
  <2> QED
    BY <1>5, <1>7, <1>8, <2>2 DEF Window
<1>10. gf + n <= NENTRIES - a
  <2>1. Ahead(s, gd) = gf + n - 1
    BY <1>5, <1>6, <1>9, LastAhead
  <2> QED
    BY <1>6, <1>9, <2>1, SoSizes
<1>11. GuestControl'
  BY <1>2, <1>3, <1>4 DEF GuestControl
<1>12. /\ GuestAt' = GuestAt /\ GuestLeft' = n /\ GuestFilled = 0 /\ GuestFilled' = 0
       /\ GuestEmptied = 0 /\ GuestEmptied' = 0 /\ GuestBase' = GuestBase /\ GuestCount' = GuestCount
  BY <1>2, <1>3 DEF GuestAt, GuestLeft, GuestFilled, GuestEmptied, GuestBase, GuestCount
<1>13. Stale' = Stale /\ Batch' = Batch
  BY <1>2 DEF Stale, Batch
<1>14. GuestIndices'
  <2>1. DOMAIN guest_bufs = {}
    BY <1>4, LenProperties
  <2> QED
    BY <1>2, <2>1 DEF GuestIndices
<1>15. UNCHANGED <<flags, bufs, payload>> /\ \A t : Own(t)' = Own(t)
  BY <1>2, OwnSame DEF memVars
<1>16. BuffersApart'
  BY <1>1, <1>2, <1>13, <1>15 DEF BuffersApart
<1>17. RefillsInFlight(gd, gf)'
  BY <1>1, <1>2, <1>12 DEF RefillsInFlight, BufStores, FlagStores
<1>18. PayloadsArrived(gd, gf, a)'
  BY <1>1, <1>2, <1>12, <1>13, <1>15 DEF PayloadsArrived
<1>19. /\ FlagsFollow(guest_sb', gd, gf) /\ guest_sb' \in Seq(GuestBuf \cup GuestFlag)
  BY <1>1, <1>2 DEF SharedInMemory, SoMemory
<1> HIDE DEF s
<1> QED
  BY <1>2, <1>5, <1>10, <1>11, <1>12, <1>14, <1>15, <1>16, <1>17, <1>18, <1>19, <1>1, GuestSide, GuestCounts

LEMMA GuestIndexStep ==
  ASSUME NEW hd \in Slots, NEW gd \in Slots, NEW hf \in 0 .. NENTRIES, NEW gf \in 0 .. NENTRIES,
         NEW a \in 0 .. NENTRIES, SoInvAt(hd, gd, hf, gf, a), GuestIndex
  PROVE  SoInvAt(hd, gd, hf, gf, a)'
<1> DEFINE s == Wrap(guest_cur + guest_i)
<1>1. /\ SoMemory /\ HostControl /\ GuestControl /\ IndicesLoaded /\ BuffersApart
      /\ SharedInMemory(hd, gd, hf, gf, a) /\ RefillsInFlight(gd, gf) /\ PayloadsArrived(gd, gf, a)
  BY Unpacked
<1>2. /\ guest_pc = "index" /\ guest_bufs' = Append(guest_bufs, Own(s))
      /\ \/ guest_i + 1 < guest_num /\ guest_i' = guest_i + 1 /\ guest_pc' = guest_pc
         \/ ~(guest_i + 1 < guest_num) /\ guest_i' = 0 /\ guest_pc' = "refill"
      /\ UNCHANGED <<memVars, host_sb, guest_sb, hostVars, guest_cur, guest_num, guest_prev, free>>
  BY DEF GuestIndex, GuestGoesOn, Loads, Own
<1>3. /\ guest_cur \in Slots /\ guest_num \in Nat /\ guest_i \in Nat /\ guest_prev \in Nat
      /\ guest_i < guest_num /\ guest_num <= BATCH
      /\ guest_bufs \in Seq(Bufs) /\ Len(guest_bufs) = guest_i /\ DOMAIN guest_bufs = 1 .. guest_i
      /\ free \in Seq(Bufs) /\ Len(free) = (BUFS - NENTRIES) - 0
  BY <1>1, <1>2, LenProperties DEF GuestControl
<1>4. s \in Slots /\ Own(s) \in Bufs
  <2>1. s \in Slots
    BY <1>3, SoSizes DEF Wrap, Slots
  <2> HIDE DEF s
  <2> QED
    BY <1>1, <2>1, OwnIs
<1>5. /\ guest_bufs' \in Seq(Bufs) /\ Len(guest_bufs') = guest_i + 1
      /\ \A k \in 1 .. guest_i : guest_bufs'[k] = guest_bufs[k]
      /\ guest_bufs'[guest_i + 1] = Own(s)
      /\ DOMAIN guest_bufs' = 1 .. guest_i + 1
  BY <1>2, <1>3, <1>4, AppendProperties, LenProperties
<1>6. GuestControl'
  BY <1>2, <1>3, <1>5 DEF GuestControl
<1>7. UNCHANGED <<flags, bufs, payload>> /\ \A t : Own(t)' = Own(t)
  BY <1>2, OwnSame DEF memVars
<1>8. /\ GuestAt' = GuestAt /\ GuestLeft' = GuestLeft /\ GuestFilled = 0 /\ GuestFilled' = 0
      /\ GuestBase' = GuestBase /\ GuestCount' = GuestCount /\ GuestBase = guest_prev /\ GuestCount = guest_prev
      /\ GuestEmptied = 0
  BY <1>2, <1>3 DEF GuestAt, GuestLeft, GuestFilled, GuestEmptied, GuestBase, GuestCount
<1>9. ASSUME NEW k \in 1 .. guest_i + 1
      PROVE  guest_bufs'[k] = Own(Wrap(guest_cur + k - 1))
  <2>1. CASE k = guest_i + 1
    <3>1. guest_cur + k - 1 = guest_cur + guest_i
      BY <1>3, <2>1 DEF Slots
    <3> QED
      BY <1>5, <2>1, <3>1
  <2>2. CASE k # guest_i + 1
    <3>1. k \in 1 .. guest_i
      BY <1>3, <2>2
    <3> QED
      BY <1>1, <1>2, <1>3, <1>5, <3>1 DEF IndicesLoaded
  <2> QED
    BY <2>1, <2>2
<1>10. GuestIndices'
  BY <1>2, <1>5, <1>7, <1>9 DEF GuestIndices, Own
<1>11. ASSUME NEW k \in 1 .. guest_num
       PROVE  /\ Wrap(guest_cur + k - 1) \in Slots
              /\ Ahead(Wrap(guest_cur + k - 1), gd) = gf + k - 1
              /\ Ahead(Wrap(guest_cur + k - 1), gd) < NENTRIES - a
  <2>1. /\ Wrap(guest_cur + k - 1) \in Slots
        /\ Ahead(Wrap(guest_cur + k - 1), gd) = gf + k - 1 - 0
        /\ Ahead(Wrap(guest_cur + k - 1), gd) < NENTRIES - a
    BY <1>1, <1>2, GuestClaimed
  <2> QED
    BY <1>3, <2>1, SoSizes
<1>12. ASSUME guest_pc' = "index"
       PROVE  BuffersApart' /\ PayloadsArrived(gd, gf, a)'
  <2>1. Stale' = Stale /\ Batch' = Batch /\ Batch = {} /\ GuestEmptied' = 0
    BY <1>2, <1>12 DEF Stale, Batch, GuestEmptied
  <2>2. BuffersApart'
    BY <1>1, <1>2, <1>7, <2>1 DEF BuffersApart
  <2>3. PayloadsArrived(gd, gf, a)'
    BY <1>1, <1>2, <1>7, <1>8, <2>1 DEF PayloadsArrived
  <2> QED
    BY <2>2, <2>3
<1>13. ASSUME guest_pc' # "index"
       PROVE  BuffersApart' /\ PayloadsArrived(gd, gf, a)'
  <2>1. guest_pc' = "refill" /\ guest_i' = 0 /\ guest_num = guest_i + 1
    BY <1>2, <1>3, <1>13
  <2>2. Stale' = Window(guest_cur, guest_num) /\ Batch' = 1 .. guest_num /\ Stale = {} /\ GuestEmptied' = guest_num
    <3>1. Wrap(guest_cur + 0) = guest_cur
      BY <1>3, WrapZero
    <3> QED
      BY <1>2, <1>3, <2>1, <3>1 DEF Stale, Batch, GuestEmptied, GuestLeft
  <2>3. \A k \in 1 .. guest_num : Wrap(guest_cur + k - 1) \in Window(guest_cur, guest_num)
    BY <1>3, SoSizes DEF Window, Wrap, Ahead, Slots
  <2>4. \A j, k \in 1 .. guest_num : Wrap(guest_cur + j - 1) = Wrap(guest_cur + k - 1) => j = k
    BY <1>3, SoSizes DEF Wrap, Slots
  <2>5. \A t, u \in Slots : Own(t) = Own(u) => t = u
    BY <1>1, <2>2 DEF BuffersApart
  <2>6. /\ \A j, k \in DOMAIN free : free[j] = free[k] => j = k
        /\ \A t \in Slots, k \in DOMAIN free : Own(t) # free[k]
    BY <1>1, <2>2 DEF BuffersApart
  <2>7. \A k \in 1 .. guest_num : guest_bufs'[k] = Own(Wrap(guest_cur + k - 1)) /\ Wrap(guest_cur + k - 1) \in Slots
    BY <1>9, <1>11, <2>1
  <2>8. \A j, k \in 1 .. guest_num : guest_bufs'[j] = guest_bufs'[k] => j = k
    BY <2>4, <2>5, <2>7
  <2>9. \A t \in Slots \ Stale', k \in 1 .. guest_num : Own(t) # guest_bufs'[k]
    BY <2>2, <2>3, <2>5, <2>7
  <2>10. \A j \in 1 .. guest_num, k \in DOMAIN free : guest_bufs'[j] # free[k]
    BY <2>6, <2>7
  <2>11. BuffersApart'
    BY <1>2, <1>7, <2>2, <2>5, <2>6, <2>8, <2>9, <2>10 DEF BuffersApart
  <2>12. \A k \in 1 .. guest_num : payload[guest_bufs'[k]] = GuestBase + k
    <3> TAKE k \in 1 .. guest_num
    <3> DEFINE t == Wrap(guest_cur + k - 1)
    <3>1. t \in Slots /\ Ahead(t, gd) = gf + k - 1 /\ Ahead(t, gd) < NENTRIES - a
      BY <1>11
    <3>2. gf + GuestEmptied <= Ahead(t, gd)
      BY <1>8, <3>1, SoSizes
    <3> HIDE DEF t
    <3>3. payload[Own(t)] = GuestCount - gf + Ahead(t, gd) + 1
      BY <1>1, <3>1, <3>2 DEF PayloadsArrived
    <3>4. payload[Own(t)] = GuestBase + k
      BY <1>3, <1>8, <3>1, <3>3, SoSizes
    <3> QED
      BY <2>7, <3>4 DEF t
  <2>13. \A t \in Slots : gf + guest_num <= Ahead(t, gd) => gf + GuestEmptied <= Ahead(t, gd)
    <3> TAKE t \in Slots
    <3>1. Ahead(t, gd) \in Nat /\ gf \in Nat
      BY AheadNat, SoSizes
    <3> QED
      BY <1>3, <1>8, <3>1
  <2>14. PayloadsArrived(gd, gf, a)'
    BY <1>1, <1>7, <1>8, <2>2, <2>12, <2>13 DEF PayloadsArrived
  <2> QED
    BY <2>11, <2>14
<1>14. RefillsInFlight(gd, gf)'
  BY <1>1, <1>2, <1>8 DEF RefillsInFlight, BufStores, FlagStores
<1>15. /\ FlagsFollow(guest_sb', gd, gf) /\ guest_sb' \in Seq(GuestBuf \cup GuestFlag)
       /\ GuestAt' = Wrap(gd + gf) /\ gf + GuestLeft' <= NENTRIES - a
  BY <1>1, <1>2, <1>8 DEF SharedInMemory, SoMemory
<1>16. GuestCount' - gf = GuestCount - gf
  BY <1>8
<1> HIDE DEF s
<1> QED
  BY <1>2, <1>6, <1>7, <1>10, <1>12, <1>13, <1>14, <1>15, <1>16, GuestSide
\* No descriptor has two refills in flight.
RefillsDiffer(sb) ==
  \A j, k \in DOMAIN sb : sb[j].at = "bufs" /\ sb[k].at = "bufs" /\ sb[j].key = sb[k].key => j = k

LEMMA LoadsRefill ==
  ASSUME NEW S, NEW sb \in Seq(S), RefillsDiffer(sb),
         NEW mem, NEW k \in DOMAIN sb, NEW s, sb[k].at = "bufs", sb[k].key = s
  PROVE  Load(sb, "bufs", s, mem) = sb[k].val
<1> DEFINE mine == {j \in DOMAIN sb : sb[j].at = "bufs" /\ sb[j].key = s}
<1>1. mine = {k}
  BY DEF RefillsDiffer
<1>2. k \in Nat
  BY LenProperties
<1>3. (CHOOSE x \in mine : \A j \in mine : j <= x) = k
  BY <1>1, <1>2
<1> QED
  BY <1>1, <1>3 DEF Load

LEMMA LoadsNoRefill ==
  ASSUME NEW sb, NEW mem, NEW s, \A k \in DOMAIN sb : sb[k].at = "bufs" => sb[k].key # s
  PROVE  Load(sb, "bufs", s, mem) = mem[s]
<1>1. \A k \in DOMAIN sb : ~(sb[k].at = "bufs" /\ sb[k].key = s)
  OBVIOUS
<1> QED
  BY <1>1, LoadsMemory

LEMMA LoadsAppended ==
  ASSUME NEW S, NEW sb \in Seq(S), NEW st \in S, NEW mem,
         RefillsDiffer(sb),
         st.at = "bufs" => \A k \in DOMAIN sb : sb[k].at = "bufs" => sb[k].key # st.key
  PROVE  /\ st.at = "bufs" => Load(Append(sb, st), "bufs", st.key, mem) = st.val
         /\ \A t : (st.at = "bufs" => t # st.key) =>
              Load(Append(sb, st), "bufs", t, mem) = Load(sb, "bufs", t, mem)
<1> DEFINE new == Append(sb, st)
           e   == Len(sb) + 1
<1>1. /\ new \in Seq(S)
      /\ Len(sb) \in Nat /\ DOMAIN sb = 1 .. Len(sb) /\ DOMAIN new = 1 .. Len(sb) + 1
      /\ \A k \in 1 .. Len(sb) : new[k] = sb[k]
      /\ new[e] = st
  BY Appended
<1> HIDE DEF new
<1>2. RefillsDiffer(new)
  <2>1. ASSUME NEW j \in DOMAIN new, NEW k \in DOMAIN new,
               new[j].at = "bufs", new[k].at = "bufs", new[j].key = new[k].key
        PROVE  j = k
    <3>1. (j = e \/ j \in DOMAIN sb) /\ (k = e \/ k \in DOMAIN sb)
      BY <1>1
    <3> QED
      BY <1>1, <2>1, <3>1 DEF RefillsDiffer
  <2> QED
    BY <2>1 DEF RefillsDiffer
<1>3. st.at = "bufs" => Load(new, "bufs", st.key, mem) = st.val
  <2>1. e \in DOMAIN new
    BY <1>1
  <2> QED
    BY <1>1, <1>2, <2>1, LoadsRefill
<1>4. ASSUME NEW t, st.at = "bufs" => t # st.key
      PROVE  Load(new, "bufs", t, mem) = Load(sb, "bufs", t, mem)
  <2>1. ASSUME NEW k \in DOMAIN sb, sb[k].at = "bufs", sb[k].key = t
        PROVE  Load(new, "bufs", t, mem) = Load(sb, "bufs", t, mem)
    <3>1. k \in DOMAIN new /\ new[k] = sb[k]
      BY <1>1
    <3>2. Load(sb, "bufs", t, mem) = sb[k].val
      BY <2>1, LoadsRefill
    <3>3. new \in Seq(S) /\ new[k].at = "bufs" /\ new[k].key = t
      BY <1>1, <2>1, <3>1
    <3>4. Load(new, "bufs", t, mem) = new[k].val
      BY <1>2, <3>1, <3>3, LoadsRefill
    <3> QED
      BY <3>1, <3>2, <3>4
  <2>2. ASSUME \A k \in DOMAIN sb : sb[k].at = "bufs" => sb[k].key # t
        PROVE  Load(new, "bufs", t, mem) = Load(sb, "bufs", t, mem)
    <3>1. Load(sb, "bufs", t, mem) = mem[t]
      BY <2>2, LoadsNoRefill
    <3>2. \A k \in DOMAIN new : new[k].at = "bufs" => new[k].key # t
      <4> TAKE k \in DOMAIN new
      <4>1. k = e \/ k \in DOMAIN sb
        BY <1>1
      <4> QED
        BY <1>1, <1>4, <2>2, <4>1
    <3>3. Load(new, "bufs", t, mem) = mem[t]
      BY <3>2, LoadsNoRefill
    <3> QED
      BY <3>1, <3>3
  <2> QED
    BY <2>1, <2>2
<1> QED
  BY <1>3, <1>4 DEF new

LEMMA RefillsOnce ==
  ASSUME NEW gd, NEW gf, RefillsInFlight(gd, gf)
  PROVE  RefillsDiffer(guest_sb)
BY DEF RefillsInFlight, BufStores, RefillsDiffer

\* The buffers of the descriptors, when a store of nf.out's goes into its store buffer.
LEMMA OwnAppended ==
  ASSUME NEW gd, NEW gf, RefillsInFlight(gd, gf), NEW S, NEW st \in S, guest_sb \in Seq(S),
         bufs' = bufs, guest_sb' = Append(guest_sb, st),
         st.at = "bufs" => \A k \in BufStores : guest_sb[k].key # st.key
  PROVE  /\ st.at = "bufs" => Own(st.key)' = st.val
         /\ \A t : (st.at = "bufs" => t # st.key) => Own(t)' = Own(t)
<1>1. st.at = "bufs" => \A k \in DOMAIN guest_sb : guest_sb[k].at = "bufs" => guest_sb[k].key # st.key
  BY DEF BufStores
<1>2. /\ st.at = "bufs" => Load(guest_sb', "bufs", st.key, bufs) = st.val
      /\ \A t : (st.at = "bufs" => t # st.key) => Load(guest_sb', "bufs", t, bufs) = Load(guest_sb, "bufs", t, bufs)
  BY <1>1, LoadsAppended, RefillsOnce
<1> QED
  BY <1>2 DEF Own
LEMMA GuestRefillStep ==
  ASSUME NEW hd \in Slots, NEW gd \in Slots, NEW hf \in 0 .. NENTRIES, NEW gf \in 0 .. NENTRIES,
         NEW a \in 0 .. NENTRIES, SoInvAt(hd, gd, hf, gf, a), GuestRefill
  PROVE  SoInvAt(hd, gd, hf, gf, a)'
<1> DEFINE S == GuestBuf \cup GuestFlag
<1> PICK s : s = Wrap(guest_cur + guest_i)
  OBVIOUS
<1> PICK st : st = Store("bufs", s, free[1])
  OBVIOUS
<1>1. /\ SoMemory /\ HostControl /\ GuestControl /\ IndicesLoaded /\ BuffersApart
      /\ SharedInMemory(hd, gd, hf, gf, a) /\ RefillsInFlight(gd, gf) /\ PayloadsArrived(gd, gf, a)
  BY Unpacked
<1>2. /\ guest_pc = "refill" /\ guest_sb' = Append(guest_sb, st) /\ free' = Tail(free)
      /\ \/ guest_i + 1 < guest_num /\ guest_i' = guest_i + 1 /\ guest_pc' = guest_pc
         \/ ~(guest_i + 1 < guest_num) /\ guest_i' = 0 /\ guest_pc' = "offer"
      /\ UNCHANGED <<memVars, host_sb, hostVars, guest_cur, guest_num, guest_bufs, guest_prev>>
  BY DEF GuestRefill, GuestStores, GuestGoesOn
<1>3. /\ guest_cur \in Slots /\ guest_num \in Nat /\ guest_i \in Nat /\ guest_prev \in Nat
      /\ guest_i < guest_num /\ guest_num <= BATCH
      /\ guest_bufs \in Seq(Bufs) /\ Len(guest_bufs) = guest_num /\ DOMAIN guest_bufs = 1 .. guest_num
      /\ free \in Seq(Bufs) /\ Len(free) = (BUFS - NENTRIES) - guest_i
  BY <1>1, <1>2, LenProperties DEF GuestControl
<1>4. /\ s \in Slots /\ Ahead(s, gd) = gf + guest_i /\ Ahead(s, gd) < NENTRIES - a
  <2>1. guest_i + 1 \in 1 .. guest_num /\ guest_cur + (guest_i + 1) - 1 = guest_cur + guest_i
    BY <1>3 DEF Slots
  <2>2. /\ s \in Slots /\ Ahead(s, gd) = gf + (guest_i + 1) - 1 - 0 /\ Ahead(s, gd) < NENTRIES - a
    BY <1>1, <1>2, <2>1, GuestClaimed
  <2> QED
    BY <1>3, <2>2, SoSizes
<1>5. /\ Len(free) \in Nat \ {0} /\ DOMAIN free = 1 .. Len(free) /\ free[1] \in Bufs
      /\ free' \in Seq(Bufs) /\ Len(free') = Len(free) - 1 /\ DOMAIN free' = 1 .. Len(free) - 1
      /\ \A k \in 1 .. Len(free) - 1 : free'[k] = free[k + 1]
  <2>1. Len(free) \in Nat \ {0} /\ DOMAIN free = 1 .. Len(free)
    BY <1>3, SoSizes, LenProperties
  <2>2. free # <<>>
    BY <2>1
  <2> QED
    BY <1>2, <1>3, <2>1, <2>2, HeadTailProperties, LenProperties
<1>6. st.at = "bufs" /\ st.key = s /\ st.val = free[1] /\ st \in GuestBuf /\ st \in S
  BY <1>4, <1>5 DEF Store, GuestBuf
<1>7. guest_sb \in Seq(S)
  BY <1>1 DEF SoMemory
<1>8. UNCHANGED <<flags, bufs, payload>>
  BY <1>2 DEF memVars
<1> HIDE DEF S
<1>9. /\ guest_sb' \in Seq(S)
      /\ Len(guest_sb) \in Nat /\ DOMAIN guest_sb = 1 .. Len(guest_sb)
      /\ DOMAIN guest_sb' = 1 .. Len(guest_sb) + 1
      /\ \A k \in 1 .. Len(guest_sb) : guest_sb'[k] = guest_sb[k]
      /\ guest_sb'[Len(guest_sb) + 1] = st
  BY <1>2, <1>6, <1>7, Appended
<1>10. /\ BufStores' = BufStores \cup {Len(guest_sb) + 1}
       /\ FlagStores(guest_sb') = FlagStores(guest_sb)
       /\ BufStores \subseteq 1 .. Len(guest_sb) /\ FlagStores(guest_sb) \subseteq 1 .. Len(guest_sb)
  BY <1>6, <1>9 DEF BufStores, FlagStores
<1>11. FlagsFollow(guest_sb', gd, gf) /\ FlagsFollow(guest_sb, gd, gf)
  BY <1>1, <1>2, <1>6, <1>7, OtherAppended DEF SharedInMemory
<1>12. GuestFilled = guest_i /\ GuestEmptied = guest_num /\ GuestLeft = guest_num
  BY <1>2 DEF GuestFilled, GuestEmptied, GuestLeft
<1>13. /\ GuestAt' = GuestAt /\ GuestLeft' = GuestLeft /\ GuestFilled' = guest_i + 1
       /\ GuestEmptied' = GuestEmptied /\ GuestBase' = GuestBase /\ GuestCount' = GuestCount
       /\ Batch' = Batch
  <2>1. Wrap(guest_cur + 0) = guest_cur
    BY <1>3, WrapZero
  <2> QED
    BY <1>2, <1>3, <2>1 DEF GuestAt, GuestLeft, GuestFilled, GuestEmptied, GuestBase, GuestCount, Batch
<1>14. GuestControl'
  <2>1. CASE guest_i + 1 < guest_num
    <3>1. guest_pc' = "refill" /\ guest_i' = guest_i + 1
      BY <1>2, <2>1
    <3>2. Len(free') = (BUFS - NENTRIES) - guest_i'
      BY <1>3, <1>5, <3>1, SoSizes
    <3>3. guest_i' \in Nat /\ guest_i' < guest_num
      BY <1>3, <2>1, <3>1
    <3> QED
      BY <1>2, <1>3, <1>5, <3>1, <3>2, <3>3 DEF GuestControl
  <2>2. CASE ~(guest_i + 1 < guest_num)
    <3>1. guest_pc' = "offer" /\ guest_i' = 0 /\ guest_num = guest_i + 1
      BY <1>2, <1>3, <2>2
    <3>2. Len(free') = (BUFS - NENTRIES) - guest_num /\ 0 < guest_num
      BY <1>3, <1>5, <3>1, SoSizes
    <3> QED
      BY <1>2, <1>3, <1>5, <3>1, <3>2 DEF GuestControl
  <2> QED
    BY <2>1, <2>2
<1>15. GuestIndices'
  BY <1>2 DEF GuestIndices
<1>16. \A k \in BufStores : guest_sb[k].key # s
  <2>1. ~(Ahead(s, gd) < gf + guest_i)
    BY <1>3, <1>4, SoSizes
  <2> QED
    BY <1>1, <1>12, <2>1 DEF RefillsInFlight, Window
<1>17. Own(s)' = free[1] /\ \A t : t # s => Own(t)' = Own(t)
  BY <1>1, <1>2, <1>6, <1>7, <1>8, <1>16, OwnAppended
<1>18. RefillsInFlight(gd, gf)'
  <2>1. \A t \in Slots : t \in Window(gd, gf + guest_i) => t \in Window(gd, gf + (guest_i + 1))
    <3> TAKE t \in Slots
    <3>1. Ahead(t, gd) \in Nat
      BY AheadNat
    <3> QED
      BY <1>3, <3>1, SoSizes DEF Window
  <2>2. s \in Window(gd, gf + (guest_i + 1))
    BY <1>3, <1>4, SoSizes DEF Window
  <2>3. s \notin Window(gd, gf)
    BY <1>3, <1>4, SoSizes DEF Window
  <2>4. \A k \in BufStores' : guest_sb'[k].key \in Window(gd, gf + GuestFilled')
    <3> TAKE k \in BufStores'
    <3>1. CASE k = Len(guest_sb) + 1
      BY <1>6, <1>9, <1>13, <2>2, <3>1
    <3>2. CASE k # Len(guest_sb) + 1
      <4>1. k \in BufStores /\ guest_sb'[k] = guest_sb[k]
        BY <1>9, <1>10, <3>2
      <4>2. guest_sb[k].key \in Window(gd, gf + guest_i)
        BY <1>1, <1>12, <4>1 DEF RefillsInFlight
      <4> QED
        BY <1>13, <2>1, <4>1, <4>2 DEF Window
    <3> QED
      BY <3>1, <3>2
  <2>5. \A j, k \in BufStores' : guest_sb'[j].key = guest_sb'[k].key => j = k
    <3> TAKE j, k \in BufStores'
    <3>1. \A i \in BufStores : guest_sb'[i] = guest_sb[i]
      BY <1>9, <1>10
    <3>2. \A i, l \in BufStores : guest_sb[i].key = guest_sb[l].key => i = l
      BY <1>1 DEF RefillsInFlight
    <3> QED
      BY <1>6, <1>9, <1>10, <1>16, <3>1, <3>2
  <2>6. \A k \in BufStores', j \in FlagStores(guest_sb') : guest_sb'[j].key = guest_sb'[k].key => k < j
    <3> TAKE k \in BufStores', j \in FlagStores(guest_sb')
    <3>1. j \in FlagStores(guest_sb) /\ guest_sb'[j] = guest_sb[j]
      BY <1>9, <1>10
    <3>2. CASE k = Len(guest_sb) + 1
      BY <1>6, <1>9, <1>11, <2>3, <3>1, <3>2 DEF FlagsFollow
    <3>3. CASE k # Len(guest_sb) + 1
      <4>1. k \in BufStores /\ guest_sb'[k] = guest_sb[k]
        BY <1>9, <1>10, <3>3
      <4> QED
        BY <1>1, <3>1, <4>1 DEF RefillsInFlight
    <3> QED
      BY <3>2, <3>3
  <2> QED
    BY <2>4, <2>5, <2>6 DEF RefillsInFlight
<1>19. Stale = Stale' \cup {s} /\ s \notin Stale'
  <2>1. Stale = Window(s, guest_num - guest_i)
    BY <1>2 DEF Stale
  <2>2. guest_num - guest_i \in 1 .. NENTRIES
    BY <1>3, SoSizes
  <2>3. CASE guest_i + 1 < guest_num
    <3>1. Stale' = Window(Wrap(guest_cur + (guest_i + 1)), guest_num - (guest_i + 1))
      BY <1>2, <2>3 DEF Stale
    <3>2. Wrap(guest_cur + (guest_i + 1)) = Wrap(s + 1)
      BY <1>3, SoSizes DEF Wrap, Slots
    <3>3. \A t \in Slots : t \in Window(s, guest_num - guest_i) <=> t = s \/ t \in Window(Wrap(s + 1), guest_num - (guest_i + 1))
      <4> TAKE t \in Slots
      <4>1. Ahead(t, s) \in Nat /\ Ahead(t, Wrap(s + 1)) = IF t = s THEN NENTRIES - 1 ELSE Ahead(t, s) - 1
        BY <1>4, AheadNat, AheadNext
      <4>2. Ahead(s, s) = 0
        BY <1>4, AheadZero
      <4> QED
        BY <1>3, <2>2, <4>1, <4>2, SoSizes DEF Window
    <3>4. s \notin Window(Wrap(s + 1), guest_num - (guest_i + 1))
      <4>1. Ahead(s, Wrap(s + 1)) = NENTRIES - 1
        BY <1>4, AheadNext
      <4> QED
        BY <1>3, <4>1, SoSizes DEF Window
    <3> QED
      BY <1>4, <2>1, <3>1, <3>2, <3>3, <3>4 DEF Window
  <2>4. CASE ~(guest_i + 1 < guest_num)
    <3>1. Stale' = {} /\ guest_num - guest_i = 1
      BY <1>2, <1>3, <2>4 DEF Stale
    <3>2. \A t \in Slots : Ahead(t, s) < 1 <=> t = s
      BY <1>4, AheadZero, AheadNat
    <3> QED
      BY <1>4, <2>1, <3>1, <3>2 DEF Window
  <2> QED
    BY <2>3, <2>4
<1>20. BuffersApart'
  <2>1. \A k \in DOMAIN free' : k \in 1 .. Len(free) - 1 /\ k + 1 \in DOMAIN free /\ free'[k] = free[k + 1] /\ k + 1 # 1
    BY <1>5
  <2>2. /\ \A t, u \in Slots \ Stale : Own(t) = Own(u) => t = u
        /\ \A j, k \in Batch : guest_bufs[j] = guest_bufs[k] => j = k
        /\ \A j, k \in DOMAIN free : free[j] = free[k] => j = k
        /\ \A t \in Slots \ Stale, k \in Batch : Own(t) # guest_bufs[k]
        /\ \A t \in Slots \ Stale, k \in DOMAIN free : Own(t) # free[k]
        /\ \A j \in Batch, k \in DOMAIN free : guest_bufs[j] # free[k]
    BY <1>1 DEF BuffersApart
  <2>3. \A t \in Slots \ Stale' : \/ t = s /\ Own(t)' = free[1]
                                  \/ t \in Slots \ Stale /\ t # s /\ Own(t)' = Own(t)
    BY <1>17, <1>19
  <2>4. 1 \in DOMAIN free
    BY <1>5
  <2>5. \A j, k \in DOMAIN free' : free'[j] = free'[k] => j = k
    <3> TAKE j, k \in DOMAIN free'
    <3>1. free'[j] = free'[k] => j + 1 = k + 1
      BY <2>1, <2>2
    <3> QED
      BY <2>1, <3>1
  <2>6. \A t, u \in Slots \ Stale' : Own(t)' = Own(u)' => t = u
    BY <2>2, <2>3, <2>4
  <2>7. \A t \in Slots \ Stale', k \in Batch : Own(t)' # guest_bufs[k]
    BY <2>2, <2>3, <2>4
  <2>8. \A t \in Slots \ Stale', k \in DOMAIN free' : Own(t)' # free'[k]
    BY <2>1, <2>2, <2>3, <2>4
  <2>9. \A j \in Batch, k \in DOMAIN free' : guest_bufs[j] # free'[k]
    BY <2>1, <2>2
  <2>10. guest_bufs' = guest_bufs
    BY <1>2
  <2> QED
    BY <1>13, <2>2, <2>5, <2>6, <2>7, <2>8, <2>9, <2>10 DEF BuffersApart
<1>21. PayloadsArrived(gd, gf, a)'
  <2>1. \A t \in Slots : gf + GuestEmptied <= Ahead(t, gd) => t # s
    BY <1>3, <1>4, <1>12, SoSizes
  <2> QED
    BY <1>1, <1>2, <1>8, <1>13, <1>17, <2>1 DEF PayloadsArrived
<1>22. \A t \in Slots : Ahead(t, hd) < a => Own(t)' = Own(t)
  <2>1. ~(Ahead(s, hd) < a)
    BY <1>1, <1>4, TwoSides DEF SharedInMemory
  <2> QED
    BY <1>17, <2>1
<1>23. /\ GuestAt' = Wrap(gd + gf) /\ gf + GuestLeft' <= NENTRIES - a /\ GuestCount' - gf = GuestCount - gf
  BY <1>1, <1>13 DEF SharedInMemory
<1> QED
  BY <1>1, <1>2, <1>9, <1>11, <1>14, <1>15, <1>18, <1>20, <1>21, <1>22, <1>23, GuestSide DEF S

LEMMA GuestOfferStep ==
  ASSUME NEW hd \in Slots, NEW gd \in Slots, NEW hf \in 0 .. NENTRIES, NEW gf \in 0 .. NENTRIES,
         NEW a \in 0 .. NENTRIES, SoInvAt(hd, gd, hf, gf, a), GuestOffer
  PROVE  gf + 1 \in 0 .. NENTRIES /\ SoInvAt(hd, gd, hf, gf + 1, a)'
<1> DEFINE S  == GuestBuf \cup GuestFlag
           s  == Wrap(guest_cur + guest_i)
           st == Store("flags", s, AVAIL_FLAG)
<1>1. /\ SoMemory /\ HostControl /\ GuestControl /\ IndicesLoaded /\ BuffersApart
      /\ SharedInMemory(hd, gd, hf, gf, a) /\ RefillsInFlight(gd, gf) /\ PayloadsArrived(gd, gf, a)
  BY Unpacked
<1>2. /\ guest_pc = "offer" /\ guest_sb' = Append(guest_sb, st)
      /\ \/ guest_i + 1 < guest_num /\ guest_i' = guest_i + 1 /\ guest_pc' = guest_pc
         \/ ~(guest_i + 1 < guest_num) /\ guest_i' = 0 /\ guest_pc' = "check"
      /\ UNCHANGED <<memVars, host_sb, hostVars, guest_cur, guest_num, guest_bufs, guest_prev, free>>
  BY DEF GuestOffer, GuestStores, GuestGoesOn
<1>3. /\ guest_cur \in Slots /\ guest_num \in Nat /\ guest_i \in Nat /\ guest_prev \in Nat
      /\ guest_i < guest_num /\ guest_num <= BATCH
      /\ guest_bufs \in Seq(Bufs) /\ Len(guest_bufs) = guest_num
      /\ free \in Seq(Bufs) /\ Len(free) = (BUFS - NENTRIES) - guest_num
  BY <1>1, <1>2 DEF GuestControl
<1>4. /\ s \in Slots /\ Ahead(s, gd) = gf /\ Ahead(s, gd) < NENTRIES - a
  <2>1. guest_i + 1 \in 1 .. guest_num /\ guest_cur + (guest_i + 1) - 1 = guest_cur + guest_i /\ guest_i + 1 > guest_i
    BY <1>3 DEF Slots
  <2>2. /\ s \in Slots /\ Ahead(s, gd) = gf + (guest_i + 1) - 1 - guest_i /\ Ahead(s, gd) < NENTRIES - a
    BY <1>1, <1>2, <2>1, GuestClaimed
  <2> QED
    BY <1>3, <2>2, SoSizes
<1>5. gf \in Nat /\ gf + 1 \in 0 .. NENTRIES /\ gf \in 0 .. NENTRIES - 1 /\ a \in Nat
  BY <1>4, SoSizes
<1>6. st.at = "flags" /\ st.key = s /\ st \in S
  BY <1>4 DEF Store, GuestFlag
<1>7. guest_sb \in Seq(S)
  BY <1>1 DEF SoMemory
<1>8. UNCHANGED <<flags, bufs, payload>>
  BY <1>2 DEF memVars
<1>9. s = Wrap(gd + gf)
  BY <1>4, AheadBounds
<1>10. /\ GuestAt' = Wrap(gd + (gf + 1)) /\ gf + 1 + GuestLeft' <= NENTRIES - a
       /\ GuestCount' - (gf + 1) = GuestCount - gf /\ GuestCount' = GuestCount + 1 /\ GuestBase' = GuestBase
       /\ gf + 1 + GuestFilled' = gf + GuestFilled
       /\ gf + 1 + GuestEmptied' = gf + GuestEmptied
       /\ Batch' = Batch /\ Stale' = Stale
  <2>1. gf + (guest_num - guest_i) <= NENTRIES - a
    BY <1>1, <1>2 DEF SharedInMemory, GuestLeft
  <2>2. CASE guest_i + 1 < guest_num
    <3>1. guest_pc' = "offer" /\ guest_i' = guest_i + 1 /\ UNCHANGED <<guest_cur, guest_num, guest_prev>>
      BY <1>2, <2>2
    <3>2. Wrap(guest_cur + (guest_i + 1)) = Wrap(gd + (gf + 1))
      BY <1>3, <1>5, <1>9, <2>1, <2>2, SoSizes DEF Wrap, Slots
    <3> QED
      BY <1>2, <1>3, <1>5, <2>1, <3>1, <3>2, SoSizes
      DEF GuestAt, GuestLeft, GuestFilled, GuestEmptied, GuestBase, GuestCount, Batch, Stale
  <2>3. CASE ~(guest_i + 1 < guest_num)
    <3>1. guest_pc' = "check" /\ guest_i' = 0 /\ guest_num = guest_i + 1 /\ UNCHANGED <<guest_cur, guest_num, guest_prev>>
      BY <1>2, <1>3, <2>3
    <3>2. Wrap(guest_cur + guest_num) = Wrap(gd + (gf + 1))
      BY <1>3, <1>5, <1>9, <3>1, SoSizes DEF Wrap, Slots
    <3> QED
      BY <1>2, <1>3, <1>5, <2>1, <3>1, <3>2, SoSizes
      DEF GuestAt, GuestLeft, GuestFilled, GuestEmptied, GuestBase, GuestCount, Batch, Stale
  <2> QED
    BY <2>2, <2>3
<1>11. GuestControl'
  BY <1>2, <1>3 DEF GuestControl
<1>12. GuestIndices'
  BY <1>2 DEF GuestIndices
<1> HIDE DEF S, st, s
<1>13. /\ guest_sb' \in Seq(S)
       /\ Len(guest_sb) \in Nat /\ DOMAIN guest_sb = 1 .. Len(guest_sb)
       /\ DOMAIN guest_sb' = 1 .. Len(guest_sb) + 1
       /\ \A k \in 1 .. Len(guest_sb) : guest_sb'[k] = guest_sb[k]
       /\ guest_sb'[Len(guest_sb) + 1] = st
  BY <1>2, <1>6, <1>7, Appended
<1>14. /\ BufStores' = BufStores
       /\ FlagStores(guest_sb') = FlagStores(guest_sb) \cup {Len(guest_sb) + 1}
       /\ BufStores \subseteq 1 .. Len(guest_sb) /\ FlagStores(guest_sb) \subseteq 1 .. Len(guest_sb)
  BY <1>6, <1>13 DEF BufStores, FlagStores
<1>15. FlagsFollow(guest_sb', gd, gf + 1)
  BY <1>1, <1>2, <1>5, <1>6, <1>7, <1>9, FlagAppended DEF SharedInMemory
<1>16. \A t : Own(t)' = Own(t)
  BY <1>1, <1>2, <1>6, <1>7, <1>8, OwnAppended
<1>17. BuffersApart'
  BY <1>1, <1>2, <1>10, <1>16 DEF BuffersApart
<1>18. RefillsInFlight(gd, gf + 1)'
  <2>1. \A k \in BufStores : guest_sb'[k] = guest_sb[k] /\ k \in Nat /\ k < Len(guest_sb) + 1
    BY <1>13, <1>14
  <2>2. \A k \in BufStores, j \in FlagStores(guest_sb') : guest_sb'[j].key = guest_sb'[k].key => k < j
    <3> TAKE k \in BufStores, j \in FlagStores(guest_sb')
    <3>1. CASE j = Len(guest_sb) + 1
      BY <2>1, <3>1
    <3>2. CASE j # Len(guest_sb) + 1
      <4>1. j \in FlagStores(guest_sb) /\ guest_sb'[j] = guest_sb[j]
        BY <1>13, <1>14, <3>2
      <4> QED
        BY <1>1, <2>1, <4>1 DEF RefillsInFlight
    <3> QED
      BY <3>1, <3>2
  <2>3. \A k \in BufStores : guest_sb'[k].key \in Window(gd, gf + 1 + GuestFilled')
    BY <1>1, <1>10, <2>1 DEF RefillsInFlight
  <2>4. \A j, k \in BufStores : guest_sb'[j].key = guest_sb'[k].key => j = k
    BY <1>1, <2>1 DEF RefillsInFlight
  <2> QED
    BY <1>14, <2>2, <2>3, <2>4 DEF RefillsInFlight
<1>19. PayloadsArrived(gd, gf + 1, a)'
  <2>1. guest_bufs' = guest_bufs
    BY <1>2
  <2> QED
    BY <1>1, <1>8, <1>10, <1>16, <2>1 DEF PayloadsArrived
<1> QED
  BY <1>1, <1>2, <1>5, <1>10, <1>11, <1>12, <1>13, <1>15, <1>16, <1>17, <1>18, <1>19, GuestSide DEF S
LEMMA GuestCheckStep ==
  ASSUME NEW hd \in Slots, NEW gd \in Slots, NEW hf \in 0 .. NENTRIES, NEW gf \in 0 .. NENTRIES,
         NEW a \in 0 .. NENTRIES, SoInvAt(hd, gd, hf, gf, a), GuestCheck
  PROVE  SoInvAt(hd, gd, hf, gf, a)'
<1> PICK b : b = guest_bufs[guest_i + 1]
  OBVIOUS
<1>1. /\ SoMemory /\ HostControl /\ GuestControl /\ IndicesLoaded /\ BuffersApart
      /\ SharedInMemory(hd, gd, hf, gf, a) /\ RefillsInFlight(gd, gf) /\ PayloadsArrived(gd, gf, a)
  BY Unpacked
<1>2. /\ guest_pc = "check" /\ guest_prev' = Load(guest_sb, "payload", b, payload) /\ free' = Append(free, b)
      /\ \/ /\ guest_i + 1 < guest_num /\ guest_i' = guest_i + 1 /\ guest_pc' = guest_pc
            /\ UNCHANGED <<guest_cur, guest_num, guest_bufs>>
         \/ /\ ~(guest_i + 1 < guest_num) /\ guest_i' = 0 /\ guest_pc' = "poll"
            /\ guest_cur' = Wrap(guest_cur + guest_num) /\ guest_num' = 0 /\ guest_bufs' = <<>>
      /\ UNCHANGED <<memVars, host_sb, guest_sb, hostVars>>
  BY DEF GuestCheck, GuestGoesOn, Loads
<1>3. /\ guest_cur \in Slots /\ guest_num \in Nat /\ guest_i \in Nat /\ guest_prev \in Nat
      /\ guest_i < guest_num /\ guest_num <= NENTRIES
      /\ guest_bufs \in Seq(Bufs) /\ Len(guest_bufs) = guest_num /\ DOMAIN guest_bufs = 1 .. guest_num
      /\ free \in Seq(Bufs) /\ Len(free) = (BUFS - NENTRIES) - (guest_num - guest_i)
  BY <1>1, <1>2, SoSizes, LenProperties DEF GuestControl
<1>4. b \in Bufs /\ guest_i + 1 \in 1 .. guest_num
  BY <1>3
<1>5. Batch = guest_i + 1 .. guest_num /\ Stale = {} /\ guest_i + 1 \in Batch
  BY <1>2, <1>3 DEF Batch, Stale
<1>6. guest_prev' = guest_prev + 1
  <2>1. Load(guest_sb, "payload", b, payload) = payload[b]
    BY <1>1, GuestFlagValues, LoadsMemory
  <2>2. payload[b] = GuestBase + (guest_i + 1)
    BY <1>1, <1>5 DEF PayloadsArrived
  <2>3. GuestBase = guest_prev - guest_i
    BY <1>2 DEF GuestBase
  <2> QED
    BY <1>2, <1>3, <2>1, <2>2, <2>3
<1>7. /\ free' \in Seq(Bufs) /\ Len(free') = Len(free) + 1 /\ Len(free) \in Nat
      /\ DOMAIN free = 1 .. Len(free) /\ DOMAIN free' = 1 .. Len(free) + 1
      /\ \A k \in 1 .. Len(free) : free'[k] = free[k]
      /\ free'[Len(free) + 1] = b
  BY <1>2, <1>3, <1>4, AppendProperties, LenProperties
<1>8. UNCHANGED <<flags, bufs, payload>> /\ \A t : Own(t)' = Own(t)
  BY <1>2, OwnSame DEF memVars
<1>9. GuestAt = Wrap(guest_cur + guest_num) /\ GuestAt \in Slots
  BY <1>2, <1>3, SoSizes DEF GuestAt, Wrap, Slots
<1>10. /\ GuestControl' /\ GuestAt' = GuestAt /\ GuestCount' = GuestCount
       /\ GuestLeft' = 0 /\ GuestFilled = 0 /\ GuestFilled' = 0 /\ GuestEmptied = 0 /\ GuestEmptied' = 0
       /\ Stale' = {} /\ Batch' = guest_i + 2 .. guest_num
       /\ \A k \in Batch' : guest_bufs'[k] = guest_bufs[k]
       /\ Batch' # {} => GuestBase' = GuestBase
  <2>1. GuestFilled = 0 /\ GuestEmptied = 0 /\ GuestBase = guest_prev - guest_i /\ GuestCount = GuestBase + guest_num
    BY <1>2 DEF GuestFilled, GuestEmptied, GuestBase, GuestCount
  <2>2. ASSUME guest_i + 1 < guest_num
        PROVE  /\ GuestControl' /\ GuestAt' = GuestAt /\ GuestCount' = GuestCount
               /\ GuestLeft' = 0 /\ GuestFilled' = 0 /\ GuestEmptied' = 0
               /\ Stale' = {} /\ Batch' = guest_i + 2 .. guest_num
               /\ \A k \in Batch' : guest_bufs'[k] = guest_bufs[k]
               /\ GuestBase' = GuestBase
    <3>1. /\ guest_i' = guest_i + 1 /\ guest_pc' = "check" /\ UNCHANGED <<guest_cur, guest_num, guest_bufs>>
      BY <1>2, <2>2
    <3>2. Len(free') = (BUFS - NENTRIES) - (guest_num - guest_i')
      BY <1>3, <1>7, <3>1, SoSizes
    <3>3. GuestControl'
      BY <1>1, <1>3, <1>6, <1>7, <2>2, <3>1, <3>2 DEF GuestControl
    <3>4. GuestBase' = GuestBase
      BY <1>2, <1>3, <1>6, <3>1 DEF GuestBase
    <3>5. GuestAt' = GuestAt /\ GuestCount' = GuestCount /\ GuestLeft' = 0 /\ GuestFilled' = 0 /\ GuestEmptied' = 0 /\ Stale' = {}
      BY <1>2, <3>1, <3>4 DEF GuestAt, GuestCount, GuestLeft, GuestFilled, GuestEmptied, Stale
    <3>6. Batch' = guest_i + 2 .. guest_num
      BY <1>3, <3>1 DEF Batch
    <3> QED
      BY <3>1, <3>3, <3>4, <3>5, <3>6
  <2>3. ASSUME ~(guest_i + 1 < guest_num)
        PROVE  /\ GuestControl' /\ GuestAt' = GuestAt /\ GuestCount' = GuestCount
               /\ GuestLeft' = 0 /\ GuestFilled' = 0 /\ GuestEmptied' = 0
               /\ Stale' = {} /\ Batch' = {} /\ guest_num = guest_i + 1
    <3>1. /\ guest_i' = 0 /\ guest_pc' = "poll" /\ guest_cur' = Wrap(guest_cur + guest_num)
          /\ guest_num' = 0 /\ guest_bufs' = <<>> /\ guest_num = guest_i + 1
      BY <1>2, <1>3, <2>3
    <3>2. Len(free') = (BUFS - NENTRIES) - 0
      <4>1. Len(free') = (BUFS - NENTRIES) - (guest_num - guest_i) + 1
        BY <1>3, <1>7
      <4> QED
        BY <1>3, <3>1, <4>1, SoSizes
    <3>3. <<>> \in Seq(Bufs) /\ Len(<<>>) = 0
      OBVIOUS
    <3>4. GuestControl'
      BY <1>3, <1>6, <1>7, <1>9, <3>1, <3>2, <3>3 DEF GuestControl
    <3>5. GuestCount' = GuestCount
      BY <1>3, <1>6, <2>1, <3>1 DEF GuestCount, GuestBase
    <3>6. GuestAt' = GuestAt /\ GuestLeft' = 0 /\ GuestFilled' = 0 /\ GuestEmptied' = 0 /\ Stale' = {} /\ Batch' = {}
      BY <1>9, <3>1 DEF GuestAt, GuestLeft, GuestFilled, GuestEmptied, Stale, Batch
    <3> QED
      BY <3>1, <3>4, <3>5, <3>6
  <2>4. ~(guest_i + 1 < guest_num) => guest_i + 2 .. guest_num = {}
    BY <1>3
  <2>5. CASE guest_i + 1 < guest_num
    BY <2>1, <2>2, <2>5
  <2>6. CASE ~(guest_i + 1 < guest_num)
    BY <2>1, <2>3, <2>4, <2>6
  <2> QED
    BY <2>5, <2>6
<1>11. \A k \in Batch' : k \in Batch /\ k # guest_i + 1
  BY <1>3, <1>5, <1>10
<1>12. BuffersApart'
  <2>1. /\ \A t, u \in Slots : Own(t) = Own(u) => t = u
        /\ \A j, k \in Batch : guest_bufs[j] = guest_bufs[k] => j = k
        /\ \A j, k \in DOMAIN free : free[j] = free[k] => j = k
        /\ \A t \in Slots, k \in Batch : Own(t) # guest_bufs[k]
        /\ \A t \in Slots, k \in DOMAIN free : Own(t) # free[k]
        /\ \A j \in Batch, k \in DOMAIN free : guest_bufs[j] # free[k]
    BY <1>1, <1>5 DEF BuffersApart
  <2>2. \A k \in DOMAIN free' : (k = Len(free) + 1 /\ free'[k] = b) \/ (k \in DOMAIN free /\ free'[k] = free[k])
    <3> TAKE k \in DOMAIN free'
    <3>1. Len(free) \in Nat /\ k \in 1 .. Len(free) + 1
      BY <1>7
    <3>2. k = Len(free) + 1 \/ k \in 1 .. Len(free)
      BY <3>1
    <3>3. CASE k = Len(free) + 1
      <4>1. free'[Len(free) + 1] = b
        BY <1>7
      <4>2. free'[k] = b
        BY <3>3, <4>1
      <4> QED
        BY <3>3, <4>2
    <3>4. CASE k \in 1 .. Len(free)
      BY <1>7, <3>4
    <3> QED
      BY <3>2, <3>3, <3>4
  <2>3. \A t \in Slots : Own(t) # b
    BY <1>5, <2>1
  <2>4. \A k \in DOMAIN free : free[k] # b
    BY <1>5, <2>1
  <2>5. \A k \in Batch' : guest_bufs'[k] = guest_bufs[k] /\ guest_bufs[k] # b
    BY <1>5, <1>10, <1>11, <2>1
  <2>6. \A j, k \in Batch' : guest_bufs'[j] = guest_bufs'[k] => j = k
    BY <1>11, <2>1, <2>5
  <2>7. \A j, k \in DOMAIN free' : free'[j] = free'[k] => j = k
    BY <2>1, <2>2, <2>4
  <2>8. \A t \in Slots, k \in Batch' : Own(t) # guest_bufs'[k]
    BY <1>11, <2>1, <2>5
  <2>9. \A t \in Slots, k \in DOMAIN free' : Own(t) # free'[k]
    BY <2>1, <2>2, <2>3
  <2>10. \A j \in Batch', k \in DOMAIN free' : guest_bufs'[j] # free'[k]
    BY <1>11, <2>1, <2>2, <2>5
  <2> QED
    BY <1>8, <1>10, <2>1, <2>6, <2>7, <2>8, <2>9, <2>10 DEF BuffersApart
<1>13. PayloadsArrived(gd, gf, a)'
  <2>1. \A k \in Batch' : payload'[guest_bufs'[k]] = GuestBase' + k
    BY <1>1, <1>8, <1>10, <1>11 DEF PayloadsArrived
  <2> QED
    BY <1>1, <1>8, <1>10, <2>1 DEF PayloadsArrived
<1>14. GuestIndices'
  BY <1>2 DEF GuestIndices
<1>15. RefillsInFlight(gd, gf)'
  BY <1>1, <1>2, <1>10 DEF RefillsInFlight, BufStores, FlagStores
<1>16. /\ FlagsFollow(guest_sb', gd, gf) /\ guest_sb' \in Seq(GuestBuf \cup GuestFlag)
       /\ GuestAt' = Wrap(gd + gf) /\ gf + GuestLeft' <= NENTRIES - a
  <2>1. gf + GuestLeft <= NENTRIES - a /\ GuestLeft = 0
    BY <1>1, <1>2 DEF SharedInMemory, GuestLeft
  <2> QED
    BY <1>1, <1>2, <1>10, <2>1 DEF SharedInMemory, SoMemory
<1>17. GuestCount' - gf = GuestCount - gf
  BY <1>10
<1> QED
  BY <1>2, <1>8, <1>10, <1>12, <1>13, <1>14, <1>15, <1>16, <1>17, GuestSide
-----------------------------------------------------------------------------
(***************************************************************************)
(* The stores that reach memory.                                           *)
(***************************************************************************)
LEMMA LoadsDrained ==
  ASSUME NEW S, NEW sb \in Seq(S), NEW k \in Drainable(sb), NEW mem, NEW mem2, RefillsDiffer(sb),
         sb[k].at = "bufs" => /\ mem2[sb[k].key] = sb[k].val
                              /\ \A s \in Slots : s # sb[k].key => mem2[s] = mem[s],
         sb[k].at # "bufs" => mem2 = mem
  PROVE  \A t \in Slots : Load(RemoveAt(sb, k), "bufs", t, mem2) = Load(sb, "bufs", t, mem)
<1> DEFINE new == Tail(sb)
<1>1. /\ k = 1 /\ Len(sb) \in Nat \ {0} /\ DOMAIN sb = 1 .. Len(sb)
      /\ RemoveAt(sb, k) = new /\ new \in Seq(S) /\ DOMAIN new = 1 .. Len(sb) - 1
      /\ \A j \in 1 .. Len(sb) - 1 : new[j] = sb[j + 1]
  BY Drained
<1> HIDE DEF new
<1>2. \A j \in DOMAIN new : new[j] = sb[j + 1] /\ j + 1 \in DOMAIN sb /\ j \in Nat /\ j + 1 # 1
  BY <1>1
<1>3. RefillsDiffer(new)
  <2>1. ASSUME NEW i \in DOMAIN new, NEW j \in DOMAIN new,
               new[i].at = "bufs", new[j].at = "bufs", new[i].key = new[j].key
        PROVE  i = j
    <3>1. i + 1 = j + 1
      BY <1>2, <2>1 DEF RefillsDiffer
    <3> QED
      BY <1>2, <3>1
  <2> QED
    BY <2>1 DEF RefillsDiffer
<1>4. ASSUME NEW t \in Slots
      PROVE  Load(new, "bufs", t, mem2) = Load(sb, "bufs", t, mem)
  <2>1. ASSUME NEW j \in DOMAIN sb, sb[j].at = "bufs", sb[j].key = t, j # 1
        PROVE  Load(new, "bufs", t, mem2) = Load(sb, "bufs", t, mem)
    <3>1. PICK i \in DOMAIN new : i + 1 = j
      <4>1. j - 1 \in DOMAIN new /\ (j - 1) + 1 = j
        BY <1>1, <2>1
      <4> QED
        BY <4>1
    <3>2. new[i].at = "bufs" /\ new[i].key = t /\ new[i].val = sb[j].val
      BY <1>2, <2>1, <3>1
    <3>3. Load(sb, "bufs", t, mem) = sb[j].val
      BY <2>1, LoadsRefill
    <3>4. new \in Seq(S)
      BY <1>1
    <3>5. Load(new, "bufs", t, mem2) = new[i].val
      BY <1>3, <3>2, <3>4, LoadsRefill
    <3> QED
      BY <3>2, <3>3, <3>5
  <2>2. ASSUME sb[1].at = "bufs", sb[1].key = t
        PROVE  Load(new, "bufs", t, mem2) = Load(sb, "bufs", t, mem)
    <3>1. 1 \in DOMAIN sb
      BY <1>1
    <3>2. \A i \in DOMAIN new : new[i].at = "bufs" => new[i].key # t
      <4> TAKE i \in DOMAIN new
      <4>1. i + 1 \in DOMAIN sb /\ i + 1 # 1 /\ new[i] = sb[i + 1]
        BY <1>2
      <4> QED
        BY <2>2, <3>1, <4>1 DEF RefillsDiffer
    <3>3. Load(sb, "bufs", t, mem) = sb[1].val
      BY <2>2, <3>1, LoadsRefill
    <3>4. Load(new, "bufs", t, mem2) = mem2[t]
      BY <3>2, LoadsNoRefill
    <3> QED
      BY <1>1, <2>2, <3>3, <3>4
  <2>3. ASSUME \A j \in DOMAIN sb : sb[j].at = "bufs" => sb[j].key # t
        PROVE  Load(new, "bufs", t, mem2) = Load(sb, "bufs", t, mem)
    <3>1. \A i \in DOMAIN new : new[i].at = "bufs" => new[i].key # t
      BY <1>2, <2>3
    <3>2. Load(new, "bufs", t, mem2) = mem2[t]
      BY <3>1, LoadsNoRefill
    <3>3. Load(sb, "bufs", t, mem) = mem[t]
      BY <2>3, LoadsNoRefill
    <3>4. mem2[t] = mem[t]
      <4>1. 1 \in DOMAIN sb
        BY <1>1
      <4>2. sb[1].at = "bufs" => sb[1].key # t
        BY <2>3, <4>1
      <4> QED
        BY <1>1, <4>2
    <3> QED
      BY <3>2, <3>3, <3>4
  <2> QED
    BY <2>1, <2>2, <2>3
<1> QED
  BY <1>1, <1>4

LEMMA BatchLoaded ==
  ASSUME GuestControl, NEW j \in Batch
  PROVE  guest_bufs[j] \in Bufs
<1>1. j \in 1 .. guest_num /\ guest_pc # "index"
  BY DEF GuestControl, Batch
<1>2. j \in 1 .. Len(guest_bufs) /\ guest_bufs \in Seq(Bufs)
  BY <1>1 DEF GuestControl
<1> QED
  BY <1>2

\* The descriptors whose buffer is in the batch are USED in memory, and emptied.
LEMMA StaleIsUsed ==
  ASSUME NEW hd \in Slots, NEW gd \in Slots, NEW hf \in 0 .. NENTRIES, NEW gf \in 0 .. NENTRIES,
         NEW a \in 0 .. NENTRIES, GuestControl, SharedInMemory(hd, gd, hf, gf, a), NEW t \in Stale
  PROVE  /\ t \in Slots /\ ~(Ahead(t, hd) < a)
         /\ Ahead(t, gd) < gf + GuestEmptied
<1>1. /\ guest_pc = "refill" /\ t \in Slots
      /\ Ahead(t, Wrap(guest_cur + guest_i)) < guest_num - guest_i
  BY DEF Stale, Window
<1>2. /\ guest_cur \in Slots /\ guest_num \in Nat /\ guest_i \in Nat /\ guest_i < guest_num /\ guest_num <= NENTRIES
  BY <1>1, SoSizes DEF GuestControl
<1>3. /\ guest_cur = Wrap(gd + gf) /\ gf + guest_num <= NENTRIES - a /\ GuestEmptied = guest_num /\ gd = Wrap(hd + a)
  BY <1>1 DEF SharedInMemory, GuestAt, GuestLeft, GuestEmptied
<1>4. PICK n \in Nat : n = Ahead(t, Wrap(guest_cur + guest_i)) /\ n < NENTRIES
  <2>1. Wrap(guest_cur + guest_i) \in Slots
    BY <1>2, SoSizes DEF Wrap, Slots
  <2> QED
    BY <1>1, <2>1, AheadNat
<1>5. t = Wrap(Wrap(guest_cur + guest_i) + n)
  <2>1. Wrap(guest_cur + guest_i) \in Slots
    BY <1>2, SoSizes DEF Wrap, Slots
  <2> QED
    BY <1>1, <1>4, <2>1, AheadBounds
<1>6. t = Wrap(gd + (gf + guest_i + n)) /\ gf + guest_i + n < NENTRIES - a
  BY <1>1, <1>2, <1>3, <1>4, <1>5, SoSizes DEF Wrap, Slots
<1>7. Ahead(t, gd) = gf + guest_i + n
  BY <1>2, <1>4, <1>6, AheadWrap, SoSizes
<1> QED
  BY <1>1, <1>2, <1>3, <1>4, <1>6, <1>7, TwoSides, SoSizes

LEMMA HostDrainPayload ==
  ASSUME NEW hd \in Slots, NEW gd \in Slots, NEW hf \in 0 .. NENTRIES, NEW gf \in 0 .. NENTRIES,
         NEW a \in 0 .. NENTRIES, SoInvAt(hd, gd, hf, gf, a), UNCHANGED <<guest_sb, hostVars, guestVars>>,
         NEW k \in Drainable(host_sb), Reaches(host_sb[k]), host_sb' = RemoveAt(host_sb, k),
         host_sb[k].at = "payload"
  PROVE  SoInvAt(hd, gd, hf, gf, a)' /\ UNCHANGED flags
<1> DEFINE S == HostPayload \cup HostFlag
<1>1. /\ SoMemory /\ HostControl /\ GuestControl /\ IndicesLoaded /\ BuffersApart
      /\ SharedInMemory(hd, gd, hf, gf, a) /\ RefillsInFlight(gd, gf)
      /\ PayloadsInFlight(hd, hf) /\ PayloadsArrived(gd, gf, a)
  BY Unpacked
<1>2. host_sb \in Seq(S) /\ payload \in [Bufs -> Nat]
  BY <1>1 DEF SoMemory
<1> PICK b : b = host_sb[k].key
  OBVIOUS
<1> PICK v : v = host_sb[k].val
  OBVIOUS
<1>3. /\ k = 1 /\ Len(host_sb) \in Nat \ {0} /\ DOMAIN host_sb = 1 .. Len(host_sb)
      /\ host_sb' \in Seq(S) /\ DOMAIN host_sb' = 1 .. Len(host_sb) - 1
      /\ \A j \in 1 .. Len(host_sb) - 1 : host_sb'[j] = host_sb[j + 1]
      /\ host_sb[1] \in S
  <2> HIDE DEF S
  <2>1. /\ k = 1 /\ Len(host_sb) \in Nat \ {0} /\ DOMAIN host_sb = 1 .. Len(host_sb)
        /\ RemoveAt(host_sb, k) = Tail(host_sb)
        /\ Tail(host_sb) \in Seq(S) /\ DOMAIN Tail(host_sb) = 1 .. Len(host_sb) - 1
        /\ \A j \in 1 .. Len(host_sb) - 1 : Tail(host_sb)[j] = host_sb[j + 1]
        /\ host_sb[1] \in S
    BY <1>2, Drained
  <2> QED
    BY <2>1
<1>4. b \in Bufs /\ v \in Nat
  <2>1. host_sb[1] \in HostPayload
    BY <1>3 DEF HostFlag
  <2> QED
    BY <1>3, <2>1 DEF HostPayload
<1>5. flags' = flags /\ bufs' = bufs /\ payload' = [payload EXCEPT ![b] = v]
  BY DEF Reaches
<1>6. payload' \in [Bufs -> Nat] /\ payload'[b] = v /\ \A c \in Bufs : c # b => payload'[c] = payload[c]
  BY <1>2, <1>4, <1>5
<1>7. \A t : Own(t)' = Own(t)
  BY <1>5, OwnSame
<1>8. SoMemory'
  BY <1>1, <1>3, <1>5, <1>6 DEF SoMemory
<1>9. HostControl' /\ GuestControl'
  BY <1>1, HostFrame, GuestFrame
<1>10. UNCHANGED <<host_pc, host_cur, host_i, host_bufs, guest_pc, guest_cur, guest_bufs, free>>
  BY DEF hostVars, guestVars
<1>11. IndicesLoaded'
  BY <1>1, <1>5, <1>10 DEF IndicesLoaded, Own
<1>12. BuffersApart'
  BY <1>1, <1>7, <1>10, GuestFrame DEF BuffersApart
<1>13. SharedInMemory(hd, gd, hf, gf, a)'
  <2>1. FlagsFollow(host_sb', hd, hf)
    BY <1>1, <1>2, OtherDrained DEF SharedInMemory
  <2> QED
    BY <1>1, <1>5, <2>1, HostFrame, GuestFrame DEF SharedInMemory
<1>14. RefillsInFlight(gd, gf)'
  BY <1>1, GuestFrame DEF RefillsInFlight, BufStores, FlagStores
<1>15. PICK s \in Window(hd, hf + HostCopied) :
         b = Own(s) /\ v = HostId(Ahead(s, hd), hf)
  <2>1. k \in PayloadStores
    BY <1>3 DEF PayloadStores
  <2> QED
    BY <1>1, <2>1 DEF PayloadsInFlight
<1>16. \A t \in Window(hd, hf + HostCopied) : t \in Slots /\ Ahead(t, hd) < a /\ t \notin Stale
  <2> TAKE t \in Window(hd, hf + HostCopied)
  <2>1. t \in Slots /\ Ahead(t, hd) < hf + HostCopied
    BY DEF Window
  <2>2. HostCopied \in Nat /\ HostLeft \in Nat /\ HostCopied <= HostLeft /\ hf + HostLeft <= a
        /\ Ahead(t, hd) \in Nat /\ hf \in Nat /\ a \in Nat
    BY <1>1, <2>1, HostCounts, AheadNat, SoSizes DEF SharedInMemory
  <2>3. Ahead(t, hd) < a
    BY <2>1, <2>2
  <2> QED
    BY <1>1, <2>1, <2>3, StaleIsUsed
<1>17. \A t \in Slots : Own(t) \in Bufs
  BY <1>1, OwnIs
<1>18. PayloadsInFlight(hd, hf)'
  <2>1. \A j \in DOMAIN host_sb' : host_sb'[j] = host_sb[j + 1] /\ j \in Nat /\ j + 1 \in DOMAIN host_sb
    BY <1>3
  <2>2. \A j \in PayloadStores' : j \in DOMAIN host_sb' /\ j + 1 \in PayloadStores
    BY <2>1 DEF PayloadStores
  <2>3. \A j \in FlagStores(host_sb') : j \in DOMAIN host_sb' /\ j + 1 \in FlagStores(host_sb)
    BY <2>1 DEF FlagStores
  <2>4. HostCopied' = HostCopied /\ \A n : HostId(n, hf)' = HostId(n, hf)
    BY HostFrame DEF HostId
  <2>5. ASSUME NEW j \in PayloadStores'
        PROVE  \E t \in Window(hd, hf + HostCopied) :
                 /\ host_sb'[j].key = Own(t) /\ host_sb'[j].val = HostId(Ahead(t, hd), hf)
                 /\ \A i \in FlagStores(host_sb') : host_sb'[i].key = t => j < i
    <3>1. PICK t \in Window(hd, hf + HostCopied) :
            /\ host_sb[j + 1].key = Own(t) /\ host_sb[j + 1].val = HostId(Ahead(t, hd), hf)
            /\ \A i \in FlagStores(host_sb) : host_sb[i].key = t => j + 1 < i
      BY <1>1, <2>2 DEF PayloadsInFlight
    <3>2. ASSUME NEW i \in FlagStores(host_sb'), host_sb'[i].key = t
          PROVE  j < i
      <4>1. j + 1 < i + 1
        BY <2>1, <2>3, <3>1, <3>2
      <4> QED
        BY <2>1, <2>2, <2>3, <4>1
    <3> QED
      BY <2>1, <2>2, <3>1, <3>2
  <2>6. ASSUME NEW t \in Window(hd, hf + HostCopied)
        PROVE  \/ payload'[Own(t)] = HostId(Ahead(t, hd), hf)
               \/ \E j \in PayloadStores' : host_sb'[j].key = Own(t)
    <3>1. CASE t = s
      BY <1>6, <1>15, <3>1
    <3>2. CASE t # s
      <4>1. Own(t) # b
        BY <1>1, <1>15, <1>16, <3>2 DEF BuffersApart
      <4>2. CASE payload[Own(t)] = HostId(Ahead(t, hd), hf)
        BY <1>6, <1>16, <1>17, <4>1, <4>2
      <4>3. CASE \E j \in PayloadStores : host_sb[j].key = Own(t)
        <5>1. PICK j \in PayloadStores : host_sb[j].key = Own(t)
          BY <4>3
        <5>2. j \in 1 .. Len(host_sb) /\ j # 1
          BY <1>3, <4>1, <5>1 DEF PayloadStores
        <5>3. j - 1 \in DOMAIN host_sb' /\ (j - 1) + 1 = j
          BY <1>3, <5>2
        <5>4. host_sb'[j - 1] = host_sb[j]
          BY <2>1, <5>3
        <5>5. j - 1 \in PayloadStores'
          BY <5>1, <5>3, <5>4 DEF PayloadStores
        <5> QED
          BY <5>1, <5>4, <5>5
      <4> QED
        BY <1>1, <4>2, <4>3 DEF PayloadsInFlight
    <3> QED
      BY <3>1, <3>2
  <2> QED
    BY <1>7, <2>4, <2>5, <2>6 DEF PayloadsInFlight
<1>19. PayloadsArrived(gd, gf, a)'
  <2>1. s \in Slots /\ Ahead(s, hd) < a /\ s \notin Stale
    BY <1>16
  <2>2. \A t \in Slots : gf + GuestEmptied <= Ahead(t, gd) /\ Ahead(t, gd) < NENTRIES - a => Own(t) # b
    <3> TAKE t \in Slots
    <3> HAVE gf + GuestEmptied <= Ahead(t, gd) /\ Ahead(t, gd) < NENTRIES - a
    <3>1. ~(Ahead(t, hd) < a)
      BY <1>1, TwoSides DEF SharedInMemory
    <3>2. t \notin Stale
      BY <1>1, StaleIsUsed, AheadNat, SoSizes, GuestCounts
    <3> QED
      BY <1>1, <1>15, <2>1, <3>1, <3>2 DEF BuffersApart
  <2>3. \A j \in Batch : guest_bufs[j] # b /\ guest_bufs[j] \in Bufs
    <3> TAKE j \in Batch
    <3>1. guest_bufs[j] # b
      BY <1>1, <1>15, <2>1 DEF BuffersApart
    <3>2. guest_bufs[j] \in Bufs
      BY <1>1, BatchLoaded
    <3> QED
      BY <3>1, <3>2
  <2>4. \A t \in Slots : gf + GuestEmptied <= Ahead(t, gd) /\ Ahead(t, gd) < NENTRIES - a =>
          payload'[Own(t)] = GuestCount - gf + Ahead(t, gd) + 1
    BY <1>1, <1>6, <1>17, <2>2 DEF PayloadsArrived
  <2>5. \A j \in Batch : payload'[guest_bufs[j]] = GuestBase + j
    BY <1>1, <1>6, <2>3 DEF PayloadsArrived
  <2> QED
    BY <1>7, <1>10, <2>4, <2>5, GuestFrame DEF PayloadsArrived
<1> QED
  BY <1>5, <1>8, <1>9, <1>11, <1>12, <1>13, <1>14, <1>18, <1>19 DEF SoInvAt, InFlight
LEMMA HostDrainFlag ==
  ASSUME NEW hd \in Slots, NEW gd \in Slots, NEW hf \in 0 .. NENTRIES, NEW gf \in 0 .. NENTRIES,
         NEW a \in 0 .. NENTRIES, SoInvAt(hd, gd, hf, gf, a), UNCHANGED <<guest_sb, hostVars, guestVars>>,
         NEW k \in Drainable(host_sb), Reaches(host_sb[k]), host_sb' = RemoveAt(host_sb, k),
         host_sb[k].at = "flags"
  PROVE  /\ Wrap(hd + 1) \in Slots /\ hf - 1 \in 0 .. NENTRIES /\ a - 1 \in 0 .. NENTRIES
         /\ SoInvAt(Wrap(hd + 1), gd, hf - 1, gf, a - 1)'
         /\ flags[hd] = AVAIL_FLAG /\ flags' = [flags EXCEPT ![hd] = USED_FLAG]
<1> DEFINE S == HostPayload \cup HostFlag
<1>1. /\ SoMemory /\ HostControl /\ GuestControl /\ IndicesLoaded /\ BuffersApart
      /\ SharedInMemory(hd, gd, hf, gf, a) /\ RefillsInFlight(gd, gf)
      /\ PayloadsInFlight(hd, hf) /\ PayloadsArrived(gd, gf, a)
  BY Unpacked
<1>2. host_sb \in Seq(S) /\ flags \in [Slots -> Flags]
  BY <1>1 DEF SoMemory
<1>3. /\ k = 1 /\ Len(host_sb) \in Nat \ {0} /\ DOMAIN host_sb = 1 .. Len(host_sb)
      /\ host_sb' \in Seq(S) /\ DOMAIN host_sb' = 1 .. Len(host_sb) - 1
      /\ \A j \in 1 .. Len(host_sb) - 1 : host_sb'[j] = host_sb[j + 1]
      /\ host_sb[1] \in S
  <2> HIDE DEF S
  <2>1. /\ k = 1 /\ Len(host_sb) \in Nat \ {0} /\ DOMAIN host_sb = 1 .. Len(host_sb)
        /\ RemoveAt(host_sb, k) = Tail(host_sb)
        /\ Tail(host_sb) \in Seq(S) /\ DOMAIN Tail(host_sb) = 1 .. Len(host_sb) - 1
        /\ \A j \in 1 .. Len(host_sb) - 1 : Tail(host_sb)[j] = host_sb[j + 1]
        /\ host_sb[1] \in S
    BY <1>2, Drained
  <2> QED
    BY <2>1
<1>4. host_sb[k].key = hd /\ hf > 0 /\ FlagsFollow(host_sb', Wrap(hd + 1), hf - 1)
  BY <1>1, <1>2, FlagDrained DEF SharedInMemory
<1>5. host_sb[k].val = USED_FLAG
  BY <1>1, <1>3, HostFlagValues DEF FlagStores
<1>6. bufs' = bufs /\ payload' = payload /\ flags' = [flags EXCEPT ![hd] = USED_FLAG]
  BY <1>4, <1>5 DEF Reaches
<1>7. /\ HostLeft \in Nat /\ HostCopied \in Nat /\ HostCopied <= HostLeft /\ HostCount \in Nat
      /\ GuestLeft \in Nat /\ GuestEmptied \in Nat /\ GuestEmptied <= GuestLeft /\ GuestCount \in Int
      /\ hf \in Nat /\ hf >= 1 /\ a \in Nat /\ a >= 1 /\ a <= NENTRIES /\ gf \in Nat /\ NENTRIES \in Nat
      /\ hf + HostLeft <= a /\ gf + GuestLeft <= NENTRIES - a
      /\ hf - 1 \in 0 .. NENTRIES /\ a - 1 \in 0 .. NENTRIES
  <2>1. /\ HostLeft \in Nat /\ HostCopied \in Nat /\ HostCopied <= HostLeft /\ HostCount \in Nat
        /\ GuestLeft \in Nat /\ GuestEmptied \in Nat /\ GuestEmptied <= GuestLeft /\ GuestCount \in Int
        /\ hf + HostLeft <= a /\ gf + GuestLeft <= NENTRIES - a
    BY <1>1, HostCounts, GuestCounts DEF SharedInMemory
  <2>2. hf \in Nat /\ hf > 0 /\ a \in Nat /\ a <= NENTRIES /\ gf \in Nat /\ NENTRIES \in Nat /\ hf <= NENTRIES
    BY <1>4, SoSizes
  <2> QED
    BY <2>1, <2>2
<1>8. PICK h2 \in Slots : h2 = Wrap(hd + 1)
  BY <1>7, WrapSlot, SoSizes
<1>9. \A t \in Slots : t # hd => Ahead(t, h2) = Ahead(t, hd) - 1 /\ Ahead(t, hd) \in Nat /\ Ahead(t, hd) >= 1
  <2> TAKE t \in Slots
  <2>1. t # hd => Ahead(t, hd) # 0
    BY AheadZero
  <2> QED
    BY <1>8, <2>1, AheadNext, AheadNat
<1>10. Ahead(hd, h2) = NENTRIES - 1 /\ Ahead(hd, hd) = 0
  BY <1>8, AheadNext, AheadZero
<1>11. flags[hd] = AVAIL_FLAG
  BY <1>1, <1>7, <1>10 DEF SharedInMemory
<1>12. flags' \in [Slots -> Flags] /\ flags'[hd] = USED_FLAG /\ \A t \in Slots : t # hd => flags'[t] = flags[t]
  BY <1>2, <1>6 DEF Flags
<1>13. \A t : Own(t)' = Own(t)
  BY <1>6, OwnSame
<1>14. SoMemory'
  BY <1>1, <1>3, <1>6, <1>12 DEF SoMemory
<1>15. HostControl' /\ GuestControl'
  BY <1>1, HostFrame, GuestFrame
<1>16. UNCHANGED <<host_pc, host_cur, host_i, host_bufs, guest_pc, guest_cur, guest_bufs, free>>
  BY DEF hostVars, guestVars
<1>17. IndicesLoaded'
  BY <1>1, <1>6, <1>16 DEF IndicesLoaded, Own
<1>18. BuffersApart'
  BY <1>1, <1>13, <1>16, GuestFrame DEF BuffersApart
<1>19. SharedInMemory(h2, gd, hf - 1, gf, a - 1)'
  <2>1. \A t \in Slots : flags'[t] = AVAIL_FLAG <=> Ahead(t, h2) < a - 1
    <3> TAKE t \in Slots
    <3>1. CASE t = hd
      BY <1>7, <1>10, <1>12, <3>1 DEF AVAIL_FLAG, USED_FLAG
    <3>2. CASE t # hd
      <4>1. flags'[t] = AVAIL_FLAG <=> Ahead(t, hd) < a
        BY <1>1, <1>12, <3>2 DEF SharedInMemory
      <4>2. Ahead(t, hd) < a <=> Ahead(t, hd) - 1 < a - 1
        BY <1>7, <1>9, <3>2
      <4> QED
        BY <1>9, <3>2, <4>1, <4>2
    <3> QED
      BY <3>1, <3>2
  <2>2. HostAt = Wrap(h2 + (hf - 1)) /\ gd = Wrap(h2 + (a - 1))
    <3>1. HostAt = Wrap(hd + hf) /\ gd = Wrap(hd + a)
      BY <1>1 DEF SharedInMemory
    <3>2. Wrap(hd + hf) = Wrap(h2 + (hf - 1)) /\ Wrap(hd + a) = Wrap(h2 + (a - 1))
      BY <1>7, <1>8 DEF Wrap, Slots
    <3> QED
      BY <3>1, <3>2
  <2>3. /\ GuestAt = Wrap(gd + gf) /\ FlagsFollow(guest_sb, gd, gf)
        /\ HostCount - hf = GuestCount - gf + (NENTRIES - a)
    BY <1>1 DEF SharedInMemory
  <2>4. /\ hf - 1 + HostLeft <= a - 1 /\ gf + GuestLeft <= NENTRIES - (a - 1)
        /\ HostCount - (hf - 1) = GuestCount - gf + (NENTRIES - (a - 1))
    BY <1>7, <2>3
  <2>5. FlagsFollow(host_sb, h2, hf - 1)'
    BY <1>4, <1>8
  <2>6. FlagsFollow(guest_sb, gd, gf)'
    BY <2>3
  <2> QED
    BY <2>1, <2>2, <2>3, <2>4, <2>5, <2>6, HostFrame, GuestFrame DEF SharedInMemory
<1>20. RefillsInFlight(gd, gf)'
  BY <1>1, GuestFrame DEF RefillsInFlight, BufStores, FlagStores
<1>21. \A t \in Slots : t \in Window(h2, hf - 1 + HostCopied) <=> t \in Window(hd, hf + HostCopied) /\ t # hd
  <2> TAKE t \in Slots
  <2>1. CASE t = hd
    BY <1>7, <1>10, <2>1 DEF Window
  <2>2. CASE t # hd
    <3>1. Ahead(t, hd) - 1 < hf - 1 + HostCopied <=> Ahead(t, hd) < hf + HostCopied
      BY <1>7, <1>9, <2>2
    <3> QED
      BY <1>9, <2>2, <3>1 DEF Window
  <2> QED
    BY <2>1, <2>2
<1>22. \A t \in Window(hd, hf + HostCopied) : t \in Slots /\ t \notin Stale
  <2> TAKE t \in Window(hd, hf + HostCopied)
  <2>1. t \in Slots /\ Ahead(t, hd) < hf + HostCopied
    BY DEF Window
  <2>2. Ahead(t, hd) < a
    BY <1>7, <2>1, AheadNat
  <2> QED
    BY <1>1, <2>1, <2>2, StaleIsUsed
<1>23. /\ 1 \in FlagStores(host_sb) /\ host_sb[1].key = hd
       /\ \A j \in PayloadStores : j \in 1 .. Len(host_sb) /\ ~(j < 1)
  BY <1>3, <1>4 DEF FlagStores, PayloadStores
<1>24. HostId(0, hf) = HostCount - hf + 1 /\ \A t \in Slots : t # hd => HostId(Ahead(t, h2), hf - 1) = HostId(Ahead(t, hd), hf)
  <2>1. HostId(0, hf) = HostCount - hf + 1
    BY <1>7 DEF HostId
  <2>2. ASSUME NEW t \in Slots, t # hd
        PROVE  HostId(Ahead(t, h2), hf - 1) = HostId(Ahead(t, hd), hf)
    <3>1. Ahead(t, h2) = Ahead(t, hd) - 1 /\ Ahead(t, hd) \in Nat
      BY <1>9, <2>2
    <3>2. HostCount - (hf - 1) + (Ahead(t, hd) - 1) + 1 = HostCount - hf + Ahead(t, hd) + 1
      BY <1>7, <3>1
    <3> QED
      BY <3>1, <3>2 DEF HostId
  <2> QED
    BY <2>1, <2>2
<1>25. payload[Own(hd)] = HostCount - hf + 1
  <2>1. hd \in Window(hd, hf + HostCopied)
    BY <1>7, <1>10 DEF Window
  <2>2. ~ \E j \in PayloadStores : host_sb[j].key = Own(hd)
    <3> SUFFICES ASSUME NEW j \in PayloadStores, host_sb[j].key = Own(hd)
                 PROVE  FALSE
      OBVIOUS
    <3>1. PICK t \in Window(hd, hf + HostCopied) :
            /\ host_sb[j].key = Own(t)
            /\ \A i \in FlagStores(host_sb) : host_sb[i].key = t => j < i
      BY <1>1 DEF PayloadsInFlight
    <3>2. t = hd
      BY <1>1, <1>22, <2>1, <3>1 DEF BuffersApart
    <3> QED
      BY <1>23, <3>1, <3>2
  <2>3. payload[Own(hd)] = HostId(Ahead(hd, hd), hf)
    BY <1>1, <2>1, <2>2 DEF PayloadsInFlight
  <2> QED
    BY <1>10, <1>24, <2>3
<1>26. PayloadsInFlight(h2, hf - 1)'
  <2>1. \A j \in DOMAIN host_sb' : host_sb'[j] = host_sb[j + 1] /\ j \in Nat /\ j + 1 \in DOMAIN host_sb
    BY <1>3
  <2>2. \A j \in PayloadStores' : j \in DOMAIN host_sb' /\ j + 1 \in PayloadStores
    BY <2>1 DEF PayloadStores
  <2>3. \A j \in FlagStores(host_sb') : j \in DOMAIN host_sb' /\ j + 1 \in FlagStores(host_sb)
    BY <2>1 DEF FlagStores
  <2>4. HostCopied' = HostCopied /\ \A n : HostId(n, hf - 1)' = HostId(n, hf - 1)
    BY HostFrame DEF HostId
  <2>5. ASSUME NEW j \in PayloadStores'
        PROVE  \E t \in Window(h2, hf - 1 + HostCopied) :
                 /\ host_sb'[j].key = Own(t) /\ host_sb'[j].val = HostId(Ahead(t, h2), hf - 1)
                 /\ \A i \in FlagStores(host_sb') : host_sb'[i].key = t => j < i
    <3>1. PICK t \in Window(hd, hf + HostCopied) :
            /\ host_sb[j + 1].key = Own(t) /\ host_sb[j + 1].val = HostId(Ahead(t, hd), hf)
            /\ \A i \in FlagStores(host_sb) : host_sb[i].key = t => j + 1 < i
      BY <1>1, <2>2 DEF PayloadsInFlight
    <3>2. t # hd
      <4>1. ~(j + 1 < 1)
        BY <2>1, <2>2
      <4> QED
        BY <1>23, <3>1, <4>1
    <3>3. t \in Slots /\ t \in Window(h2, hf - 1 + HostCopied)
      BY <1>21, <1>22, <3>2
    <3>4. ASSUME NEW i \in FlagStores(host_sb'), host_sb'[i].key = t
          PROVE  j < i
      <4>1. j + 1 < i + 1
        BY <2>1, <2>3, <3>1, <3>4
      <4> QED
        BY <2>1, <2>2, <2>3, <4>1
    <3> QED
      BY <1>24, <2>1, <2>2, <3>1, <3>2, <3>3, <3>4
  <2>6. ASSUME NEW t \in Window(h2, hf - 1 + HostCopied)
        PROVE  \/ payload[Own(t)] = HostId(Ahead(t, h2), hf - 1)
               \/ \E j \in PayloadStores' : host_sb'[j].key = Own(t)
    <3>1. t \in Slots /\ t \in Window(hd, hf + HostCopied) /\ t # hd
      BY <1>21 DEF Window
    <3>2. CASE payload[Own(t)] = HostId(Ahead(t, hd), hf)
      BY <1>24, <3>1, <3>2
    <3>3. CASE \E j \in PayloadStores : host_sb[j].key = Own(t)
      <4>1. PICK j \in PayloadStores : host_sb[j].key = Own(t)
        BY <3>3
      <4>2. j \in 1 .. Len(host_sb) /\ j # 1
        BY <1>3, <4>1 DEF PayloadStores
      <4>3. j - 1 \in DOMAIN host_sb' /\ (j - 1) + 1 = j
        BY <1>3, <4>2
      <4>4. host_sb'[j - 1] = host_sb[j]
        BY <2>1, <4>3
      <4>5. j - 1 \in PayloadStores'
        BY <4>1, <4>3, <4>4 DEF PayloadStores
      <4> QED
        BY <4>1, <4>4, <4>5
    <3> QED
      BY <1>1, <3>1, <3>2, <3>3 DEF PayloadsInFlight
  <2> QED
    BY <1>6, <1>13, <2>4, <2>5, <2>6 DEF PayloadsInFlight
<1>27. PayloadsArrived(gd, gf, a - 1)'
  <2>1. Ahead(hd, gd) = NENTRIES - a \/ ~(Ahead(hd, gd) < NENTRIES - (a - 1))
    <3>1. gd = Wrap(hd + a)
      BY <1>1 DEF SharedInMemory
    <3> QED
      BY <1>7, <3>1 DEF Ahead, Wrap, Slots
  <2>2. \A t \in Slots : gf + GuestEmptied <= Ahead(t, gd) /\ Ahead(t, gd) < NENTRIES - (a - 1) =>
          payload[Own(t)] = GuestCount - gf + Ahead(t, gd) + 1
    <3> TAKE t \in Slots
    <3> HAVE gf + GuestEmptied <= Ahead(t, gd) /\ Ahead(t, gd) < NENTRIES - (a - 1)
    <3>1. CASE t = hd
      <4>1. Ahead(t, gd) = NENTRIES - a
        BY <2>1, <3>1
      <4>2. HostCount - hf = GuestCount - gf + (NENTRIES - a)
        BY <1>1 DEF SharedInMemory
      <4> QED
        BY <1>7, <1>25, <3>1, <4>1, <4>2
    <3>2. CASE t # hd
      <4>1. Ahead(t, hd) # 0 /\ Ahead(t, hd) \in Nat /\ Ahead(t, gd) \in Nat
        BY <1>9, <3>2, AheadNat
      <4>2. Ahead(t, gd) < NENTRIES - a
        <5>1. gd = Wrap(hd + a)
          BY <1>1 DEF SharedInMemory
        <5>2. Ahead(t, gd) = NENTRIES - a => t = hd
          BY <1>7, <5>1 DEF Ahead, Wrap, Slots
        <5> QED
          BY <1>7, <3>2, <4>1, <5>2
      <4> QED
        BY <1>1, <4>2 DEF PayloadsArrived
    <3> QED
      BY <3>1, <3>2
  <2>3. \A j \in Batch : payload[guest_bufs[j]] = GuestBase + j
    BY <1>1 DEF PayloadsArrived
  <2> QED
    BY <1>6, <1>13, <1>16, <2>2, <2>3, GuestFrame DEF PayloadsArrived
<1> QED
  BY <1>6, <1>7, <1>8, <1>11, <1>14, <1>15, <1>17, <1>18, <1>19, <1>20, <1>26, <1>27 DEF SoInvAt, InFlight
\* The indices loaded stay right as long as the buffers of the descriptors do.
LEMMA IndicesKept ==
  ASSUME HostControl, GuestControl, IndicesLoaded, \A t \in Slots : Own(t)' = Own(t),
         UNCHANGED <<host_pc, host_cur, host_i, host_bufs, guest_pc, guest_cur, guest_bufs>>
  PROVE  IndicesLoaded'
<1>1. \A t \in Slots : Load(guest_sb', "bufs", t, bufs') = Own(t)
  BY DEF Own
<1>2. ASSUME NEW k \in DOMAIN host_bufs, host_pc = "publish" => k > host_i
      PROVE  host_bufs[k] = Load(guest_sb', "bufs", host_cur + k - 1, bufs')
  <2>1. /\ k \in 1 .. host_num /\ host_num \in Nat /\ host_cur \in Slots
        /\ host_cur + host_num <= NENTRIES
    BY LenProperties, SoSizes DEF HostControl
  <2>2. host_cur + k - 1 \in Slots
    BY <2>1, SoSizes DEF Slots
  <2> QED
    BY <1>1, <1>2, <2>2 DEF IndicesLoaded
<1>3. ASSUME NEW k \in DOMAIN guest_bufs, guest_pc = "index"
      PROVE  guest_bufs[k] = Load(guest_sb', "bufs", Wrap(guest_cur + k - 1), bufs')
  <2>1. k \in 1 .. guest_num /\ guest_num \in 1 .. NENTRIES /\ guest_cur \in Slots
    BY <1>3, LenProperties, SoSizes DEF GuestControl
  <2>2. Wrap(guest_cur + k - 1) \in Slots
    BY <2>1, SoSizes DEF Wrap, Slots
  <2> QED
    BY <1>1, <1>3, <2>2 DEF IndicesLoaded
<1> QED
  BY <1>2, <1>3 DEF IndicesLoaded, Own

LEMMA GuestDrained ==
  ASSUME SoMemory, NEW k \in Drainable(guest_sb), guest_sb' = RemoveAt(guest_sb, k)
  PROVE  /\ k = 1 /\ Len(guest_sb) \in Nat \ {0} /\ DOMAIN guest_sb = 1 .. Len(guest_sb)
         /\ guest_sb \in Seq(GuestBuf \cup GuestFlag)
         /\ guest_sb' \in Seq(GuestBuf \cup GuestFlag) /\ DOMAIN guest_sb' = 1 .. Len(guest_sb) - 1
         /\ guest_sb[1] \in GuestBuf \cup GuestFlag
         /\ \A j \in DOMAIN guest_sb' : guest_sb'[j] = guest_sb[j + 1] /\ j \in Nat /\ j + 1 \in DOMAIN guest_sb /\ j + 1 # 1
         /\ \A j \in BufStores' : j \in DOMAIN guest_sb' /\ j + 1 \in BufStores
         /\ \A j \in FlagStores(guest_sb') : j \in DOMAIN guest_sb' /\ j + 1 \in FlagStores(guest_sb)
<1> DEFINE S == GuestBuf \cup GuestFlag
<1>1. guest_sb \in Seq(S)
  BY DEF SoMemory
<1> HIDE DEF S
<1>2. /\ k = 1 /\ Len(guest_sb) \in Nat \ {0} /\ DOMAIN guest_sb = 1 .. Len(guest_sb)
      /\ RemoveAt(guest_sb, k) = Tail(guest_sb)
      /\ Tail(guest_sb) \in Seq(S) /\ DOMAIN Tail(guest_sb) = 1 .. Len(guest_sb) - 1
      /\ \A j \in 1 .. Len(guest_sb) - 1 : Tail(guest_sb)[j] = guest_sb[j + 1]
      /\ guest_sb[1] \in S
  BY <1>1, Drained
<1>3. \A j \in DOMAIN guest_sb' : guest_sb'[j] = guest_sb[j + 1] /\ j \in Nat /\ j + 1 \in DOMAIN guest_sb /\ j + 1 # 1
  BY <1>2
<1>4. /\ \A j \in BufStores' : j \in DOMAIN guest_sb' /\ j + 1 \in BufStores
      /\ \A j \in FlagStores(guest_sb') : j \in DOMAIN guest_sb' /\ j + 1 \in FlagStores(guest_sb)
  BY <1>3 DEF BufStores, FlagStores
<1> QED
  BY <1>1, <1>2, <1>3, <1>4 DEF S

LEMMA GuestDrainRefill ==
  ASSUME NEW hd \in Slots, NEW gd \in Slots, NEW hf \in 0 .. NENTRIES, NEW gf \in 0 .. NENTRIES,
         NEW a \in 0 .. NENTRIES, SoInvAt(hd, gd, hf, gf, a), UNCHANGED <<host_sb, hostVars, guestVars>>,
         NEW k \in Drainable(guest_sb), Reaches(guest_sb[k]), guest_sb' = RemoveAt(guest_sb, k),
         guest_sb[k].at = "bufs"
  PROVE  SoInvAt(hd, gd, hf, gf, a)' /\ UNCHANGED flags
<1>1. /\ SoMemory /\ HostControl /\ GuestControl /\ IndicesLoaded /\ BuffersApart
      /\ SharedInMemory(hd, gd, hf, gf, a) /\ RefillsInFlight(gd, gf)
      /\ PayloadsInFlight(hd, hf) /\ PayloadsArrived(gd, gf, a)
  BY Unpacked
<1>2. /\ k = 1 /\ Len(guest_sb) \in Nat \ {0} /\ DOMAIN guest_sb = 1 .. Len(guest_sb)
      /\ guest_sb \in Seq(GuestBuf \cup GuestFlag)
      /\ guest_sb' \in Seq(GuestBuf \cup GuestFlag) /\ DOMAIN guest_sb' = 1 .. Len(guest_sb) - 1
      /\ guest_sb[1] \in GuestBuf \cup GuestFlag
      /\ \A j \in DOMAIN guest_sb' : guest_sb'[j] = guest_sb[j + 1] /\ j \in Nat /\ j + 1 \in DOMAIN guest_sb /\ j + 1 # 1
      /\ \A j \in BufStores' : j \in DOMAIN guest_sb' /\ j + 1 \in BufStores
      /\ \A j \in FlagStores(guest_sb') : j \in DOMAIN guest_sb' /\ j + 1 \in FlagStores(guest_sb)
  BY <1>1, GuestDrained
<1> PICK s : s = guest_sb[k].key
  OBVIOUS
<1> PICK b : b = guest_sb[k].val
  OBVIOUS
<1>3. s \in Slots /\ b \in Bufs
  <2>1. guest_sb[1] \in GuestBuf
    BY <1>2 DEF GuestFlag
  <2> QED
    BY <1>2, <2>1 DEF GuestBuf
<1>4. flags' = flags /\ payload' = payload /\ bufs' = [bufs EXCEPT ![s] = b]
  BY DEF Reaches
<1>5. bufs' \in [Slots -> Bufs] /\ bufs'[s] = b /\ \A t \in Slots : t # s => bufs'[t] = bufs[t]
  BY <1>1, <1>3, <1>4 DEF SoMemory
<1>6. \A t \in Slots : Own(t)' = Own(t)
  <2> DEFINE S == GuestBuf \cup GuestFlag
  <2>1. guest_sb \in Seq(S)
    BY <1>2
  <2> HIDE DEF S
  <2>2. RefillsDiffer(guest_sb)
    BY <1>1, RefillsOnce
  <2>3. \A t \in Slots : Load(RemoveAt(guest_sb, k), "bufs", t, bufs') = Load(guest_sb, "bufs", t, bufs)
    BY <1>5, <2>1, <2>2, LoadsDrained
  <2> QED
    BY <2>3 DEF Own
<1>7. SoMemory'
  BY <1>1, <1>2, <1>4, <1>5 DEF SoMemory
<1>8. HostControl' /\ GuestControl'
  BY <1>1, HostFrame, GuestFrame
<1>9. UNCHANGED <<host_pc, host_cur, host_i, host_num, host_bufs, guest_pc, guest_cur, guest_i, guest_num, guest_bufs, free>>
  BY DEF hostVars, guestVars
<1>10. IndicesLoaded'
  BY <1>1, <1>6, <1>9, IndicesKept
<1>11. BuffersApart'
  BY <1>1, <1>6, <1>9, GuestFrame DEF BuffersApart
<1>12. SharedInMemory(hd, gd, hf, gf, a)'
  <2>1. FlagsFollow(guest_sb', gd, gf)
    <3> DEFINE S == GuestBuf \cup GuestFlag
    <3>1. guest_sb \in Seq(S)
      BY <1>2
    <3> HIDE DEF S
    <3> QED
      BY <1>1, <3>1, OtherDrained DEF SharedInMemory
  <2> QED
    BY <1>1, <1>4, <2>1, HostFrame, GuestFrame DEF SharedInMemory
<1>13. RefillsInFlight(gd, gf)'
  <2>1. \A j \in BufStores' : guest_sb'[j].key \in Window(gd, gf + GuestFilled')
    BY <1>1, <1>2, GuestFrame DEF RefillsInFlight
  <2>2. ASSUME NEW i \in BufStores', NEW j \in BufStores', guest_sb'[i].key = guest_sb'[j].key
        PROVE  i = j
    <3>1. /\ i \in Nat /\ i + 1 \in BufStores /\ guest_sb'[i] = guest_sb[i + 1]
          /\ j \in Nat /\ j + 1 \in BufStores /\ guest_sb'[j] = guest_sb[j + 1]
      BY <1>2
    <3>2. guest_sb[i + 1].key = guest_sb[j + 1].key
      BY <2>2, <3>1
    <3>3. i + 1 = j + 1
      BY <1>1, <3>1, <3>2 DEF RefillsInFlight
    <3> QED
      BY <3>1, <3>3
  <2>3. ASSUME NEW i \in BufStores', NEW j \in FlagStores(guest_sb'), guest_sb'[j].key = guest_sb'[i].key
        PROVE  i < j
    <3>1. /\ i \in Nat /\ i + 1 \in BufStores /\ guest_sb'[i] = guest_sb[i + 1]
          /\ j \in Nat /\ j + 1 \in FlagStores(guest_sb) /\ guest_sb'[j] = guest_sb[j + 1]
      BY <1>2
    <3>2. guest_sb[j + 1].key = guest_sb[i + 1].key
      BY <2>3, <3>1
    <3>3. i + 1 < j + 1
      BY <1>1, <3>1, <3>2 DEF RefillsInFlight
    <3> QED
      BY <3>1, <3>3
  <2> QED
    BY <2>1, <2>2, <2>3 DEF RefillsInFlight
<1>14. PayloadsInFlight(hd, hf)'
  <2>1. \A t \in Window(hd, hf + HostCopied) : Own(t)' = Own(t)
    BY <1>6 DEF Window
  <2> QED
    BY <1>1, <1>4, <2>1, HostFrame DEF PayloadsInFlight, PayloadStores, FlagStores, HostId
<1>15. PayloadsArrived(gd, gf, a)'
  BY <1>1, <1>4, <1>6, <1>9, GuestFrame DEF PayloadsArrived
<1> QED
  BY <1>4, <1>7, <1>8, <1>10, <1>11, <1>12, <1>13, <1>14, <1>15 DEF SoInvAt, InFlight

LEMMA GuestDrainFlag ==
  ASSUME NEW hd \in Slots, NEW gd \in Slots, NEW hf \in 0 .. NENTRIES, NEW gf \in 0 .. NENTRIES,
         NEW a \in 0 .. NENTRIES, SoInvAt(hd, gd, hf, gf, a), UNCHANGED <<host_sb, hostVars, guestVars>>,
         NEW k \in Drainable(guest_sb), Reaches(guest_sb[k]), guest_sb' = RemoveAt(guest_sb, k),
         guest_sb[k].at = "flags"
  PROVE  /\ Wrap(gd + 1) \in Slots /\ gf - 1 \in 0 .. NENTRIES /\ a + 1 \in 0 .. NENTRIES
         /\ SoInvAt(hd, Wrap(gd + 1), hf, gf - 1, a + 1)'
         /\ flags[gd] = USED_FLAG /\ flags' = [flags EXCEPT ![gd] = AVAIL_FLAG]
<1>1. /\ SoMemory /\ HostControl /\ GuestControl /\ IndicesLoaded /\ BuffersApart
      /\ SharedInMemory(hd, gd, hf, gf, a) /\ RefillsInFlight(gd, gf)
      /\ PayloadsInFlight(hd, hf) /\ PayloadsArrived(gd, gf, a)
  BY Unpacked
<1>2. /\ k = 1 /\ Len(guest_sb) \in Nat \ {0} /\ DOMAIN guest_sb = 1 .. Len(guest_sb)
      /\ guest_sb \in Seq(GuestBuf \cup GuestFlag)
      /\ guest_sb' \in Seq(GuestBuf \cup GuestFlag) /\ DOMAIN guest_sb' = 1 .. Len(guest_sb) - 1
      /\ guest_sb[1] \in GuestBuf \cup GuestFlag
      /\ \A j \in DOMAIN guest_sb' : guest_sb'[j] = guest_sb[j + 1] /\ j \in Nat /\ j + 1 \in DOMAIN guest_sb /\ j + 1 # 1
      /\ \A j \in BufStores' : j \in DOMAIN guest_sb' /\ j + 1 \in BufStores
      /\ \A j \in FlagStores(guest_sb') : j \in DOMAIN guest_sb' /\ j + 1 \in FlagStores(guest_sb)
  BY <1>1, GuestDrained
<1> DEFINE S == GuestBuf \cup GuestFlag
<1>3. guest_sb \in Seq(S)
  BY <1>2
<1> HIDE DEF S
<1>4. guest_sb[k].key = gd /\ gf > 0 /\ FlagsFollow(guest_sb', Wrap(gd + 1), gf - 1)
  BY <1>1, <1>3, FlagDrained DEF SharedInMemory
<1>5. guest_sb[k].val = AVAIL_FLAG /\ k \in FlagStores(guest_sb)
  BY <1>1, <1>2, GuestFlagValues DEF FlagStores
<1>6. bufs' = bufs /\ payload' = payload /\ flags' = [flags EXCEPT ![gd] = AVAIL_FLAG]
  BY <1>4, <1>5 DEF Reaches
<1>7. /\ HostLeft \in Nat /\ HostCount \in Nat
      /\ GuestLeft \in Nat /\ GuestFilled \in Nat /\ GuestEmptied \in Nat /\ GuestEmptied <= GuestLeft /\ GuestCount \in Int
      /\ gf \in Nat /\ gf >= 1 /\ a \in Nat /\ hf \in Nat /\ NENTRIES \in Nat
      /\ hf + HostLeft <= a /\ gf + GuestLeft <= NENTRIES - a
      /\ gf - 1 \in 0 .. NENTRIES /\ a + 1 \in 0 .. NENTRIES
  <2>1. /\ HostLeft \in Nat /\ HostCount \in Nat
        /\ GuestLeft \in Nat /\ GuestFilled \in Nat /\ GuestEmptied \in Nat /\ GuestEmptied <= GuestLeft /\ GuestCount \in Int
        /\ hf + HostLeft <= a /\ gf + GuestLeft <= NENTRIES - a
    BY <1>1, HostCounts, GuestCounts DEF SharedInMemory
  <2>2. hf \in Nat /\ gf > 0 /\ a \in Nat /\ a <= NENTRIES /\ gf \in Nat /\ NENTRIES \in Nat /\ gf <= NENTRIES
    BY <1>4, SoSizes
  <2> QED
    BY <2>1, <2>2
<1>8. PICK g2 \in Slots : g2 = Wrap(gd + 1)
  BY <1>7, WrapSlot, SoSizes
<1>9. \A t \in Slots : t # gd => Ahead(t, g2) = Ahead(t, gd) - 1 /\ Ahead(t, gd) \in Nat /\ Ahead(t, gd) >= 1
  <2> TAKE t \in Slots
  <2>1. t # gd => Ahead(t, gd) # 0
    BY AheadZero
  <2> QED
    BY <1>8, <2>1, AheadNext, AheadNat
<1>10. Ahead(gd, g2) = NENTRIES - 1 /\ Ahead(gd, gd) = 0 /\ Ahead(gd, hd) = a /\ gd = Wrap(hd + a)
  <2>1. gd = Wrap(hd + a)
    BY <1>1 DEF SharedInMemory
  <2>2. Ahead(gd, hd) = a
    BY <1>7, <2>1, AheadWrap
  <2> QED
    BY <1>8, <2>1, <2>2, AheadNext, AheadZero
<1>11. flags \in [Slots -> Flags] /\ flags[gd] = USED_FLAG
  <2>1. flags \in [Slots -> Flags]
    BY <1>1 DEF SoMemory
  <2>2. flags[gd] # AVAIL_FLAG
    BY <1>1, <1>7, <1>10 DEF SharedInMemory
  <2> QED
    BY <2>1, <2>2 DEF Flags
<1>12. flags' \in [Slots -> Flags] /\ flags'[gd] = AVAIL_FLAG /\ \A t \in Slots : t # gd => flags'[t] = flags[t]
  BY <1>6, <1>11 DEF Flags
<1>13. \A t \in Slots : Own(t)' = Own(t)
  <2>1. RefillsDiffer(guest_sb)
    BY <1>1, RefillsOnce
  <2>2. guest_sb[k].at # "bufs"
    OBVIOUS
  <2>3. \A t \in Slots : Load(RemoveAt(guest_sb, k), "bufs", t, bufs) = Load(guest_sb, "bufs", t, bufs)
    BY <1>3, <2>1, <2>2, LoadsDrained
  <2> QED
    BY <1>6, <2>3 DEF Own
<1>14. SoMemory'
  BY <1>1, <1>2, <1>6, <1>12 DEF SoMemory
<1>15. HostControl' /\ GuestControl'
  BY <1>1, HostFrame, GuestFrame
<1>16. UNCHANGED <<host_pc, host_cur, host_i, host_num, host_bufs, guest_pc, guest_cur, guest_i, guest_num, guest_bufs, free>>
  BY DEF hostVars, guestVars
<1>17. IndicesLoaded'
  BY <1>1, <1>13, <1>16, IndicesKept
<1>18. BuffersApart'
  BY <1>1, <1>13, <1>16, GuestFrame DEF BuffersApart
<1>19. SharedInMemory(hd, g2, hf, gf - 1, a + 1)'
  <2>1. \A t \in Slots : flags'[t] = AVAIL_FLAG <=> Ahead(t, hd) < a + 1
    <3> TAKE t \in Slots
    <3>1. CASE t = gd
      BY <1>7, <1>10, <1>12, <3>1
    <3>2. CASE t # gd
      <4>1. flags'[t] = AVAIL_FLAG <=> Ahead(t, hd) < a
        BY <1>1, <1>12, <3>2 DEF SharedInMemory
      <4>2. Ahead(t, hd) # a /\ Ahead(t, hd) \in Nat
        BY <1>10, <3>2, AheadBounds, AheadNat
      <4> QED
        BY <1>7, <4>1, <4>2
    <3> QED
      BY <3>1, <3>2
  <2>2. GuestAt = Wrap(g2 + (gf - 1)) /\ g2 = Wrap(hd + (a + 1))
    <3>1. GuestAt = Wrap(gd + gf)
      BY <1>1 DEF SharedInMemory
    <3>2. Wrap(gd + gf) = Wrap(g2 + (gf - 1))
      BY <1>7, <1>8, SoSizes DEF Wrap, Slots
    <3>3. g2 = Wrap(hd + (a + 1))
      BY <1>7, <1>8, <1>10 DEF Wrap, Slots
    <3> QED
      BY <3>1, <3>2, <3>3
  <2>3. /\ HostAt = Wrap(hd + hf) /\ FlagsFollow(host_sb, hd, hf)
        /\ HostCount - hf = GuestCount - gf + (NENTRIES - a)
    BY <1>1 DEF SharedInMemory
  <2>4. /\ hf + HostLeft <= a + 1 /\ gf - 1 + GuestLeft <= NENTRIES - (a + 1)
        /\ HostCount - hf = GuestCount - (gf - 1) + (NENTRIES - (a + 1))
    BY <1>7, <2>3
  <2>5. FlagsFollow(guest_sb, g2, gf - 1)'
    BY <1>4, <1>8
  <2>6. FlagsFollow(host_sb, hd, hf)'
    BY <2>3
  <2> QED
    BY <2>1, <2>2, <2>3, <2>4, <2>5, <2>6, HostFrame, GuestFrame DEF SharedInMemory
<1>20. RefillsInFlight(g2, gf - 1)'
  <2>1. ASSUME NEW i \in BufStores'
        PROVE  guest_sb'[i].key \in Window(g2, gf - 1 + GuestFilled')
    <3>1. i + 1 \in BufStores /\ guest_sb'[i] = guest_sb[i + 1] /\ i \in Nat /\ i + 1 # 1
      BY <1>2
    <3>2. guest_sb[i + 1].key \in Slots /\ Ahead(guest_sb[i + 1].key, gd) < gf + GuestFilled
      BY <1>1, <3>1 DEF RefillsInFlight, Window
    <3>3. guest_sb[i + 1].key # gd
      <4>1. ~(i + 1 < 1)
        BY <3>1
      <4> QED
        BY <1>1, <1>2, <1>4, <1>5, <3>1, <4>1 DEF RefillsInFlight
    <3>4. Ahead(guest_sb[i + 1].key, g2) < gf - 1 + GuestFilled
      <4>1. Ahead(guest_sb[i + 1].key, g2) = Ahead(guest_sb[i + 1].key, gd) - 1 /\ Ahead(guest_sb[i + 1].key, gd) \in Nat
        BY <1>9, <3>2, <3>3
      <4> QED
        BY <1>7, <3>2, <4>1
    <3> QED
      BY <3>1, <3>2, <3>4, GuestFrame DEF Window
  <2>2. ASSUME NEW i \in BufStores', NEW j \in BufStores', guest_sb'[i].key = guest_sb'[j].key
        PROVE  i = j
    <3>1. /\ i \in Nat /\ i + 1 \in BufStores /\ guest_sb'[i] = guest_sb[i + 1]
          /\ j \in Nat /\ j + 1 \in BufStores /\ guest_sb'[j] = guest_sb[j + 1]
      BY <1>2
    <3>2. guest_sb[i + 1].key = guest_sb[j + 1].key
      BY <2>2, <3>1
    <3>3. i + 1 = j + 1
      BY <1>1, <3>1, <3>2 DEF RefillsInFlight
    <3> QED
      BY <3>1, <3>3
  <2>3. ASSUME NEW i \in BufStores', NEW j \in FlagStores(guest_sb'), guest_sb'[j].key = guest_sb'[i].key
        PROVE  i < j
    <3>1. /\ i \in Nat /\ i + 1 \in BufStores /\ guest_sb'[i] = guest_sb[i + 1]
          /\ j \in Nat /\ j + 1 \in FlagStores(guest_sb) /\ guest_sb'[j] = guest_sb[j + 1]
      BY <1>2
    <3>2. guest_sb[j + 1].key = guest_sb[i + 1].key
      BY <2>3, <3>1
    <3>3. i + 1 < j + 1
      BY <1>1, <3>1, <3>2 DEF RefillsInFlight
    <3> QED
      BY <3>1, <3>3
  <2> QED
    BY <2>1, <2>2, <2>3 DEF RefillsInFlight
<1>21. PayloadsInFlight(hd, hf)'
  <2>1. \A t \in Window(hd, hf + HostCopied) : Own(t)' = Own(t)
    BY <1>13 DEF Window
  <2> QED
    BY <1>1, <1>6, <2>1, HostFrame DEF PayloadsInFlight, PayloadStores, FlagStores, HostId
<1>22. PayloadsArrived(g2, gf - 1, a + 1)'
  <2>1. \A t \in Slots : gf - 1 + GuestEmptied <= Ahead(t, g2) /\ Ahead(t, g2) < NENTRIES - (a + 1) =>
          payload[Own(t)] = GuestCount - (gf - 1) + Ahead(t, g2) + 1
    <3> TAKE t \in Slots
    <3> HAVE gf - 1 + GuestEmptied <= Ahead(t, g2) /\ Ahead(t, g2) < NENTRIES - (a + 1)
    <3>1. t # gd
      BY <1>7, <1>10
    <3>2. Ahead(t, g2) = Ahead(t, gd) - 1 /\ Ahead(t, gd) \in Nat
      BY <1>9, <3>1
    <3>3. gf + GuestEmptied <= Ahead(t, gd) /\ Ahead(t, gd) < NENTRIES - a
      BY <1>7, <3>2
    <3>4. payload[Own(t)] = GuestCount - gf + Ahead(t, gd) + 1
      BY <1>1, <3>3 DEF PayloadsArrived
    <3> QED
      BY <1>7, <3>2, <3>4
  <2>2. \A j \in Batch : payload[guest_bufs[j]] = GuestBase + j
    BY <1>1 DEF PayloadsArrived
  <2> QED
    BY <1>6, <1>13, <1>16, <2>1, <2>2, GuestFrame DEF PayloadsArrived
<1> QED
  BY <1>6, <1>7, <1>8, <1>11, <1>14, <1>15, <1>17, <1>18, <1>19, <1>20, <1>21, <1>22 DEF SoInvAt, InFlight
-----------------------------------------------------------------------------
LEMMA SoInitially ==
  ASSUME SoInit
  PROVE  SoInvAt(0, 0, 0, 0, NENTRIES) /\ 0 \in Slots
<1>1. /\ NENTRIES \in Nat \ {0} /\ BUFS \in Nat /\ BUFS >= NENTRIES + 1 /\ 0 \in Slots
  BY SoSizes DEF Slots
<1>2. /\ flags = [s \in Slots |-> AVAIL_FLAG] /\ bufs = [s \in Slots |-> s]
      /\ payload = [b \in 0 .. BUFS - 1 |-> 0] /\ host_sb = <<>> /\ guest_sb = <<>>
      /\ host_pc = "probe" /\ host_cur = 0 /\ host_num = 0 /\ host_i = 0 /\ host_bufs = <<>> /\ host_sent = 0
      /\ guest_pc = "poll" /\ guest_cur = 0 /\ guest_num = 0 /\ guest_i = 0 /\ guest_bufs = <<>> /\ guest_prev = 0
      /\ free = [k \in 1 .. BUFS - NENTRIES |-> NENTRIES + k - 1]
  BY DEF SoInit
<1>3. DOMAIN <<>> = {} /\ Len(<<>>) = 0 /\ \A S : <<>> \in Seq(S)
  BY EmptySeq
<1>4. /\ HostAt = 0 /\ HostLeft = 0 /\ HostCopied = 0 /\ HostCount = 0
      /\ GuestAt = 0 /\ GuestLeft = 0 /\ GuestFilled = 0 /\ GuestEmptied = 0 /\ GuestBase = 0 /\ GuestCount = 0
      /\ Stale = {} /\ Batch = {}
  BY <1>2 DEF HostAt, HostLeft, HostCopied, HostCount, GuestAt, GuestLeft, GuestFilled, GuestEmptied,
              GuestBase, GuestCount, Stale, Batch
<1>5. SoMemory
  <2>1. flags \in [Slots -> Flags] /\ bufs \in [Slots -> Bufs] /\ payload \in [Bufs -> Nat]
    BY <1>1, <1>2 DEF Flags, Slots, Bufs
  <2> QED
    BY <1>2, <1>3, <2>1 DEF SoMemory
<1>6. HostControl
  BY <1>1, <1>2, <1>3 DEF HostControl
<1>7. /\ free \in Seq(Bufs) /\ Len(free) = BUFS - NENTRIES /\ DOMAIN free = 1 .. BUFS - NENTRIES
  <2>1. BUFS - NENTRIES \in Nat /\ \A k \in 1 .. BUFS - NENTRIES : NENTRIES + k - 1 \in Bufs
    BY <1>1 DEF Bufs
  <2>2. free \in [1 .. BUFS - NENTRIES -> Bufs]
    BY <1>2, <2>1
  <2>3. free \in Seq(Bufs)
    BY <2>1, <2>2, SeqDef
  <2> QED
    BY <1>2, <2>1, <2>3, LenProperties
<1>8. GuestControl
  BY <1>1, <1>2, <1>3, <1>7 DEF GuestControl
<1>9. IndicesLoaded
  BY <1>2, <1>3 DEF IndicesLoaded
<1>10. FlagStores(host_sb) = {} /\ FlagStores(guest_sb) = {} /\ BufStores = {} /\ PayloadStores = {}
  BY <1>2, <1>3 DEF FlagStores, BufStores, PayloadStores
<1>11. \A s \in Slots : Own(s) = s
  <2> TAKE s \in Slots
  <2>1. Load(guest_sb, "bufs", s, bufs) = bufs[s]
    BY <1>2, <1>3, LoadsMemory
  <2> QED
    BY <1>2, <2>1 DEF Own
<1>12. BuffersApart
  <2>1. \A k \in DOMAIN free : free[k] = NENTRIES + k - 1 /\ k \in Nat /\ k >= 1
    BY <1>2, <1>7
  <2>2. \A j, k \in DOMAIN free : free[j] = free[k] => j = k
    BY <1>1, <2>1
  <2>3. \A s \in Slots, k \in DOMAIN free : s # free[k]
    BY <1>1, <2>1 DEF Slots
  <2> QED
    BY <1>4, <1>11, <2>2, <2>3 DEF BuffersApart
<1>13. Window(0, 0) = {} /\ \A s \in Slots : Ahead(s, 0) \in Nat /\ Ahead(s, 0) < NENTRIES
  BY <1>1, EmptyWindow, AheadNat
<1>14. SharedInMemory(0, 0, 0, 0, NENTRIES)
  <2>1. FlagsFollow(host_sb, 0, 0) /\ FlagsFollow(guest_sb, 0, 0)
    BY <1>10, <1>13 DEF FlagsFollow
  <2>2. Wrap(0 + 0) = 0 /\ Wrap(0 + NENTRIES) = 0
    BY <1>1 DEF Wrap
  <2> QED
    BY <1>1, <1>2, <1>4, <1>13, <2>1, <2>2 DEF SharedInMemory
<1>15. RefillsInFlight(0, 0)
  BY <1>10 DEF RefillsInFlight
<1>16. PayloadsInFlight(0, 0)
  BY <1>4, <1>10, <1>13 DEF PayloadsInFlight
<1>17. PayloadsArrived(0, 0, NENTRIES)
  <2>1. \A s \in Slots : ~(Ahead(s, 0) < NENTRIES - NENTRIES)
    BY <1>1, <1>13
  <2> QED
    BY <1>4, <2>1 DEF PayloadsArrived
<1> QED
  BY <1>1, <1>5, <1>6, <1>8, <1>9, <1>12, <1>14, <1>15, <1>16, <1>17 DEF SoInvAt, InFlight

(***************************************************************************)
(* Every step, with what it does to the descriptors as memory has them.    *)
(***************************************************************************)
LEMMA SoStep ==
  ASSUME NEW hd \in Slots, NEW gd \in Slots, NEW hf \in 0 .. NENTRIES, NEW gf \in 0 .. NENTRIES,
         NEW a \in 0 .. NENTRIES, SoInvAt(hd, gd, hf, gf, a), [SoNext]_soVars
  PROVE  \E h2, g2 \in Slots, hf2, gf2, a2 \in 0 .. NENTRIES :
           /\ SoInvAt(h2, g2, hf2, gf2, a2)'
           /\ \/ h2 = hd /\ g2 = gd /\ flags' = flags
              \/ /\ flags[hd] = AVAIL_FLAG /\ flags' = [flags EXCEPT ![hd] = USED_FLAG]
                 /\ h2 = Wrap(hd + 1) /\ g2 = gd
              \/ /\ flags[gd] = USED_FLAG /\ flags' = [flags EXCEPT ![gd] = AVAIL_FLAG]
                 /\ g2 = Wrap(gd + 1) /\ h2 = hd
<1>1. SoMemory
  BY Unpacked
<1>2. ASSUME HostNext \/ GuestNext
      PROVE  flags' = flags
  BY <1>2 DEF HostNext, GuestNext, HostProbe, HostIndex, HostCopy, HostPublish, GuestPoll, GuestIndex,
              GuestRefill, GuestOffer, GuestCheck, HostStores, GuestStores, Loads, memVars
<1>3. CASE HostProbe \/ HostIndex \/ HostCopy
  BY <1>2, <1>3, HostProbeStep, HostIndexStep, HostCopyStep DEF HostNext
<1>4. CASE HostPublish
  BY <1>2, <1>4, HostPublishStep DEF HostNext
<1>5. CASE GuestPoll \/ GuestIndex \/ GuestRefill \/ GuestCheck
  BY <1>2, <1>5, GuestPollStep, GuestIndexStep, GuestRefillStep, GuestCheckStep DEF GuestNext
<1>6. CASE GuestOffer
  BY <1>2, <1>6, GuestOfferStep DEF GuestNext
<1>7. CASE HostDrain
  <2>1. PICK k \in Drainable(host_sb) : Reaches(host_sb[k]) /\ host_sb' = RemoveAt(host_sb, k)
    BY <1>7 DEF HostDrain
  <2>2. UNCHANGED <<guest_sb, hostVars, guestVars>>
    BY <1>7 DEF HostDrain
  <2>3. k \in DOMAIN host_sb /\ host_sb \in Seq(HostPayload \cup HostFlag)
    BY <1>1 DEF Drainable, SoMemory
  <2>4. host_sb[k] \in HostPayload \cup HostFlag
    BY <2>3, LenProperties
  <2>5. host_sb[k].at = "payload" \/ host_sb[k].at = "flags"
    BY <2>4 DEF HostPayload, HostFlag
  <2>6. CASE host_sb[k].at = "payload"
    BY <2>1, <2>2, <2>6, HostDrainPayload
  <2>7. CASE host_sb[k].at = "flags"
    BY <2>1, <2>2, <2>7, HostDrainFlag
  <2> QED
    BY <2>5, <2>6, <2>7
<1>8. CASE GuestDrain
  <2>1. PICK k \in Drainable(guest_sb) : Reaches(guest_sb[k]) /\ guest_sb' = RemoveAt(guest_sb, k)
    BY <1>8 DEF GuestDrain
  <2>2. UNCHANGED <<host_sb, hostVars, guestVars>>
    BY <1>8 DEF GuestDrain
  <2>3. k \in DOMAIN guest_sb /\ guest_sb \in Seq(GuestBuf \cup GuestFlag)
    BY <1>1 DEF Drainable, SoMemory
  <2>4. guest_sb[k] \in GuestBuf \cup GuestFlag
    BY <2>3, LenProperties
  <2>5. guest_sb[k].at = "bufs" \/ guest_sb[k].at = "flags"
    BY <2>4 DEF GuestBuf, GuestFlag
  <2>6. CASE guest_sb[k].at = "bufs"
    BY <2>1, <2>2, <2>6, GuestDrainRefill
  <2>7. CASE guest_sb[k].at = "flags"
    BY <2>1, <2>2, <2>7, GuestDrainFlag
  <2> QED
    BY <2>5, <2>6, <2>7
<1>9. CASE UNCHANGED soVars
  <2>1. SoInvAt(hd, gd, hf, gf, a)'
    <3>1. /\ UNCHANGED <<memVars, host_sb, guest_sb, hostVars, guestVars>>
          /\ UNCHANGED <<flags, bufs, payload>> /\ \A t : Own(t)' = Own(t)
      BY <1>9, OwnSame DEF soVars, memVars
    <3>2. UNCHANGED <<host_pc, host_cur, host_i, host_bufs, guest_pc, guest_cur, guest_bufs, free>>
      BY <3>1 DEF hostVars, guestVars
    <3>3. /\ SoMemory /\ HostControl /\ GuestControl /\ IndicesLoaded /\ BuffersApart
          /\ SharedInMemory(hd, gd, hf, gf, a) /\ RefillsInFlight(gd, gf)
          /\ PayloadsInFlight(hd, hf) /\ PayloadsArrived(gd, gf, a)
      BY Unpacked
    <3>4. PayloadsInFlight(hd, hf)'
      BY <3>1, <3>3, HostFrame DEF PayloadsInFlight, PayloadStores, FlagStores, HostId
    <3>5. host_sb' \in Seq(HostPayload \cup HostFlag) /\ HostControl' /\ HostIndices'
      BY <3>1, <3>2, <3>3, HostFrame DEF SoMemory, IndicesLoaded, HostIndices, Own
    <3>6. /\ HostAt' = Wrap(hd + hf) /\ FlagsFollow(host_sb', hd, hf) /\ hf + HostLeft' <= a
          /\ HostCount' - hf = HostCount - hf
      BY <3>1, <3>3, HostFrame DEF SharedInMemory
    <3> QED
      BY <3>1, <3>4, <3>5, <3>6, HostSide
  <2> QED
    BY <1>9, <2>1 DEF soVars, memVars
<1> QED
  BY <1>3, <1>4, <1>5, <1>6, <1>7, <1>8, <1>9 DEF SoNext, HostNext, GuestNext

(***************************************************************************)
(* The flags, the refills and the payloads in flight are in the order of   *)
(* the code, and memory is at every moment what it was some stores ago     *)
(* (vhost.h:80-96, mdque.h:6-23).                                          *)
(***************************************************************************)
THEOREM StoreOrderInvariant == SoSpec => []SoInv
<1>1. SoInit => SoInv
  BY SoInitially, SoSizes DEF SoInv, SoInvAt
<1>2. SoInv /\ [SoNext]_soVars => SoInv'
  <2> SUFFICES ASSUME SoInv, [SoNext]_soVars
               PROVE  SoInv'
    OBVIOUS
  <2>1. PICK hd, gd \in Slots, hf, gf, a \in 0 .. NENTRIES : SoInvAt(hd, gd, hf, gf, a)
    BY DEF SoInv, SoInvAt
  <2>2. PICK h2, g2 \in Slots, hf2, gf2, a2 \in 0 .. NENTRIES : SoInvAt(h2, g2, hf2, gf2, a2)'
    BY <2>1, SoStep
  <2> QED
    BY <2>2 DEF SoInv, SoInvAt
<1> QED
  BY <1>1, <1>2, PTL DEF SoSpec

(***************************************************************************)
(* check_pkt finds the packets in the order in which rx.out has sent them: *)
(* whoever loads a flag that is up loads what was stored before it         *)
(* (vhost.h:90, mdque.h:20).                                               *)
(***************************************************************************)
THEOREM PacketsLoadedInOrder == SoSpec => []LoadedInOrder
<1>1. SoInv => LoadedInOrder
  <2> SUFFICES ASSUME SoInv, guest_pc = "check"
               PROVE  Load(guest_sb, "payload", guest_bufs[guest_i + 1], payload) = guest_prev + 1
    BY DEF LoadedInOrder
  <2>1. PICK hd, gd \in Slots, hf, gf, a \in 0 .. NENTRIES : SoInvAt(hd, gd, hf, gf, a)
    BY DEF SoInv, SoInvAt
  <2>2. SoMemory /\ GuestControl /\ PayloadsArrived(gd, gf, a)
    BY <2>1 DEF SoInvAt, InFlight
  <2>3. guest_i \in Nat /\ guest_num \in Nat /\ guest_i < guest_num /\ guest_prev \in Nat
    BY <2>2 DEF GuestControl
  <2>4. guest_i + 1 \in Batch /\ GuestBase = guest_prev - guest_i
    BY <2>3 DEF Batch, GuestBase
  <2>5. payload[guest_bufs[guest_i + 1]] = GuestBase + (guest_i + 1)
    BY <2>2, <2>4 DEF PayloadsArrived
  <2>6. Load(guest_sb, "payload", guest_bufs[guest_i + 1], payload) = payload[guest_bufs[guest_i + 1]]
    BY <2>2, GuestFlagValues, LoadsMemory
  <2> QED
    BY <2>3, <2>4, <2>5, <2>6
<1> QED
  BY <1>1, StoreOrderInvariant, PTL

(***************************************************************************)
(* As memory sees them the descriptors change hands one by one and in      *)
(* order, although either side decides on a batch from flags that may be   *)
(* older than what the other side has stored (vhost.h:108, vio.h:25).      *)
(***************************************************************************)
THEOREM StoresDrainInOrder == SoSpec => DrainedInOrder
<1>1. SoInit => DrainedRing!RingInit
  <2> SUFFICES ASSUME SoInit
               PROVE  DrainedRing!RingInit
    OBVIOUS
  <2>1. FlagStores(host_sb) = {} /\ FlagStores(guest_sb) = {}
    BY DEF SoInit, FlagStores
  <2>2. DrainsAt(host_sb, HostAt) = 0 /\ DrainsAt(guest_sb, GuestAt) = 0
    BY <2>1 DEF SoInit, DrainsAt, HostAt, GuestAt
  <2>3. flags \in {[s \in Slots |-> f] : f \in Flags}
    BY DEF SoInit, Flags
  <2>4. DrainedRing!Slots = Slots /\ DrainedRing!Flags = Flags
    BY DEF Slots, DrainedRing!Slots, Flags, DrainedRing!Flags, AVAIL_FLAG, DrainedRing!AVAIL_FLAG,
           USED_FLAG, DrainedRing!USED_FLAG
  <2> QED
    BY <2>2, <2>3, <2>4 DEF DrainedRing!RingInit
<1>2. SoInv /\ SoInv' /\ [SoNext]_soVars => [DrainedRing!RingNext]_(DrainedRing!ringVars)
  <2> SUFFICES ASSUME SoInv, [SoNext]_soVars
               PROVE  [DrainedRing!RingNext]_(DrainedRing!ringVars)
    OBVIOUS
  <2>1. PICK hd, gd \in Slots, hf, gf, a \in 0 .. NENTRIES : SoInvAt(hd, gd, hf, gf, a)
    BY DEF SoInv, SoInvAt
  <2>2. PICK h2, g2 \in Slots, hf2, gf2, a2 \in 0 .. NENTRIES :
          /\ SoInvAt(h2, g2, hf2, gf2, a2)'
          /\ \/ h2 = hd /\ g2 = gd /\ flags' = flags
             \/ /\ flags[hd] = AVAIL_FLAG /\ flags' = [flags EXCEPT ![hd] = USED_FLAG]
                /\ h2 = Wrap(hd + 1) /\ g2 = gd
             \/ /\ flags[gd] = USED_FLAG /\ flags' = [flags EXCEPT ![gd] = AVAIL_FLAG]
                /\ g2 = Wrap(gd + 1) /\ h2 = hd
    BY <2>1, SoStep
  <2>3. DrainsAt(host_sb, HostAt) = hd /\ DrainsAt(guest_sb, GuestAt) = gd
    <3>1. /\ host_sb \in Seq(HostPayload \cup HostFlag) /\ guest_sb \in Seq(GuestBuf \cup GuestFlag)
          /\ HostAt = Wrap(hd + hf) /\ FlagsFollow(host_sb, hd, hf)
          /\ GuestAt = Wrap(gd + gf) /\ FlagsFollow(guest_sb, gd, gf)
      BY <2>1 DEF SoInvAt, InFlight, SoMemory, SharedInMemory
    <3> QED
      BY <3>1, NextFlag
  <2>4. DrainsAt(host_sb', HostAt') = h2 /\ DrainsAt(guest_sb', GuestAt') = g2
    <3>1. /\ host_sb' \in Seq(HostPayload \cup HostFlag) /\ guest_sb' \in Seq(GuestBuf \cup GuestFlag)
          /\ HostAt' = Wrap(h2 + hf2) /\ FlagsFollow(host_sb', h2, hf2)
          /\ GuestAt' = Wrap(g2 + gf2) /\ FlagsFollow(guest_sb', g2, gf2)
      BY <2>2 DEF SoInvAt, InFlight, SoMemory, SharedInMemory
    <3> QED
      BY <3>1, NextFlag
  <2> QED
    BY <2>2, <2>3, <2>4
    DEF DrainedRing!RingNext, DrainedRing!HostGives, DrainedRing!GuestGives, DrainedRing!ringVars,
        Wrap, DrainedRing!Wrap, AVAIL_FLAG, DrainedRing!AVAIL_FLAG, USED_FLAG, DrainedRing!USED_FLAG
<1> QED
  BY <1>1, <1>2, StoreOrderInvariant, PTL DEF SoSpec, DrainedInOrder, DrainedRing!RingSpec
=============================================================================
