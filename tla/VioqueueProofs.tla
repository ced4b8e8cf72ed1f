--------------------------- MODULE VioqueueProofs ---------------------------
(***************************************************************************)
(* Lemmas about the cursors of a vioqueue and about SharedOut, for every   *)
(* queue size.                                                             *)
(***************************************************************************)
EXTENDS Vioqueue, TLAPS

(***************************************************************************)
(* A masked cursor that moved by at most a whole turn is a descriptor      *)
(* (vio.h:37, vhost.h:76), and the mask can be applied step by step.       *)
(***************************************************************************)
LEMMA WrapSlot ==
  ASSUME NEW c \in Slots, NEW n \in 0 .. NENTRIES
  PROVE  Wrap(c + n) \in Slots
BY NEntriesAssumption DEF Wrap, Slots

LEMMA WrapZero ==
  ASSUME NEW c \in Slots
  PROVE  Wrap(c) = c /\ Wrap(c + 0) = c
BY NEntriesAssumption DEF Wrap, Slots

LEMMA WrapWrap ==
  ASSUME NEW c \in Slots, NEW m \in Nat, NEW n \in Nat, m + n <= NENTRIES
  PROVE  Wrap(Wrap(c + m) + n) = Wrap(c + m + n)
BY NEntriesAssumption DEF Wrap, Slots

(***************************************************************************)
(* Counting forward from a cursor and adding to it are inverse.            *)
(***************************************************************************)
LEMMA AheadBounds ==
  ASSUME NEW s \in Slots, NEW c \in Slots
  PROVE  Ahead(s, c) \in 0 .. NENTRIES - 1 /\ Wrap(c + Ahead(s, c)) = s
BY NEntriesAssumption DEF Wrap, Ahead, Slots

LEMMA AheadWrap ==
  ASSUME NEW c \in Slots, NEW n \in 0 .. NENTRIES - 1
  PROVE  Ahead(Wrap(c + n), c) = n
BY NEntriesAssumption DEF Wrap, Ahead, Slots

LEMMA AheadNext ==
  ASSUME NEW c \in Slots, NEW s \in Slots
  PROVE  Ahead(s, Wrap(c + 1)) = IF s = c THEN NENTRIES - 1 ELSE Ahead(s, c) - 1
BY NEntriesAssumption DEF Wrap, Ahead, Slots

LEMMA AheadZero ==
  ASSUME NEW c \in Slots, NEW s \in Slots
  PROVE  (Ahead(s, c) = 0) <=> (s = c)
BY NEntriesAssumption DEF Ahead, Slots
-----------------------------------------------------------------------------
(***************************************************************************)
(* The host side may claim the n descriptors from its cursor on when the   *)
(* flag of the last one is AVAIL (vhost.h:108,196): all of them are.       *)
(***************************************************************************)
LEMMA HostClaims ==
  ASSUME NEW flags \in [Slots -> Flags], NEW h \in Slots, NEW g \in Slots,
         NEW gn \in Nat, NEW n \in 1 .. NENTRIES,
         SharedOut(flags, h, g, 0, gn),
         flags[Wrap(h + n - 1)] = AVAIL_FLAG
  PROVE  SharedOut(flags, h, g, n, gn)
<1>1. PICK a \in 0 .. NENTRIES :
        /\ g = Wrap(h + a)
        /\ \A s \in Slots : flags[s] = AVAIL_FLAG <=> Ahead(s, h) < a
        /\ gn <= NENTRIES - a
  BY DEF SharedOut
<1>2. /\ Wrap(h + n - 1) \in Slots
      /\ Ahead(Wrap(h + n - 1), h) = n - 1
  <2>1. n - 1 \in 0 .. NENTRIES - 1 /\ h + n - 1 = h + (n - 1)
    BY NEntriesAssumption DEF Slots
  <2> QED
    BY <2>1, WrapSlot, AheadWrap, NEntriesAssumption
<1>3. n <= a
  BY <1>1, <1>2
<1> QED
  BY <1>1, <1>3 DEF SharedOut

(***************************************************************************)
(* The guest side may claim n descriptors when the flag of the last one is *)
(* USED (vio.h:25,121), as long as n is not more than the whole queue.     *)
(***************************************************************************)
LEMMA GuestClaims ==
  ASSUME NEW flags \in [Slots -> Flags], NEW h \in Slots, NEW g \in Slots,
         NEW hn \in Nat, NEW n \in 1 .. NENTRIES,
         SharedOut(flags, h, g, hn, 0),
         flags[Wrap(g + n - 1)] = USED_FLAG
  PROVE  SharedOut(flags, h, g, hn, n)
<1>1. PICK a \in 0 .. NENTRIES :
        /\ g = Wrap(h + a)
        /\ \A s \in Slots : flags[s] = AVAIL_FLAG <=> Ahead(s, h) < a
        /\ hn <= a
  BY DEF SharedOut
<1>2. Wrap(g + n - 1) \in Slots
  BY NEntriesAssumption DEF Wrap, Slots
<1>3. ~(Ahead(Wrap(g + n - 1), h) < a)
  BY <1>1, <1>2 DEF AVAIL_FLAG, USED_FLAG
<1>4. n <= NENTRIES - a
  BY <1>1, <1>3, NEntriesAssumption DEF Wrap, Ahead, Slots
<1> QED
  BY <1>1, <1>4 DEF SharedOut

(***************************************************************************)
(* A side hands over the descriptor at its cursor (vhost.h:92,174): it was *)
(* its own, and the rest stays shared out.                                 *)
(***************************************************************************)
LEMMA HostHandsOver ==
  ASSUME NEW flags \in [Slots -> Flags], NEW h \in Slots, NEW g \in Slots,
         NEW hn \in Nat, NEW gn \in Nat, hn > 0,
         SharedOut(flags, h, g, hn, gn)
  PROVE  /\ flags[h] = AVAIL_FLAG
         /\ SharedOut([flags EXCEPT ![h] = USED_FLAG], Wrap(h + 1), g, hn - 1, gn)
<1> DEFINE new == [flags EXCEPT ![h] = USED_FLAG]
<1>1. PICK a \in 0 .. NENTRIES :
        /\ g = Wrap(h + a)
        /\ \A s \in Slots : flags[s] = AVAIL_FLAG <=> Ahead(s, h) < a
        /\ hn <= a
        /\ gn <= NENTRIES - a
  BY DEF SharedOut
<1>2. a - 1 \in 0 .. NENTRIES
  BY <1>1, NEntriesAssumption
<1>3. flags[h] = AVAIL_FLAG
  BY <1>1, <1>2, AheadZero
<1>4. g = Wrap(Wrap(h + 1) + (a - 1))
  BY <1>1, <1>2, NEntriesAssumption DEF Wrap, Slots
<1>5. ASSUME NEW s \in Slots
      PROVE  new[s] = AVAIL_FLAG <=> Ahead(s, Wrap(h + 1)) < a - 1
  <2>1. CASE s = h
    BY <2>1, <1>1, AheadNext, NEntriesAssumption DEF AVAIL_FLAG, USED_FLAG
  <2>2. CASE s # h
    <3>1. new[s] = flags[s]
      BY <2>2
    <3>2. Ahead(s, Wrap(h + 1)) = Ahead(s, h) - 1 /\ Ahead(s, h) \in Int
      BY <2>2, AheadNext, AheadBounds, NEntriesAssumption
    <3> QED
      BY <3>1, <3>2, <1>1
  <2> QED
    BY <2>1, <2>2
<1>6. hn - 1 <= a - 1 /\ gn <= NENTRIES - (a - 1)
  BY <1>1, NEntriesAssumption
<1> QED
  BY <1>2, <1>3, <1>4, <1>5, <1>6 DEF SharedOut

LEMMA GuestHandsOver ==
  ASSUME NEW flags \in [Slots -> Flags], NEW h \in Slots, NEW g \in Slots,
         NEW hn \in Nat, NEW gn \in Nat, gn > 0,
         SharedOut(flags, h, g, hn, gn)
  PROVE  /\ flags[g] = USED_FLAG
         /\ SharedOut([flags EXCEPT ![g] = AVAIL_FLAG], h, Wrap(g + 1), hn, gn - 1)
<1> DEFINE new == [flags EXCEPT ![g] = AVAIL_FLAG]
<1>1. PICK a \in 0 .. NENTRIES :
        /\ g = Wrap(h + a)
        /\ \A s \in Slots : flags[s] = AVAIL_FLAG <=> Ahead(s, h) < a
        /\ hn <= a
        /\ gn <= NENTRIES - a
  BY DEF SharedOut
<1>2. a \in 0 .. NENTRIES - 1 /\ a + 1 \in 0 .. NENTRIES
  BY <1>1, NEntriesAssumption
<1>3. Ahead(g, h) = a
  BY <1>1, <1>2, AheadWrap
<1>4. flags[g] = USED_FLAG
  BY <1>1, <1>3 DEF Flags
<1>5. Wrap(g + 1) = Wrap(h + (a + 1))
  BY <1>1, <1>2, NEntriesAssumption DEF Wrap, Slots
<1>6. ASSUME NEW s \in Slots
      PROVE  new[s] = AVAIL_FLAG <=> Ahead(s, h) < a + 1
  <2>1. CASE s = g
    BY <2>1, <1>2, <1>3
  <2>2. CASE s # g
    <3>1. new[s] = flags[s]
      BY <2>2
    <3>2. Ahead(s, h) # a /\ Ahead(s, h) \in Int
      BY <2>2, <1>1, AheadBounds
    <3> QED
      BY <3>1, <3>2, <1>1, <1>2
  <2> QED
    BY <2>1, <2>2
<1>7. hn <= a + 1 /\ gn - 1 <= NENTRIES - (a + 1)
  BY <1>1, NEntriesAssumption
<1> QED
  BY <1>2, <1>4, <1>5, <1>6, <1>7 DEF SharedOut

(***************************************************************************)
(* What either side has claimed is its own.                                *)
(***************************************************************************)
LEMMA ClaimsAreOwned ==
  ASSUME NEW flags \in [Slots -> Flags], NEW h \in Slots, NEW g \in Slots,
         NEW hn \in Nat, NEW gn \in Nat,
         SharedOut(flags, h, g, hn, gn)
  PROVE  /\ \A s \in Window(h, hn) : flags[s] = AVAIL_FLAG
         /\ \A s \in Window(g, gn) : flags[s] = USED_FLAG
<1>1. PICK a \in 0 .. NENTRIES :
        /\ g = Wrap(h + a)
        /\ \A s \in Slots : flags[s] = AVAIL_FLAG <=> Ahead(s, h) < a
        /\ hn <= a
        /\ gn <= NENTRIES - a
  BY DEF SharedOut
<1>2. ASSUME NEW s \in Window(h, hn)
      PROVE  flags[s] = AVAIL_FLAG
  BY <1>1, <1>2, AheadBounds, NEntriesAssumption DEF Window
<1>3. ASSUME NEW s \in Window(g, gn)
      PROVE  flags[s] = USED_FLAG
  <2>1. s \in Slots /\ Ahead(s, g) < gn
    BY <1>3 DEF Window
  <2>2. ~(Ahead(s, h) < a)
    BY <1>1, <2>1, NEntriesAssumption DEF Wrap, Ahead, Slots
  <2> QED
    BY <1>1, <2>1, <2>2 DEF Flags
<1> QED
  BY <1>2, <1>3

(***************************************************************************)
(* A side that stops in the middle of a batch gives up its claim.          *)
(***************************************************************************)
LEMMA GuestGivesUp ==
  ASSUME NEW flags, NEW h \in Slots, NEW g \in Slots, NEW hn \in Nat, NEW gn \in Nat,
         SharedOut(flags, h, g, hn, gn)
  PROVE  SharedOut(flags, h, g, hn, 0)
BY NEntriesAssumption DEF SharedOut

LEMMA EmptyWindow ==
  ASSUME NEW c \in Slots
  PROVE  Window(c, 0) = {}
BY AheadBounds DEF Window
=============================================================================
