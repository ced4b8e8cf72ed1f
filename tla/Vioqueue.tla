------------------------------ MODULE Vioqueue ------------------------------
(***************************************************************************)
(* A vioqueue (lib/vnwio/vioqueue.h) is a circular array of descriptors in *)
(* shared memory.  A descriptor carries a flag word, assigned and never    *)
(* or-ed, and the index of a packet buffer of the guest pool.  AVAIL means *)
(* that the host side (rx.out or tx.out) may use the descriptor, USED that *)
(* the guest side (nf.out) may.  Each side keeps cursors of its own and    *)
(* learns about the other side through the flags alone.                    *)
(***************************************************************************)
EXTENDS Integers

CONSTANT NENTRIES   \* vq->nentries, the option --vqsz

ASSUME NEntriesAssumption == NENTRIES \in Nat \ {0}

AVAIL_FLAG == "AVAIL"
USED_FLAG  == "USED"
Flags      == {AVAIL_FLAG, USED_FLAG}
Slots      == 0 .. NENTRIES - 1

(***************************************************************************)
(* x & (nentries - 1).  nentries is a power of two (nf.c:110) and every    *)
(* masked sum adds at most nentries to a cursor, so x < 2 * nentries and   *)
(* the mask subtracts nentries at most once.                               *)
(***************************************************************************)
Wrap(x) == IF x < NENTRIES THEN x ELSE x - NENTRIES

\* The number of steps from cursor c forward to slot s.
Ahead(s, c) == IF s >= c THEN s - c ELSE s - c + NENTRIES

\* The n descriptors that follow cursor c.
Window(c, n) == {s \in Slots : Ahead(s, c) < n}

(***************************************************************************)
(* How the descriptors are shared out.  The host side flips descriptors    *)
(* from AVAIL to USED one after the other at h, the guest side from USED   *)
(* to AVAIL at g; hn and gn descriptors are claimed by them and not yet    *)
(* flipped.  The AVAIL descriptors are the a descriptors from h up to g,   *)
(* and neither side has claimed more than there are on its own side.       *)
(***************************************************************************)
SharedOut(flags, h, g, hn, gn) ==
  \E a \in 0 .. NENTRIES :
    /\ g = Wrap(h + a)
    /\ \A s \in Slots : flags[s] = AVAIL_FLAG <=> Ahead(s, h) < a
    /\ hn <= a
    /\ gn <= NENTRIES - a

\* Mutant: >= instead of > in the check for the end of the array.
ContiguousShort(c, n) == c + n < NENTRIES

(***************************************************************************)
(* The host side refuses a batch that would run past the end of the array, *)
(* because it indexes descs[cursor + i] without a mask.                    *)
(***************************************************************************)
Contiguous(c, n) == c + n <= NENTRIES
=============================================================================
