---------------------------- MODULE BufferProofs ----------------------------
(***************************************************************************)
(* Proofs about the packet and metadata buffers of a process (MbufBatch),  *)
(* for every batch, group and pool size: that each is in one place while   *)
(* batches come and go.                                                    *)
(***************************************************************************)
EXTENDS MbufBatchInv, SequenceTheorems, FunctionTheorems, FiniteSetTheorems, TLAPS

LEMMA MbSizes ==
  /\ BATCH_SIZE \in Nat \ {0} /\ AGGREGATED_MD_NUM \in Nat \ {0} /\ DESC_PER_CACHELINE \in Nat \ {0}
  /\ POOL_NUM \in Nat \ {0} /\ CACHE_NUM \in Nat
  /\ BATCH_SIZE <= CACHE_NUM /\ BATCH_SIZE <= POOL_NUM
  /\ Group \in Nat \ {0}
<1>1. AGGREGATED_MD_NUM \in Nat \ {0} /\ BATCH_SIZE \in Nat \ {0} /\ DESC_PER_CACHELINE \in Nat \ {0}
  BY BatchAssumption
<1> QED
  BY <1>1, BatchAssumption, PoolAssumption DEF Group

(***************************************************************************)
(* An object that is taken from a pool, by a pop or a dequeue, is not in   *)
(* it any more, and the others still are (pktbuf_get_put.h:11-31).         *)
(***************************************************************************)
LEMMA Popped ==
  ASSUME NEW c \in Seq(Objs), c # <<>>
  PROVE  /\ Len(c) \in Nat /\ Len(c) >= 1 /\ DOMAIN c = 1 .. Len(c) /\ c[Len(c)] \in Objs
         /\ SubSeq(c, 1, Len(c) - 1) \in Seq(Objs) /\ Len(SubSeq(c, 1, Len(c) - 1)) = Len(c) - 1
         /\ DOMAIN SubSeq(c, 1, Len(c) - 1) = 1 .. Len(c) - 1
         /\ \A k \in 1 .. Len(c) - 1 : SubSeq(c, 1, Len(c) - 1)[k] = c[k]
<1>1. Len(c) \in Nat /\ Len(c) >= 1 /\ DOMAIN c = 1 .. Len(c)
  OBVIOUS
<1> PICK n : n = Len(c)
  OBVIOUS
<1>a. n \in Nat /\ n >= 1
  BY <1>1
<1> PICK m : m = n - 1
  OBVIOUS
<1>2. m \in Nat /\ m = Len(c) - 1
  BY <1>a
<1>3. /\ SubSeq(c, 1, m) \in Seq(Objs) /\ Len(SubSeq(c, 1, m)) = m /\ DOMAIN SubSeq(c, 1, m) = 1 .. m
      /\ \A k \in 1 .. m : SubSeq(c, 1, m)[k] = c[k]
  BY <1>1, <1>2
<1>4. c[Len(c)] \in Objs
  BY <1>1
<1> QED
  BY <1>1, <1>2, <1>3, <1>4

LEMMA Dequeued ==
  ASSUME NEW c \in Seq(Objs), c # <<>>
  PROVE  /\ Len(c) \in Nat /\ Len(c) >= 1 /\ DOMAIN c = 1 .. Len(c) /\ Head(c) = c[1] /\ c[1] \in Objs
         /\ Tail(c) \in Seq(Objs) /\ Len(Tail(c)) = Len(c) - 1
         /\ DOMAIN Tail(c) = 1 .. Len(c) - 1
         /\ \A k \in 1 .. Len(c) - 1 : Tail(c)[k] = c[k + 1]
<1>1. Len(c) \in Nat /\ Len(c) >= 1 /\ DOMAIN c = 1 .. Len(c)
  OBVIOUS
<1> QED
  BY <1>1, HeadTailProperties, LenProperties

LEMMA LeftNat ==
  ASSUME NEW p \in Pools
  PROVE  Left(p) \in Nat
BY DEF Left, Pools

LEMMA OneMore ==
  ASSUME NEW m \in Nat, NEW n \in Nat
  PROVE  (m + 1) + n = (m + n) + 1
OBVIOUS

\* What a pool is after an allocation, and after a free.
Without(p, b, q) ==
  /\ q \in Pools /\ NoneTwice(q)
  /\ b \in PoolObjs(p) /\ PoolObjs(q) = PoolObjs(p) \ {b}
  /\ Left(p) \in Nat /\ Left(q) = Left(p) - 1

LEMMA AllocTakes ==
  ASSUME NEW p \in Pools, NoneTwice(p), CanAlloc(p)
  PROVE  /\ Without(p, AllocIdx(p), AfterAlloc(p)) /\ AllocIdx(p) \in Objs
         /\ Len(p.cache) \in Nat
         /\ Len(AfterAlloc(p).cache) = IF Len(p.cache) = 0 THEN 0 ELSE Len(p.cache) - 1
<1> DEFINE b == AllocIdx(p)
           q == AfterAlloc(p)
<1>1. /\ p.cache \in Seq(Objs) /\ p.ring \in Seq(Objs) /\ Len(p.cache) \in Nat /\ Len(p.ring) \in Nat
      /\ DOMAIN p.cache = 1 .. Len(p.cache) /\ DOMAIN p.ring = 1 .. Len(p.ring)
  BY LenProperties DEF Pools
<1>2. CASE p.cache # <<>>
  <2> PICK c : c = p.cache
    OBVIOUS
  <2>1. c \in Seq(Objs) /\ c # <<>>
    BY <1>1, <1>2
  <2> DEFINE d == SubSeq(c, 1, Len(c) - 1)
  <2>2. /\ Len(c) \in Nat /\ Len(c) >= 1 /\ DOMAIN c = 1 .. Len(c) /\ c[Len(c)] \in Objs
        /\ d \in Seq(Objs) /\ Len(d) = Len(c) - 1 /\ DOMAIN d = 1 .. Len(c) - 1
        /\ \A k \in 1 .. Len(c) - 1 : d[k] = c[k]
    BY <2>1, Popped
  <2> HIDE DEF d
  <2>3. b = c[Len(c)] /\ q = [p EXCEPT !.cache = d]
    BY <1>2 DEF AllocIdx, AfterAlloc, d
  <2>4. q \in Pools /\ q.cache = d /\ q.ring = p.ring
    BY <2>2, <2>3 DEF Pools
  <2> HIDE DEF b, q
  <2>5. \A k \in DOMAIN d : k \in DOMAIN c /\ d[k] = c[k] /\ k # Len(c)
    BY <2>2
  <2>6. \A k \in DOMAIN c : k = Len(c) \/ k \in DOMAIN d
    BY <2>2
  <2>7. Len(c) \in DOMAIN c
    BY <2>2
  <2>8. NoneTwice(q)
    BY <2>4, <2>5 DEF NoneTwice
  <2>9. b \in PoolObjs(p)
    BY <2>3, <2>7 DEF PoolObjs
  <2>10. ASSUME NEW x
         PROVE  x \in PoolObjs(q) <=> x \in PoolObjs(p) /\ x # b
    <3>1. x \in PoolObjs(q) <=> (\E k \in DOMAIN d : d[k] = x) \/ (\E k \in DOMAIN p.ring : p.ring[k] = x)
      BY <2>4 DEF PoolObjs
    <3>2. x \in PoolObjs(p) <=> (\E k \in DOMAIN c : c[k] = x) \/ (\E k \in DOMAIN p.ring : p.ring[k] = x)
      BY DEF PoolObjs
    <3>3. \A k \in DOMAIN d : d[k] # b
      BY <2>3, <2>5, <2>7 DEF NoneTwice
    <3>4. \A k \in DOMAIN p.ring : p.ring[k] # b
      BY <2>3, <2>7 DEF NoneTwice
    <3>5. (\E k \in DOMAIN c : c[k] = x) /\ x # b => \E k \in DOMAIN d : d[k] = x
      BY <2>3, <2>5, <2>6
    <3>6. (\E k \in DOMAIN d : d[k] = x) => \E k \in DOMAIN c : c[k] = x
      BY <2>5
    <3> QED
      BY <3>1, <3>2, <3>3, <3>4, <3>5, <3>6
  <2>11. PoolObjs(q) = PoolObjs(p) \ {b}
    BY <2>10
  <2>12. Left(p) \in Nat /\ Left(q) = Left(p) - 1
    <3>1. Left(p) = Len(c) + Len(p.ring) /\ Left(q) = Len(d) + Len(p.ring)
      BY <2>4 DEF Left
    <3>2. Len(c) \in Nat /\ Len(d) = Len(c) - 1 /\ Len(p.ring) \in Nat /\ Len(p.cache) \in Nat
      BY <1>1, <2>2
    <3>3. Left(p) \in Nat
      BY LeftNat
    <3>4. Left(q) = Left(p) - 1
      BY <3>1, <3>2
    <3> QED
      BY <3>3, <3>4
  <2>13. Without(p, b, q)
    BY <2>4, <2>8, <2>9, <2>11, <2>12 DEF Without
  <2> QED
    BY <1>1, <2>2, <2>3, <2>4, <2>13 DEF b, q
<1>3. CASE p.cache = <<>>
  <2> PICK c : c = p.ring
    OBVIOUS
  <2>1. c \in Seq(Objs) /\ c # <<>>
    BY <1>1, <1>3 DEF CanAlloc
  <2> DEFINE d == Tail(c)
  <2>2. /\ Len(c) \in Nat /\ Len(c) >= 1 /\ DOMAIN c = 1 .. Len(c) /\ Head(c) = c[1] /\ c[1] \in Objs
        /\ d \in Seq(Objs) /\ Len(d) = Len(c) - 1 /\ DOMAIN d = 1 .. Len(c) - 1
        /\ \A k \in 1 .. Len(c) - 1 : d[k] = c[k + 1]
    BY <2>1, Dequeued
  <2> HIDE DEF d
  <2>3. b = c[1] /\ q = [p EXCEPT !.ring = d]
    BY <1>3, <2>2 DEF AllocIdx, AfterAlloc, d
  <2>4. q \in Pools /\ q.ring = d /\ q.cache = p.cache
    BY <2>2, <2>3 DEF Pools
  <2> HIDE DEF b, q
  <2>5. \A k \in DOMAIN d : k + 1 \in DOMAIN c /\ d[k] = c[k + 1] /\ k + 1 # 1 /\ k \in Nat
    BY <2>2
  <2>6. \A k \in DOMAIN c : k = 1 \/ (k - 1 \in DOMAIN d /\ d[k - 1] = c[k])
    BY <2>2
  <2>7. 1 \in DOMAIN c
    BY <2>2
  <2>8. NoneTwice(q)
    <3>1. ASSUME NEW j \in DOMAIN d, NEW k \in DOMAIN d, d[j] = d[k]
          PROVE  j = k
      <4>1. j + 1 = k + 1
        BY <2>5, <3>1 DEF NoneTwice
      <4> QED
        BY <2>5, <4>1
    <3> QED
      BY <2>4, <2>5, <3>1 DEF NoneTwice
  <2>9. b \in PoolObjs(p)
    BY <2>3, <2>7 DEF PoolObjs
  <2>10. ASSUME NEW x
         PROVE  x \in PoolObjs(q) <=> x \in PoolObjs(p) /\ x # b
    <3>1. x \in PoolObjs(q) <=> (\E k \in DOMAIN d : d[k] = x) \/ (\E k \in DOMAIN p.cache : p.cache[k] = x)
      BY <2>4 DEF PoolObjs
    <3>2. x \in PoolObjs(p) <=> (\E k \in DOMAIN c : c[k] = x) \/ (\E k \in DOMAIN p.cache : p.cache[k] = x)
      BY DEF PoolObjs
    <3>3. \A k \in DOMAIN d : d[k] # b
      BY <2>3, <2>5, <2>7 DEF NoneTwice
    <3>4. \A k \in DOMAIN p.cache : p.cache[k] # b
      BY <2>3, <2>7 DEF NoneTwice
    <3>5. (\E k \in DOMAIN c : c[k] = x) /\ x # b => \E k \in DOMAIN d : d[k] = x
      BY <2>3, <2>6
    <3>6. (\E k \in DOMAIN d : d[k] = x) => \E k \in DOMAIN c : c[k] = x
      BY <2>5
    <3> QED
      BY <3>1, <3>2, <3>3, <3>4, <3>5, <3>6
  <2>11. PoolObjs(q) = PoolObjs(p) \ {b}
    BY <2>10
  <2>12. Left(p) \in Nat /\ Left(q) = Left(p) - 1
    <3>1. Left(p) = Len(p.cache) + Len(c) /\ Left(q) = Len(p.cache) + Len(d)
      BY <2>4 DEF Left
    <3>2. Len(c) \in Nat /\ Len(d) = Len(c) - 1 /\ Len(p.ring) \in Nat /\ Len(p.cache) \in Nat
      BY <1>1, <2>2
    <3>3. Left(p) \in Nat
      BY LeftNat
    <3>4. Left(q) = Left(p) - 1
      BY <3>1, <3>2
    <3> QED
      BY <3>3, <3>4
  <2>13. Without(p, b, q)
    BY <2>4, <2>8, <2>9, <2>11, <2>12 DEF Without
  <2>14. Len(p.cache) = 0
    BY <1>3
  <2> QED
    BY <1>1, <2>2, <2>3, <2>4, <2>13, <2>14 DEF b, q
<1> QED
  BY <1>2, <1>3

(***************************************************************************)
(* An object that is freed into the cache is in the pool once              *)
(* (pktbuf_get_put.h:33-49).                                               *)
(***************************************************************************)
LEMMA FreeAdds ==
  ASSUME NEW p \in Pools, NoneTwice(p), NEW b \in Objs, b \notin PoolObjs(p), Cacheable(p)
  PROVE  /\ Without(AfterFree(p, b), b, p) /\ AfterFree(p, b) \in Pools /\ NoneTwice(AfterFree(p, b))
         /\ PoolObjs(AfterFree(p, b)) = PoolObjs(p) \cup {b} /\ Left(AfterFree(p, b)) = Left(p) + 1
         /\ Len(p.cache) \in Nat /\ Len(AfterFree(p, b).cache) = Len(p.cache) + 1
<1> DEFINE q == AfterFree(p, b)
<1>1. /\ p.cache \in Seq(Objs) /\ p.ring \in Seq(Objs) /\ Len(p.cache) \in Nat /\ Len(p.ring) \in Nat
      /\ DOMAIN p.cache = 1 .. Len(p.cache) /\ DOMAIN p.ring = 1 .. Len(p.ring)
  BY LenProperties DEF Pools
<1> PICK c : c = p.cache
  OBVIOUS
<1> PICK d : d = Append(c, b)
  OBVIOUS
<1>2. /\ c \in Seq(Objs) /\ Len(c) \in Nat /\ DOMAIN c = 1 .. Len(c)
      /\ d \in Seq(Objs) /\ Len(d) = Len(c) + 1 /\ DOMAIN d = 1 .. Len(c) + 1
      /\ d[Len(c) + 1] = b /\ \A k \in 1 .. Len(c) : d[k] = c[k]
  BY <1>1, AppendProperties, LenProperties
<1>3. q = [p EXCEPT !.cache = d]
  BY DEF AfterFree
<1>4. q \in Pools /\ q.cache = d /\ q.ring = p.ring
  BY <1>2, <1>3 DEF Pools
<1> HIDE DEF q
<1>5. \A k \in DOMAIN d : (d[k] = b /\ k = Len(c) + 1) \/ (k \in DOMAIN c /\ d[k] = c[k])
  <2>a. Len(c) \in Nat
    BY <1>2
  <2>1. \A k \in 1 .. Len(c) + 1 : k = Len(c) + 1 \/ k \in 1 .. Len(c)
    BY <2>a
  <2> QED
    BY <1>2, <2>1
<1>6. Len(c) + 1 \in DOMAIN d /\ \A k \in DOMAIN c : k \in DOMAIN d /\ d[k] = c[k]
  BY <1>2
<1>7. (\A k \in DOMAIN c : c[k] # b) /\ (\A k \in DOMAIN p.ring : p.ring[k] # b)
  BY DEF PoolObjs
<1>8. NoneTwice(q)
  BY <1>4, <1>5, <1>7 DEF NoneTwice
<1>9. ASSUME NEW x
      PROVE  x \in PoolObjs(q) <=> x \in PoolObjs(p) \/ x = b
  <2>1. x \in PoolObjs(q) <=> (\E k \in DOMAIN d : d[k] = x) \/ (\E k \in DOMAIN p.ring : p.ring[k] = x)
    BY <1>4 DEF PoolObjs
  <2>2. x \in PoolObjs(p) <=> (\E k \in DOMAIN c : c[k] = x) \/ (\E k \in DOMAIN p.ring : p.ring[k] = x)
    BY DEF PoolObjs
  <2>3. (\E k \in DOMAIN d : d[k] = x) <=> (\E k \in DOMAIN c : c[k] = x) \/ x = b
    BY <1>2, <1>5, <1>6
  <2> QED
    BY <2>1, <2>2, <2>3
<1>10. PoolObjs(q) = PoolObjs(p) \cup {b} /\ PoolObjs(p) = PoolObjs(q) \ {b}
  BY <1>9
<1>11. Left(q) \in Nat /\ Left(q) = Left(p) + 1 /\ Left(p) = Left(q) - 1
  <2>1. Left(p) = Len(c) + Len(p.ring) /\ Left(q) = Len(d) + Len(p.ring)
    BY <1>4 DEF Left
  <2>2. Len(c) \in Nat /\ Len(d) = Len(c) + 1 /\ Len(p.ring) \in Nat
    BY <1>1, <1>2
  <2>3. Left(p) \in Nat
    BY LeftNat
  <2>4. Left(q) = Left(p) + 1
    <3> PICK m : m = Len(c)
      OBVIOUS
    <3> PICK r : r = Len(p.ring)
      OBVIOUS
    <3>1. m \in Nat /\ r \in Nat /\ Left(p) = m + r /\ Left(q) = (m + 1) + r
      BY <2>1, <2>2
    <3> HIDE DEF Left
    <3>2. (m + 1) + r = (m + r) + 1
      BY <3>1, OneMore
    <3> QED
      BY <3>1, <3>2
  <2> QED
    BY <2>3, <2>4
<1> QED
  BY <1>1, <1>2, <1>4, <1>8, <1>10, <1>11 DEF Without, q
-----------------------------------------------------------------------------
\* Sets of entries, which the model counts.
LEMMA EntriesCount ==
  ASSUME NEW R \in SUBSET Entries
  PROVE  /\ IsFiniteSet(R) /\ Cardinality(R) \in Nat /\ Cardinality(R) <= BATCH_SIZE
         /\ \A r \in Entries \ R : /\ R \cup {r} \in SUBSET Entries
                                 /\ Cardinality(R \cup {r}) = Cardinality(R) + 1
                                 /\ Cardinality(R) + 1 <= BATCH_SIZE
         /\ \A r \in R : /\ R \ {r} \in SUBSET Entries
                        /\ Cardinality(R \ {r}) = Cardinality(R) - 1
                        /\ Cardinality(R) >= 1
<1>1. IsFiniteSet(Entries) /\ Cardinality(Entries) = BATCH_SIZE
  <2>1. BATCH_SIZE \in Nat /\ BATCH_SIZE >= 1
    BY MbSizes
  <2>2. 0 \in Int /\ BATCH_SIZE - 1 \in Int /\ ~(0 > BATCH_SIZE - 1) /\ BATCH_SIZE - 1 - 0 + 1 = BATCH_SIZE
    BY <2>1
  <2> QED
    BY <2>2, FS_Interval DEF Entries
<1>2. \A S \in SUBSET Entries : IsFiniteSet(S) /\ Cardinality(S) \in Nat /\ Cardinality(S) <= BATCH_SIZE
  <2> TAKE S \in SUBSET Entries
  <2>1. IsFiniteSet(S) /\ Cardinality(S) <= BATCH_SIZE
    BY <1>1, FS_Subset
  <2>2. Cardinality(S) \in Nat
    BY <2>1, FS_CardinalityType
  <2> QED
    BY <2>1, <2>2
<1>3. ASSUME NEW r \in Entries \ R
      PROVE  /\ R \cup {r} \in SUBSET Entries
             /\ Cardinality(R \cup {r}) = Cardinality(R) + 1
             /\ Cardinality(R) + 1 <= BATCH_SIZE
  <2>1. R \cup {r} \in SUBSET Entries
    OBVIOUS
  <2>2. Cardinality(R \cup {r}) = Cardinality(R) + 1
    BY <1>2, FS_AddElement
  <2>3. Cardinality(R \cup {r}) <= BATCH_SIZE
    BY <1>2, <2>1
  <2> QED
    BY <2>1, <2>2, <2>3
<1>4. ASSUME NEW r \in R
      PROVE  /\ R \ {r} \in SUBSET Entries
             /\ Cardinality(R \ {r}) = Cardinality(R) - 1
             /\ Cardinality(R) >= 1
  <2>1. R \ {r} \in SUBSET Entries
    OBVIOUS
  <2>2. Cardinality(R \ {r}) = Cardinality(R) - 1
    BY <1>2, FS_RemoveElement
  <2>3. Cardinality(R) \in Nat /\ Cardinality(R \ {r}) \in Nat
    BY <1>2, <2>1
  <2> QED
    BY <2>1, <2>2, <2>3
<1> QED
  BY <1>2, <1>3, <1>4

(***************************************************************************)
(* The entry that takes a buffer has it to itself: the process never finds *)
(* the pool empty, as an entry without a buffer is left.                   *)
(***************************************************************************)
LEMMA AllocShares ==
  ASSUME NEW p, NEW f, NEW g, NEW R \in SUBSET Entries, NEW r \in Entries \ R,
         HeldAndFree(p, f, R), g[r] = AllocIdx(p), \A i \in R : g[i] = f[i]
  PROVE  CanAlloc(p) /\ AllocIdx(p) \in Objs /\ HeldAndFree(AfterAlloc(p), g, R \cup {r})
<1> DEFINE q == AfterAlloc(p)
           b == AllocIdx(p)
           n == Cardinality(R)
<1>1. /\ p \in Pools /\ NoneTwice(p)
      /\ \A i \in R : f[i] \in Objs \ PoolObjs(p)
      /\ \A i, j \in R : f[i] = f[j] => i = j
      /\ \A o \in Objs \ PoolObjs(p) : \E i \in R : f[i] = o
      /\ Left(p) = POOL_NUM - n
      /\ Len(p.cache) + n <= BATCH_SIZE
  BY DEF HeldAndFree
<1>2. n \in Nat /\ n + 1 <= BATCH_SIZE /\ Cardinality(R \cup {r}) = n + 1
  BY EntriesCount
<1>3. BATCH_SIZE \in Nat /\ POOL_NUM \in Nat /\ BATCH_SIZE <= POOL_NUM
  BY MbSizes
<1> HIDE DEF n
<1>4. CanAlloc(p)
  <2> SUFFICES ASSUME p.cache = <<>>, p.ring = <<>>
               PROVE  FALSE
    BY DEF CanAlloc
  <2>1. Left(p) = 0
    BY DEF Left
  <2> QED
    BY <1>1, <1>2, <1>3, <2>1
<1>5. /\ Without(p, b, q) /\ b \in Objs /\ Len(p.cache) \in Nat
      /\ Len(q.cache) = IF Len(p.cache) = 0 THEN 0 ELSE Len(p.cache) - 1
  BY <1>1, <1>4, AllocTakes
<1>6. g[r] = b
  OBVIOUS
<1> HIDE DEF q, b
<1>7. /\ q \in Pools /\ NoneTwice(q) /\ b \in PoolObjs(p) /\ PoolObjs(q) = PoolObjs(p) \ {b}
      /\ Left(q) = Left(p) - 1
  BY <1>5 DEF Without
<1>8. \A i \in R \cup {r} : g[i] \in Objs \ PoolObjs(q)
  BY <1>1, <1>5, <1>6, <1>7
<1>9. \A i, j \in R \cup {r} : g[i] = g[j] => i = j
  BY <1>1, <1>6, <1>7
<1>10. \A o \in Objs \ PoolObjs(q) : \E i \in R \cup {r} : g[i] = o
  BY <1>1, <1>6, <1>7
<1>11. Left(q) = POOL_NUM - (n + 1)
  BY <1>1, <1>2, <1>3, <1>7
<1>12. Len(q.cache) + (n + 1) <= BATCH_SIZE
  BY <1>1, <1>2, <1>3, <1>5
<1> QED
  BY <1>2, <1>4, <1>5, <1>7, <1>8, <1>9, <1>10, <1>11, <1>12 DEF HeldAndFree, q, b

(***************************************************************************)
(* The entry that gives its buffer back finds the cache with room for it.  *)
(***************************************************************************)
LEMMA FreeShares ==
  ASSUME NEW p, NEW f, NEW R \in SUBSET Entries, NEW r \in R, HeldAndFree(p, f, R)
  PROVE  CanFree(p) /\ HeldAndFree(AfterFree(p, f[r]), f, R \ {r})
<1> DEFINE b == f[r]
           q == AfterFree(p, b)
           n == Cardinality(R)
<1>1. /\ p \in Pools /\ NoneTwice(p)
      /\ \A i \in R : f[i] \in Objs \ PoolObjs(p)
      /\ \A i, j \in R : f[i] = f[j] => i = j
      /\ \A o \in Objs \ PoolObjs(p) : \E i \in R : f[i] = o
      /\ Left(p) = POOL_NUM - n
      /\ Len(p.cache) + n <= BATCH_SIZE
  BY DEF HeldAndFree
<1>2. n \in Nat /\ n >= 1 /\ Cardinality(R \ {r}) = n - 1
  BY EntriesCount
<1>3. BATCH_SIZE \in Nat /\ CACHE_NUM \in Nat /\ BATCH_SIZE <= CACHE_NUM /\ POOL_NUM \in Nat
  BY MbSizes
<1> HIDE DEF n
<1>4. Len(p.cache) \in Nat
  BY <1>1 DEF Pools
<1>5. Cacheable(p)
  BY <1>1, <1>2, <1>3, <1>4 DEF Cacheable
<1>6. b \in Objs /\ b \notin PoolObjs(p)
  BY <1>1
<1> HIDE DEF b
<1>7. /\ q \in Pools /\ NoneTwice(q)
      /\ PoolObjs(q) = PoolObjs(p) \cup {b} /\ Left(q) = Left(p) + 1
      /\ Len(q.cache) = Len(p.cache) + 1
  BY <1>1, <1>5, <1>6, FreeAdds
<1> HIDE DEF q
<1>8. \A i \in R \ {r} : f[i] \in Objs \ PoolObjs(q)
  BY <1>1, <1>7 DEF b
<1>9. \A o \in Objs \ PoolObjs(q) : \E i \in R \ {r} : f[i] = o
  BY <1>1, <1>7 DEF b
<1>10. Left(q) = POOL_NUM - (n - 1)
  BY <1>1, <1>2, <1>3, <1>7
<1>11. Len(q.cache) + (n - 1) <= BATCH_SIZE
  BY <1>1, <1>2, <1>3, <1>4, <1>7
<1>12. HeldAndFree(q, f, R \ {r})
  BY <1>1, <1>2, <1>7, <1>8, <1>9, <1>10, <1>11 DEF HeldAndFree
<1> QED
  BY <1>5, <1>12 DEF CanFree, q, b

\* Only what f gives at R matters.
LEMMA SharesSame ==
  ASSUME NEW p, NEW f, NEW g, NEW R, HeldAndFree(p, f, R), \A i \in R : g[i] = f[i]
  PROVE  HeldAndFree(p, g, R)
BY DEF HeldAndFree
-----------------------------------------------------------------------------
\* Quotients and remainders of a divisor that is not known.
LEMMA Division ==
  ASSUME NEW n \in Nat, NEW g \in Nat \ {0}
  PROVE  /\ n \div g \in Nat /\ n % g \in Nat /\ n % g < g
         /\ n = g * (n \div g) + (n % g)
<1>1. n = g * (n \div g) + (n % g)
  OBVIOUS
<1>2. n \div g \in Nat /\ n % g \in Nat /\ n % g < g
  OBVIOUS
<1> QED
  BY <1>1, <1>2

LEMMA Multiple ==
  ASSUME NEW q \in Nat, NEW g \in Nat \ {0}
  PROVE  g * q \in Nat /\ (g * q) % g = 0 /\ (g * q) \div g = q
OBVIOUS

LEMMA NextMultiple ==
  ASSUME NEW a \in Nat, NEW b \in Nat, NEW g \in Nat \ {0}, a < b
  PROVE  g * a + g <= g * b
OBVIOUS

LEMMA SmallerMultiple ==
  ASSUME NEW a \in Nat, NEW b \in Nat, NEW g \in Nat \ {0}, g * a < g * b
  PROVE  a < b
OBVIOUS

(***************************************************************************)
(* The groups of mbptrs: an entry belongs to the last head that is not     *)
(* behind it, and from one head to the next it is a group.                 *)
(***************************************************************************)
LEMMA Heads ==
  ASSUME NEW i \in Nat
  PROVE  /\ HeadOf(i) \in Nat /\ HeadOf(i) <= i /\ i < HeadOf(i) + Group
         /\ HeadOf(i) = Group * (i \div Group)
         /\ IsHead(HeadOf(i))
         /\ IsHead(i) <=> HeadOf(i) = i
<1>1. Group \in Nat \ {0}
  BY MbSizes
<1> PICK g : g = Group
  OBVIOUS
<1> PICK q : q = i \div g
  OBVIOUS
<1> PICK r : r = i % g
  OBVIOUS
<1>2. g \in Nat \ {0} /\ q \in Nat /\ r \in Nat /\ r < g /\ i = g * q + r
  BY <1>1, Division
<1>3. g * q \in Nat /\ (g * q) % g = 0
  BY <1>2, Multiple
<1>4. HeadOf(i) = i - r /\ (IsHead(i) <=> r = 0)
  BY DEF HeadOf, IsHead
<1>5. HeadOf(i) = g * q
  BY <1>2, <1>3, <1>4
<1>6. IsHead(HeadOf(i))
  BY <1>3, <1>5 DEF IsHead
<1>7. HeadOf(i) <= i /\ i < HeadOf(i) + g /\ (r = 0 <=> HeadOf(i) = i)
  BY <1>2, <1>3, <1>5
<1> QED
  BY <1>3, <1>4, <1>5, <1>6, <1>7

LEMMA HeadsApart ==
  ASSUME NEW h \in Nat, NEW k \in Nat, IsHead(h), IsHead(k), h < k
  PROVE  h + Group <= k
<1>1. Group \in Nat \ {0}
  BY MbSizes
<1>2. PICK a \in Nat : h = Group * a
  BY <1>1, Heads, Division
<1>3. PICK b \in Nat : k = Group * b
  BY <1>1, Heads, Division
<1>4. a < b
  BY <1>1, <1>2, <1>3, SmallerMultiple
<1> QED
  BY <1>1, <1>2, <1>3, <1>4, NextMultiple

LEMMA HeadNext ==
  ASSUME NEW h \in Nat, IsHead(h)
  PROVE  IsHead(h + Group) /\ h + Group \in Nat
<1>1. Group \in Nat \ {0}
  BY MbSizes
<1>2. PICK a \in Nat : h = Group * a
  BY <1>1, Heads, Division
<1>3. h + Group = Group * (a + 1)
  BY <1>1, <1>2
<1>4. (Group * (a + 1)) % Group = 0
  BY <1>1, Multiple
<1> QED
  BY <1>1, <1>3, <1>4 DEF IsHead

\* The last head that is not behind an entry, and only it.
LEMMA HeadIsLast ==
  ASSUME NEW h \in Nat, NEW i \in Nat, IsHead(h), h <= i
  PROVE  h <= HeadOf(i) /\ (i < h + Group => HeadOf(i) = h)
<1>1. HeadOf(i) \in Nat /\ HeadOf(i) <= i /\ i < HeadOf(i) + Group /\ IsHead(HeadOf(i)) /\ Group \in Nat
  BY Heads, MbSizes
<1>2. h <= HeadOf(i)
  <2>1. HeadOf(i) < h => HeadOf(i) + Group <= h
    BY <1>1, HeadsApart
  <2> QED
    BY <1>1, <2>1
<1>3. h < HeadOf(i) => h + Group <= HeadOf(i)
  BY <1>1, HeadsApart
<1> QED
  BY <1>1, <1>2, <1>3

LEMMA FirstHeads ==
  ASSUME NEW s \in Nat
  PROVE  /\ FirstHead(s) \in Nat /\ IsHead(FirstHead(s)) /\ s <= FirstHead(s)
         /\ \A h \in Nat : IsHead(h) /\ s <= h => FirstHead(s) <= h
<1>1. Group \in Nat \ {0}
  BY MbSizes
<1>2. CASE IsHead(s)
  BY <1>2 DEF FirstHead, IsHead
<1>3. CASE ~IsHead(s)
  <2>1. HeadOf(s) \in Nat /\ HeadOf(s) < s /\ s < HeadOf(s) + Group /\ IsHead(HeadOf(s))
    BY <1>3, Heads
  <2>2. FirstHead(s) = HeadOf(s) + Group
    <3>1. s \div Group \in Nat /\ HeadOf(s) = Group * (s \div Group)
      BY <1>1, Heads, Division
    <3>2. FirstHead(s) = (s \div Group + 1) * Group
      BY <1>3 DEF FirstHead, IsHead
    <3> QED
      BY <1>1, <3>1, <3>2
  <2>3. FirstHead(s) \in Nat /\ IsHead(FirstHead(s))
    BY <2>1, <2>2, HeadNext
  <2>4. ASSUME NEW h \in Nat, IsHead(h), s <= h
        PROVE  FirstHead(s) <= h
    <3>1. HeadOf(s) < h
      BY <2>1, <2>4
    <3> QED
      BY <2>1, <2>2, <2>4, <3>1, HeadsApart
  <2> QED
    BY <1>1, <2>1, <2>2, <2>3, <2>4
<1> QED
  BY <1>2, <1>3
-----------------------------------------------------------------------------
\* What the control part says of the loop indices, and the sets of entries are.
LEMMA MbTypes ==
  ASSUME MbInv
  PROVE  /\ mb_num \in Nat /\ mb_num >= 1 /\ mb_num <= BATCH_SIZE
         /\ mb_start \in Nat /\ mb_start <= mb_num /\ mb_i \in Nat
         /\ HeldBufs \in SUBSET Entries /\ HeldMds \in SUBSET Entries
<1>1. BATCH_SIZE \in Nat
  BY MbSizes
<1>2. mb_num \in 1 .. BATCH_SIZE /\ mb_start \in 0 .. mb_num /\ mb_i \in Nat
  BY DEF MbInv, MbControl
<1>3. \A m, n : Before(n) \in SUBSET Entries /\ Between(m, n) \in SUBSET Entries
  BY DEF Before, Between
<1>4. \A R \in SUBSET Entries : HeadsIn(R) \in SUBSET Entries
  BY DEF HeadsIn
<1>5. mb_pc \in {"idle", "take", "setup", "work", "give", "unset", "received"} /\ role \in {"rx", "tx", "nf"}
  BY DEF MbInv, MbControl
<1>6. HeldBufs \in SUBSET Entries
  BY <1>3, <1>5 DEF HeldBufs
<1>7. HeldMds \in SUBSET Entries
  <2>1. Before(mb_start) \cup Between(mb_i, mb_num) \in SUBSET Entries
    BY <1>3
  <2>2. {i \in HeadsIn(Entries) : mb_md[i] >= 0} \in SUBSET Entries
    BY <1>4
  <2> QED
    BY <1>3, <1>4, <2>1, <2>2 DEF HeldMds
<1> QED
  BY <1>1, <1>2, <1>6, <1>7

LEMMA PooledOrReused == ~(Pooled /\ Reused) /\ (variant = "integrated" => ~Pooled /\ ~Reused)
BY DEF Pooled, Reused

LEMMA EntriesRange ==
  /\ \A i : i \in Entries <=> i \in Nat /\ i < BATCH_SIZE
  /\ \A i, n : i \in Before(n) <=> i \in Nat /\ i < BATCH_SIZE /\ i < n
  /\ \A i, m, n : i \in Between(m, n) <=> i \in Nat /\ i < BATCH_SIZE /\ m <= i /\ i < n
<1>1. BATCH_SIZE \in Nat
  BY MbSizes
<1>2. \A i : i \in Entries <=> i \in Nat /\ i < BATCH_SIZE
  BY <1>1 DEF Entries
<1> QED
  BY <1>2 DEF Before, Between

\* The build never changes, and nothing that is said of groups with it.
LEMMA SameBuild ==
  ASSUME build' = build
  PROVE  /\ variant' = variant /\ Group' = Group /\ (Pooled' <=> Pooled) /\ (Reused' <=> Reused)
         /\ \A i : HeadOf(i)' = HeadOf(i) /\ (IsHead(i)' <=> IsHead(i))
         /\ \A R : HeadsIn(R)' = HeadsIn(R)
<1>1. variant' = variant
  BY DEF variant
<1>2. Group' = Group /\ (Pooled' <=> Pooled) /\ (Reused' <=> Reused)
  BY <1>1 DEF Group, Pooled, Reused
<1>3. \A i : HeadOf(i)' = HeadOf(i) /\ (IsHead(i)' <=> IsHead(i))
  BY <1>2 DEF HeadOf, IsHead
<1>4. \A R : HeadsIn(R)' = HeadsIn(R)
  BY <1>3 DEF HeadsIn
<1> QED
  BY <1>1, <1>2, <1>3, <1>4

\* The parts of the invariant after a step, from what the step leaves.
LEMMA MbInvAfter ==
  ASSUME build' = build, MbControl', EntriesFollow',
         NEW B, HeldBufs' = B, HeldAndFree(pktbuf_pool', mb_buf', B),
         NEW M, HeldMds' = M, HeldAndFree(md_pool', mb_md', M)
  PROVE  MbInv'
<1>1. HeldAndFree(pktbuf_pool, mb_buf, HeldBufs)'
  BY DEF HeldAndFree, NoneTwice, PoolObjs, Left, Pools
<1>2. HeldAndFree(md_pool, mb_md, HeldMds)'
  BY DEF HeldAndFree, NoneTwice, PoolObjs, Left, Pools
<1> QED
  BY <1>1, <1>2 DEF MbInv
-----------------------------------------------------------------------------
\* Initially the pools have everything.
LEMMA FullPool ==
  ASSUME NEW f
  PROVE  HeldAndFree(InitPool(0), f, {})
<1> DEFINE p == InitPool(0)
<1>1. POOL_NUM \in Nat /\ BATCH_SIZE \in Nat
  BY MbSizes
<1>2. p.ring = [k \in 1 .. POOL_NUM |-> k - 1] /\ p.rear = POOL_NUM /\ p.cache = <<>>
  BY <1>1 DEF InitPool
<1>3. p.ring \in Seq(Objs) /\ Len(p.ring) = POOL_NUM
  BY <1>1, <1>2 DEF Objs
<1>4. p \in Pools
  <2>1. p = [ring |-> p.ring, rear |-> p.rear, cache |-> p.cache]
    BY DEF InitPool
  <2> HIDE DEF p
  <2>2. p.cache \in Seq(Objs) /\ p.rear \in {POOL_NUM}
    BY <1>2
  <2> QED
    BY <1>3, <2>1, <2>2 DEF Pools
<1> HIDE DEF p
<1>5. NoneTwice(p)
  BY <1>1, <1>2 DEF NoneTwice
<1>6. \A b \in Objs : b \in PoolObjs(p)
  <2> TAKE b \in Objs
  <2>1. b + 1 \in DOMAIN p.ring /\ p.ring[b + 1] = b
    BY <1>1, <1>2 DEF Objs
  <2> QED
    BY <2>1 DEF PoolObjs
<1>7. Left(p) = POOL_NUM /\ Len(p.cache) = 0
  BY <1>1, <1>2, <1>3 DEF Left
<1>8. Cardinality({}) = 0
  BY FS_EmptySet
<1>9. Left(p) = POOL_NUM - Cardinality({}) /\ Len(p.cache) + Cardinality({}) <= BATCH_SIZE
  BY <1>1, <1>7, <1>8
<1>10. HeldAndFree(p, f, {})
  BY <1>4, <1>5, <1>6, <1>9 DEF HeldAndFree
<1> QED
  BY <1>10 DEF p

LEMMA MbInitInv ==
  ASSUME KeepsIndices, MbInit
  PROVE  MbInv
<1>1. BATCH_SIZE \in Nat /\ BATCH_SIZE >= 1
  BY MbSizes
<1>2. HeldBufs = {}
  BY DEF MbInit, HeldBufs
<1>3. HeldMds = {}
  <2>1. \A i \in Entries : ~(mb_md[i] >= 0)
    BY DEF MbInit
  <2>2. {i \in HeadsIn(Entries) : mb_md[i] >= 0} = {}
    BY <2>1 DEF HeadsIn
  <2> QED
    BY <2>2 DEF MbInit, HeldMds, Pooled, Reused
<1>4. MbControl
  <2>1. mb_num \in 1 .. BATCH_SIZE /\ mb_start \in 0 .. mb_num /\ mb_i \in Nat
    BY <1>1 DEF MbInit
  <2>2. mb_buf \in [Entries -> Objs \cup {-1}] /\ mb_md \in [Entries -> Objs \cup {-1}]
    BY DEF MbInit
  <2>3. build \in BUILDS /\ ~(build.host_led /\ variant = "aggr_reuse") /\ role \in {"rx", "tx", "nf"}
    BY DEF MbInit, KeepsIndices, variant
  <2> QED
    BY <2>1, <2>2, <2>3 DEF MbInit, MbControl
<1>5. EntriesFollow
  <2>1. SetUp = 0 /\ Before(0) = {}
    BY EntriesRange DEF MbInit, SetUp
  <2>2. \A i \in Entries : mb_md[i] = -1
    BY DEF MbInit
  <2> QED
    BY <2>1, <2>2 DEF EntriesFollow
<1> QED
  BY <1>2, <1>3, <1>4, <1>5, FullPool DEF MbInit, MbInv

\* A batch begins: nothing is taken yet.
LEMMA BeginInv ==
  ASSUME MbInv, NEW num \in 1 .. BATCH_SIZE, Begin(num), role = "tx" => num = BATCH_SIZE
  PROVE  MbInv'
<1>1. /\ mb_pc = "idle" /\ mb_pc' = "take" /\ mb_num' = num /\ mb_i' = 0 /\ build' = build /\ role' = role
      /\ mb_start' = mb_start /\ mb_buf' = mb_buf /\ mb_md' = mb_md
      /\ pktbuf_pool' = pktbuf_pool /\ md_pool' = md_pool
  BY DEF Begin
<1>2. /\ num \in Nat /\ num >= 1 /\ BATCH_SIZE \in Nat
  BY MbSizes
<1>3. mb_start = 0
  BY <1>1 DEF MbInv, MbControl
<1>4. variant' = variant /\ (Pooled' <=> Pooled) /\ (Reused' <=> Reused) /\ \A R : HeadsIn(R)' = HeadsIn(R)
  BY <1>1, SameBuild
<1>5. HeldBufs = {} /\ HeldBufs' = {}
  <2>1. Before(0) = {}
    BY EntriesRange
  <2>2. Before(mb_i)' = {}
    BY <1>1, <2>1 DEF Before
  <2>3. role' \in {"rx", "tx", "nf"}
    BY <1>1 DEF MbInv, MbControl
  <2> QED
    BY <1>1, <2>2, <2>3 DEF HeldBufs
<1>6. HeldMds' = HeldMds
  BY <1>1, <1>4 DEF HeldMds
<1>7. MbControl'
  <2>1. mb_num' \in 1 .. BATCH_SIZE /\ mb_start' \in 0 .. mb_num' /\ mb_i' \in Nat /\ mb_i' < mb_num'
    BY <1>1, <1>2, <1>3
  <2> QED
    BY <1>1, <1>3, <1>4, <2>1 DEF MbInv, MbControl
<1>8. EntriesFollow'
  <2>1. SetUp' = 0
    BY <1>1 DEF SetUp
  <2>2. Before(SetUp)' = {}
    BY <2>1, EntriesRange DEF Before
  <2>3. \A i : HeadOf(i)' = HeadOf(i)
    BY <1>1, SameBuild
  <2> QED
    BY <1>1, <1>4, <2>2, <2>3 DEF EntriesFollow, MbInv
<1>9. HeldAndFree(pktbuf_pool', mb_buf', {}) /\ HeldAndFree(md_pool', mb_md', HeldMds)
  BY <1>1, <1>5 DEF MbInv
<1> QED
  BY <1>1, <1>5, <1>6, <1>7, <1>8, <1>9, MbInvAfter
\* A packet buffer is taken for the entry at mb_i.
LEMMA TakeInv ==
  ASSUME MbInv, Take
  PROVE  MbInv'
<1>1. /\ mb_pc = "take" /\ build' = build /\ role' = role /\ mb_num' = mb_num /\ mb_start' = mb_start
  BY DEF Take
<1>2. /\ mb_num \in Nat /\ mb_num <= BATCH_SIZE /\ mb_i \in Nat /\ mb_i < mb_num /\ BATCH_SIZE \in Nat
      /\ mb_start = 0 /\ mb_num >= 1
  BY <1>1, MbTypes, MbSizes DEF MbInv, MbControl
<1>3. /\ variant' = variant /\ (Pooled' <=> Pooled) /\ (Reused' <=> Reused)
      /\ \A R : HeadsIn(R)' = HeadsIn(R)
      /\ \A i : HeadOf(i)' = HeadOf(i)
  BY <1>1, SameBuild
<1>4. mb_i \in Entries \ Before(mb_i)
  BY <1>2, EntriesRange
<1>5. role # "nf" => /\ CanAlloc(pktbuf_pool) /\ AllocIdx(pktbuf_pool) \in Objs
                     /\ HeldAndFree(AfterAlloc(pktbuf_pool),
                                    [mb_buf EXCEPT ![mb_i] = AllocIdx(pktbuf_pool)],
                                    Before(mb_i) \cup {mb_i})
  <2> SUFFICES ASSUME role # "nf"
               PROVE  /\ CanAlloc(pktbuf_pool) /\ AllocIdx(pktbuf_pool) \in Objs
                      /\ HeldAndFree(AfterAlloc(pktbuf_pool),
                                     [mb_buf EXCEPT ![mb_i] = AllocIdx(pktbuf_pool)],
                                     Before(mb_i) \cup {mb_i})
    OBVIOUS
  <2> DEFINE g == [mb_buf EXCEPT ![mb_i] = AllocIdx(pktbuf_pool)]
  <2>1. HeldAndFree(pktbuf_pool, mb_buf, Before(mb_i)) /\ Before(mb_i) \in SUBSET Entries
    BY <1>1 DEF MbInv, HeldBufs, Before
  <2>2. DOMAIN mb_buf = Entries
    BY DEF MbInv, MbControl
  <2>3. g[mb_i] = AllocIdx(pktbuf_pool) /\ \A i \in Before(mb_i) : g[i] = mb_buf[i]
    BY <1>4, <2>2 DEF Before
  <2> HIDE DEF g
  <2>4. /\ CanAlloc(pktbuf_pool) /\ AllocIdx(pktbuf_pool) \in Objs
        /\ HeldAndFree(AfterAlloc(pktbuf_pool), g, Before(mb_i) \cup {mb_i})
    BY <1>4, <2>1, <2>3, AllocShares
  <2> QED
    BY <2>4 DEF g
<1>6. /\ role = "nf" => UNCHANGED <<mb_buf, pktbuf_pool>>
      /\ role # "nf" => /\ mb_buf' = [mb_buf EXCEPT ![mb_i] = AllocIdx(pktbuf_pool)]
                        /\ pktbuf_pool' = AfterAlloc(pktbuf_pool)
      /\ \E md \in AfterReset(mb_md[mb_i]) : mb_md' = [mb_md EXCEPT ![mb_i] = md]
      /\ GoesOn(1, "setup") /\ md_pool' = md_pool
  BY <1>5 DEF Take
<1>7. mb_md' = mb_md
  <2>1. AfterReset(mb_md[mb_i]) = {mb_md[mb_i]}
    BY DEF MbInv, MbControl, AfterReset
  <2>2. mb_md \in [Entries -> Objs \cup {-1}]
    BY DEF MbInv, MbControl
  <2>3. mb_md' = [mb_md EXCEPT ![mb_i] = mb_md[mb_i]]
    BY <1>6, <2>1
  <2> QED
    BY <2>2, <2>3
<1>8. /\ \/ mb_i + 1 < mb_num /\ mb_i' = mb_i + 1 /\ mb_pc' = "take"
         \/ mb_i + 1 = mb_num /\ mb_i' = 0 /\ mb_pc' = "setup"
  BY <1>1, <1>2, <1>6 DEF GoesOn
<1>9. HeldBufs' = IF role = "nf" THEN {} ELSE Before(mb_i) \cup {mb_i}
  <2>1. \A n : n = mb_i + 1 => Before(n) = Before(mb_i) \cup {mb_i}
    <3> TAKE n
    <3> HAVE n = mb_i + 1
    <3>1. ASSUME NEW i
          PROVE  i \in Before(n) <=> i \in Before(mb_i) \cup {mb_i}
      <4>1. i \in Nat => (i < mb_i + 1 <=> (i < mb_i \/ i = mb_i))
        BY <1>2
      <4> QED
        BY <1>2, <4>1, EntriesRange
    <3> QED
      BY <3>1
  <2>2. Before(mb_i)' = Before(mb_i') /\ Before(mb_num)' = Before(mb_num)
    BY <1>1 DEF Before
  <2>3. CASE mb_pc' = "take"
    BY <1>1, <1>8, <2>1, <2>2, <2>3 DEF HeldBufs
  <2>4. CASE mb_pc' = "setup"
    BY <1>1, <1>8, <2>1, <2>2, <2>4 DEF HeldBufs
  <2> QED
    BY <1>8, <2>3, <2>4
<1>10. HeldAndFree(pktbuf_pool', mb_buf', HeldBufs')
  <2>1. CASE role = "nf"
    BY <1>1, <1>6, <1>9, <2>1 DEF MbInv, HeldBufs
  <2>2. CASE role # "nf"
    BY <1>5, <1>6, <1>9, <2>2
  <2> QED
    BY <2>1, <2>2
<1>11. HeldMds' = HeldMds
  <2>1. ~Reused => HeldMds = {}
    BY <1>1 DEF HeldMds
  <2>2. Before(mb_i') = {} \/ mb_pc' # "setup"
    BY <1>8, EntriesRange
  <2>3. HeadsIn({}) = {}
    BY DEF HeadsIn
  <2>4. HeadsIn(Before(mb_i))' = HeadsIn(Before(mb_i'))
    BY <1>3 DEF HeadsIn, IsHead, Before
  <2>5. CASE Reused
    <3>1. HeldMds = {i \in HeadsIn(Entries) : mb_md[i] >= 0}
      BY <2>5, PooledOrReused DEF HeldMds
    <3>2. HeldMds' = {i \in HeadsIn(Entries)' : mb_md'[i] >= 0}
      BY <1>3, <2>5, PooledOrReused DEF HeldMds
    <3>3. HeadsIn(Entries)' = HeadsIn(Entries)
      BY <1>3 DEF HeadsIn, IsHead
    <3> QED
      BY <1>7, <3>1, <3>2, <3>3
  <2>6. CASE ~Reused
    <3>1. mb_pc' = "take" \/ (mb_pc' = "setup" /\ HeadsIn(Before(mb_i))' = {})
      BY <1>8, <2>2, <2>3, <2>4
    <3>2. HeldMds' = {}
      BY <1>3, <2>6, <3>1 DEF HeldMds
    <3> QED
      BY <2>1, <2>6, <3>2
  <2> QED
    BY <2>5, <2>6
<1>12. HeldAndFree(md_pool', mb_md', HeldMds)
  BY <1>6, <1>7 DEF MbInv
<1>13. MbControl'
  <2>1. mb_i' \in Nat /\ mb_i' < mb_num /\ (mb_pc' = "setup" => mb_i' = 0) /\ mb_pc' \in {"take", "setup"}
    BY <1>2, <1>8
  <2>2. IsHead(0)' = IsHead(0) /\ IsHead(0)
    <3>1. Group \in Nat \ {0} /\ Group' = Group
      BY <1>1, MbSizes, SameBuild
    <3> QED
      BY <3>1 DEF IsHead
  <2>3. mb_pc' = "setup" => IsHead(mb_i)'
    BY <2>1, <2>2 DEF IsHead
  <2>4. mb_buf' \in [Entries -> Objs \cup {-1}]
    BY <1>5, <1>6 DEF MbInv, MbControl
  <2> QED
    BY <1>1, <1>2, <1>3, <1>7, <2>1, <2>3, <2>4 DEF MbInv, MbControl
<1>14. EntriesFollow'
  <2>1. SetUp' = 0
    BY <1>8 DEF SetUp
  <2>2. Before(SetUp)' = {}
    BY <2>1, EntriesRange DEF Before
  <2> QED
    BY <1>3, <1>7, <2>2 DEF EntriesFollow, MbInv
<1> QED
  BY <1>1, <1>10, <1>11, <1>12, <1>13, <1>14, MbInvAfter
\* What of the packet buffers no step of the metadata loops touches.
LEMMA SetupKeepsBufs ==
  ASSUME MbInv, Setup, NeedsMd => CanAlloc(md_pool)
  PROVE  HeldBufs' = HeldBufs /\ HeldAndFree(pktbuf_pool', mb_buf', HeldBufs)
<1>1. /\ mb_pc = "setup" /\ role' = role /\ mb_num' = mb_num /\ mb_pc' \in {"setup", "work"}
      /\ mb_buf' = mb_buf /\ pktbuf_pool' = pktbuf_pool
  BY DEF Setup, GoesOn
<1>2. Before(mb_num)' = Before(mb_num)
  BY <1>1 DEF Before
<1> QED
  BY <1>1, <1>2 DEF HeldBufs, MbInv

\* The group at mb_i has its metadata buffer, the pool's next one or the one it kept.
LEMMA SetupInv ==
  ASSUME MbInv, Setup
  PROVE  MbInv'
<1> PICK h : h = mb_i
  OBVIOUS
<1> DEFINE InGroup(i) == h <= i /\ i < h + Group /\ i < mb_num
           md == IF NeedsMd THEN AllocIdx(md_pool) ELSE mb_md[h]
           N  == [i \in Entries |-> IF InGroup(i) THEN md ELSE mb_md[i]]
<1>1. /\ mb_pc = "setup" /\ build' = build /\ role' = role /\ mb_num' = mb_num /\ mb_start' = mb_start
  BY DEF Setup
<1>2. /\ mb_num \in Nat /\ mb_num <= BATCH_SIZE /\ h \in Nat /\ h < mb_num /\ BATCH_SIZE \in Nat
      /\ mb_start = 0 /\ mb_num >= 1 /\ IsHead(h) /\ Group \in Nat /\ Group >= 1
  BY <1>1, MbTypes, MbSizes DEF MbInv, MbControl
<1>3. /\ variant' = variant /\ (Pooled' <=> Pooled) /\ (Reused' <=> Reused) /\ Group' = Group
      /\ \A R : HeadsIn(R)' = HeadsIn(R)
      /\ \A i : HeadOf(i)' = HeadOf(i)
  BY <1>1, SameBuild
<1>4. h \in Entries /\ IsHead(h) /\ InGroup(h)
  BY <1>2, EntriesRange
<1>5. /\ Pooled => HeldMds = HeadsIn(Before(h))
      /\ Reused => HeldMds = {i \in HeadsIn(Entries) : mb_md[i] >= 0}
      /\ ~Pooled /\ ~Reused => HeldMds = {}
  BY <1>1, PooledOrReused DEF HeldMds
<1>6. /\ mb_md \in [Entries -> Objs \cup {-1}] /\ HeldMds \in SUBSET Entries
      /\ HeldAndFree(md_pool, mb_md, HeldMds)
  BY MbTypes DEF MbInv, MbControl
<1>7. \A i \in Entries : IsHead(i) /\ i # h => ~InGroup(i)
  <2> SUFFICES ASSUME NEW i \in Entries, IsHead(i), i # h, h <= i, i < h + Group
               PROVE  FALSE
    OBVIOUS
  <2>1. i \in Nat /\ h < i
    BY <1>2, EntriesRange
  <2>2. h + Group <= i
    BY <1>2, <2>1, HeadsApart
  <2> QED
    BY <1>2, <2>1, <2>2
<1>8. \A i \in HeldMds : i \in Entries /\ IsHead(i) /\ (i # h => N[i] = mb_md[i])
  BY <1>5, <1>7 DEF HeadsIn, Before
<1>9. N[h] = md
  BY <1>4
<1> HIDE DEF N
<1>10. NeedsMd => /\ h \notin HeldMds /\ CanAlloc(md_pool) /\ md \in Objs
                  /\ HeldAndFree(AfterAlloc(md_pool), N, HeldMds \cup {h})
  <2> SUFFICES ASSUME NeedsMd
               PROVE  /\ h \notin HeldMds /\ CanAlloc(md_pool) /\ md \in Objs
                      /\ HeldAndFree(AfterAlloc(md_pool), N, HeldMds \cup {h})
    OBVIOUS
  <2>1. h \notin HeldMds
    <3>1. CASE Pooled
      BY <1>2, <1>5, <3>1, EntriesRange DEF HeadsIn
    <3>2. CASE Reused /\ mb_md[h] < 0
      <4>1. mb_md[h] \in Int
        BY <1>4, <1>6 DEF Objs
      <4> QED
        BY <1>5, <3>2, <4>1
    <3> QED
      BY <3>1, <3>2 DEF NeedsMd
  <2>2. N[h] = AllocIdx(md_pool) /\ \A i \in HeldMds : N[i] = mb_md[i]
    BY <1>8, <1>9, <2>1
  <2> QED
    BY <1>4, <1>6, <2>1, <2>2, AllocShares
<1>11. /\ mb_md' = N /\ md_pool' = (IF NeedsMd THEN AfterAlloc(md_pool) ELSE md_pool)
       /\ GoesOn(Group, "work")
  <2>1. ~(NeedsMd /\ ~CanAlloc(md_pool))
    BY <1>10
  <2> QED
    BY <2>1 DEF Setup, N
<1>12. \/ h + Group < mb_num /\ mb_i' = h + Group /\ mb_pc' = "setup"
       \/ mb_num <= h + Group /\ mb_i' = 0 /\ mb_pc' = "work"
  BY <1>1, <1>2, <1>11 DEF GoesOn
<1>13. md \in Objs \cup {-1} /\ (Pooled \/ Reused => md \in Objs)
  <2>1. CASE NeedsMd
    BY <1>10, <2>1
  <2>2. CASE ~NeedsMd
    <3>1. md = mb_md[h] /\ md \in Objs \cup {-1}
      BY <1>4, <1>6, <2>2
    <3>2. ~Pooled /\ (Reused => ~(mb_md[h] < 0))
      BY <2>2 DEF NeedsMd
    <3> QED
      BY <3>1, <3>2
  <2> QED
    BY <2>1, <2>2
<1>14. HeldMds' = IF Pooled \/ Reused THEN HeldMds \cup {h} ELSE {}
  <2>1. CASE Pooled
    <3> PICK n : n = IF mb_pc' = "setup" THEN h + Group ELSE mb_num
      OBVIOUS
    <3>1. n \in Nat /\ h < n /\ n <= h + Group
      BY <1>2, <1>12
    <3>2. \A i : i \in HeadsIn(Before(n)) <=> i \in HeadsIn(Before(h)) \cup {h}
      <4> TAKE i
      <4>1. i \in Entries /\ IsHead(i) /\ i < n => i = h \/ i < h
        <5> SUFFICES ASSUME i \in Entries, IsHead(i), i < n, i # h, ~(i < h)
                     PROVE  FALSE
          OBVIOUS
        <5>1. i \in Nat /\ h < i
          BY <1>2, EntriesRange
        <5>2. h + Group <= i
          BY <1>2, <5>1, HeadsApart
        <5> QED
          BY <1>2, <3>1, <5>1, <5>2
      <4>2. i \in Entries /\ i < h => i < n
        BY <1>2, <3>1, EntriesRange
      <4> QED
        BY <1>2, <1>4, <3>1, <4>1, <4>2 DEF HeadsIn, Before
    <3>3. HeldMds' = HeadsIn(Before(n))
      <4>1. CASE mb_pc' = "setup"
        <5>1. Before(mb_i)' = Before(n)
          BY <1>12, <4>1 DEF Before
        <5>2. HeldMds' = HeadsIn(Before(mb_i))'
          BY <1>3, <2>1, <4>1, PooledOrReused DEF HeldMds
        <5> QED
          BY <1>3, <5>1, <5>2 DEF HeadsIn, IsHead
      <4>2. CASE mb_pc' = "work"
        <5>1. Before(mb_num)' = Before(n)
          BY <1>1, <4>2 DEF Before
        <5>2. HeldMds' = HeadsIn(Before(mb_num))'
          BY <1>3, <2>1, <4>2, PooledOrReused DEF HeldMds
        <5> QED
          BY <1>3, <5>1, <5>2 DEF HeadsIn, IsHead
      <4> QED
        BY <1>12, <4>1, <4>2
    <3> QED
      BY <1>5, <2>1, <3>2, <3>3
  <2>2. CASE Reused
    <3>1. HeldMds' = {i \in HeadsIn(Entries)' : mb_md'[i] >= 0}
      BY <1>3, <2>2, PooledOrReused DEF HeldMds
    <3>2. HeadsIn(Entries)' = HeadsIn(Entries)
      BY <1>3 DEF HeadsIn, IsHead
    <3>3. N[h] >= 0
      BY <1>2, <1>9, <1>13, <2>2, MbSizes DEF Objs
    <3>4. \A i \in HeadsIn(Entries) : i # h => N[i] = mb_md[i]
      BY <1>7 DEF HeadsIn, N
    <3> QED
      BY <1>4, <1>5, <1>11, <2>2, <3>1, <3>2, <3>3, <3>4 DEF HeadsIn
  <2>3. CASE ~Pooled /\ ~Reused
    BY <1>3, <1>12, <2>3 DEF HeldMds
  <2> QED
    BY <2>1, <2>2, <2>3
<1>15. HeldAndFree(md_pool', mb_md', HeldMds')
  <2>1. CASE NeedsMd
    BY <1>10, <1>11, <1>14, <2>1 DEF NeedsMd
  <2>2. CASE ~NeedsMd /\ Reused
    <3>1. mb_md[h] \in Objs
      BY <1>13, <2>2
    <3>2. mb_md[h] >= 0
      BY <3>1, MbSizes DEF Objs
    <3>3. h \in HeldMds
      BY <1>4, <1>5, <2>2, <3>2 DEF HeadsIn
    <3>4. HeldMds' = HeldMds
      BY <1>14, <2>2, <3>3
    <3>5. \A i \in HeldMds : N[i] = mb_md[i]
      BY <1>8, <1>9, <2>2
    <3> QED
      BY <1>6, <1>11, <2>2, <3>4, <3>5, SharesSame
  <2>3. CASE ~NeedsMd /\ ~Reused
    <3>1. HeldMds = {} /\ HeldMds' = {}
      BY <1>5, <1>14, <2>3 DEF NeedsMd
    <3>2. \A i \in {} : N[i] = mb_md[i]
      OBVIOUS
    <3>3. HeldAndFree(md_pool, N, {})
      BY <1>6, <3>1, <3>2, SharesSame
    <3> QED
      BY <1>11, <2>3, <3>1, <3>3
  <2> QED
    BY <2>1, <2>2, <2>3
<1>16. MbControl'
  <2>1. mb_i' \in Nat /\ mb_pc' \in {"setup", "work"} /\ (mb_pc' = "setup" => mb_i' < mb_num)
    BY <1>2, <1>12
  <2>2. mb_pc' = "setup" => IsHead(mb_i)'
    <3> SUFFICES ASSUME mb_pc' = "setup"
                 PROVE  IsHead(mb_i)'
      OBVIOUS
    <3>1. mb_i' = h + Group
      BY <1>12
    <3>2. IsHead(h + Group)
      BY <1>2, HeadNext
    <3> QED
      BY <1>3, <3>1, <3>2 DEF IsHead
  <2>3. N \in [Entries -> Objs \cup {-1}]
    BY <1>6, <1>13 DEF N
  <2>4. mb_buf' = mb_buf
    BY <1>10 DEF Setup
  <2> QED
    BY <1>1, <1>2, <1>3, <1>11, <2>1, <2>2, <2>3, <2>4 DEF MbInv, MbControl
<1>17. EntriesFollow'
  <2>1. ASSUME Pooled \/ Reused, NEW i \in Entries, i < SetUp'
        PROVE  HeadOf(i) \in HeldMds' /\ N[i] = N[HeadOf(i)]
    <3>1. i \in Nat /\ i < mb_num /\ i < h + Group
      BY <1>1, <1>2, <1>12, <2>1, EntriesRange DEF SetUp
    <3>2. CASE i < h
      <4>1. HeadOf(i) \in HeldMds /\ mb_md[i] = mb_md[HeadOf(i)]
        BY <1>1, <2>1, <3>2 DEF MbInv, EntriesFollow, SetUp, Before
      <4>2. HeadOf(i) \in Nat /\ HeadOf(i) < h /\ HeadOf(i) \in Entries
        BY <1>2, <1>6, <3>1, <3>2, <4>1, Heads
      <4>3. N[i] = mb_md[i] /\ N[HeadOf(i)] = mb_md[HeadOf(i)]
        BY <1>2, <3>1, <3>2, <4>2 DEF N
      <4> QED
        BY <1>14, <2>1, <4>1, <4>3
    <3>3. CASE ~(i < h)
      <4>1. h <= i
        BY <1>2, <3>1, <3>3
      <4>2. HeadOf(i) = h
        BY <1>2, <3>1, <4>1, HeadIsLast
      <4>3. N[i] = md
        BY <3>1, <4>1 DEF N
      <4> QED
        BY <1>9, <1>14, <2>1, <4>2, <4>3
    <3> QED
      BY <3>2, <3>3
  <2>2. ASSUME Reused, NEW i \in Entries
        PROVE  N[i] = -1 \/ N[i] = N[HeadOf(i)]
    <3>1. mb_md[i] = -1 \/ mb_md[i] = mb_md[HeadOf(i)]
      BY <2>2 DEF MbInv, EntriesFollow
    <3>2. i \in Nat /\ HeadOf(i) \in Nat /\ HeadOf(i) <= i /\ HeadOf(i) \in Entries
          /\ i < HeadOf(i) + Group /\ IsHead(HeadOf(i))
      BY <1>2, EntriesRange, Heads
    <3>3. CASE HeadOf(i) = h
      <4>1. InGroup(i) => N[i] = md
        BY DEF N
      <4>2. ~InGroup(i) => N[i] = mb_md[i]
        BY DEF N
      <4>3. NeedsMd => mb_md[h] = -1
        <5>1. mb_md[h] \in Objs \cup {-1}
          BY <1>4, <1>6
        <5> QED
          BY <2>2, <5>1, PooledOrReused, MbSizes DEF NeedsMd, Objs
      <4> QED
        BY <1>9, <3>1, <3>3, <4>1, <4>2, <4>3
    <3>4. CASE HeadOf(i) # h
      <4>1. ~InGroup(i)
        BY <1>2, <3>2, <3>4, HeadIsLast
      <4>2. N[i] = mb_md[i] /\ N[HeadOf(i)] = mb_md[HeadOf(i)]
        BY <1>7, <3>2, <3>4, <4>1 DEF N
      <4> QED
        BY <3>1, <4>2
    <3> QED
      BY <3>3, <3>4
  <2>3. EntriesFollow' <=>
          /\ Pooled \/ Reused =>
               \A i \in Before(SetUp)' : HeadOf(i) \in HeldMds' /\ N[i] = N[HeadOf(i)]
          /\ Reused => \A i \in Entries : N[i] = -1 \/ N[i] = N[HeadOf(i)]
    BY <1>3, <1>11 DEF EntriesFollow
  <2>4. \A i \in Before(SetUp)' : i \in Entries /\ i < SetUp'
    BY DEF Before
  <2> QED
    BY <2>1, <2>2, <2>3, <2>4
<1>18. HeldBufs' = HeldBufs /\ HeldAndFree(pktbuf_pool', mb_buf', HeldBufs)
  BY <1>10, SetupKeepsBufs
<1> QED
  BY <1>1, <1>15, <1>16, <1>17, <1>18, MbInvAfter
-----------------------------------------------------------------------------
\* The packets from start on are to go back.
LEMMA GiveBackInv ==
  ASSUME MbInv, NEW start \in 0 .. mb_num, mb_pc \in {"work", "received"}, GiveBack(start)
  PROVE  MbInv'
<1>1. /\ mb_start' = start /\ mb_i' = start /\ mb_pc' = "give" /\ build' = build /\ role' = role
      /\ mb_num' = mb_num /\ mb_buf' = mb_buf /\ mb_md' = mb_md
      /\ pktbuf_pool' = pktbuf_pool /\ md_pool' = md_pool
  BY DEF GiveBack
<1>2. /\ mb_num \in Nat /\ mb_num <= BATCH_SIZE /\ mb_num >= 1 /\ BATCH_SIZE \in Nat
      /\ start \in Nat /\ start <= mb_num
  BY MbTypes, MbSizes
<1>3. /\ variant' = variant /\ (Pooled' <=> Pooled) /\ (Reused' <=> Reused)
      /\ \A R : HeadsIn(R)' = HeadsIn(R)
      /\ \A i : HeadOf(i)' = HeadOf(i)
  BY <1>1, SameBuild
<1>4. HeldBufs' = HeldBufs
  <2>1. ASSUME NEW i
        PROVE  i \in Before(mb_num) <=> i \in Before(start) \cup Between(start, mb_num)
    <3>1. i \in Nat => (i < mb_num <=> (i < start \/ (start <= i /\ i < mb_num)))
      BY <1>2
    <3> QED
      BY <3>1, EntriesRange
  <2>2. Before(mb_num) = Before(start) \cup Between(start, mb_num)
    BY <2>1
  <2>3. Before(mb_start)' = Before(start) /\ Between(mb_i, mb_num)' = Between(start, mb_num)
    BY <1>1 DEF Before, Between
  <2> QED
    BY <1>1, <2>2, <2>3 DEF HeldBufs, MbInv, MbControl
<1>5. HeldMds' = HeldMds
  <2>1. Before(mb_num)' = Before(mb_num)
    BY <1>1 DEF Before
  <2>2. HeadsIn(Before(mb_num))' = HeadsIn(Before(mb_num)) /\ HeadsIn(Entries)' = HeadsIn(Entries)
    BY <1>3, <2>1 DEF HeadsIn, IsHead
  <2>3. CASE Reused
    BY <1>1, <1>3, <2>2, <2>3, PooledOrReused DEF HeldMds
  <2>4. CASE Pooled
    BY <1>1, <1>3, <2>2, <2>4, PooledOrReused DEF HeldMds
  <2>5. CASE ~Pooled /\ ~Reused
    BY <1>1, <1>3, <2>5 DEF HeldMds
  <2> QED
    BY <2>3, <2>4, <2>5
<1>6. MbControl'
  BY <1>1, <1>2, <1>3 DEF MbInv, MbControl
<1>7. EntriesFollow'
  <2>1. SetUp = mb_num /\ SetUp' = start
    BY <1>1 DEF SetUp
  <2>2. \A i \in Before(SetUp)' : i \in Before(SetUp)
    <3>1. \A i \in Nat : i < start => i < mb_num
      BY <1>2
    <3> QED
      BY <2>1, <3>1, EntriesRange DEF Before
  <2> QED
    BY <1>1, <1>3, <1>5, <2>2 DEF EntriesFollow, MbInv
<1>8. HeldAndFree(pktbuf_pool', mb_buf', HeldBufs) /\ HeldAndFree(md_pool', mb_md', HeldMds)
  BY <1>1 DEF MbInv
<1> QED
  BY <1>1, <1>4, <1>5, <1>6, <1>7, <1>8, MbInvAfter

\* The packet buffer of the entry at mb_i goes back, or they all have.
LEMMA GiveInv ==
  ASSUME MbInv, Give
  PROVE  MbInv'
<1>1. /\ mb_pc = "give" /\ build' = build /\ role' = role /\ mb_num' = mb_num /\ mb_start' = mb_start
      /\ mb_buf' = mb_buf /\ mb_md' = mb_md /\ md_pool' = md_pool
  BY DEF Give
<1>2. /\ mb_num \in Nat /\ mb_num <= BATCH_SIZE /\ mb_num >= 1 /\ BATCH_SIZE \in Nat
      /\ mb_start \in Nat /\ mb_start <= mb_num /\ mb_i \in Nat /\ mb_start <= mb_i
  BY <1>1, MbTypes, MbSizes DEF MbInv, MbControl
<1>3. /\ variant' = variant /\ (Pooled' <=> Pooled) /\ (Reused' <=> Reused)
      /\ \A R : HeadsIn(R)' = HeadsIn(R)
      /\ \A i : HeadOf(i)' = HeadOf(i)
  BY <1>1, SameBuild
<1>4. role # "nf" => HeldBufs = Before(mb_start) \cup Between(mb_i, mb_num)
  BY <1>1 DEF HeldBufs, MbInv, MbControl
<1>5. Pooled => HeldMds = HeadsIn(Before(mb_num))
  BY <1>1, PooledOrReused DEF HeldMds
<1>6. SetUp = mb_start /\ (mb_pc' \in {"give", "unset"} => SetUp' = mb_start)
  BY <1>1 DEF SetUp
<1>7. HeldMds' = HeldMds => EntriesFollow' \/ mb_pc' \notin {"give", "unset"}
  <2> SUFFICES ASSUME HeldMds' = HeldMds, mb_pc' \in {"give", "unset"}
               PROVE  EntriesFollow'
    OBVIOUS
  <2>1. Before(SetUp)' = Before(SetUp)
    BY <1>6 DEF Before
  <2> QED
    BY <1>1, <1>3, <2>1 DEF EntriesFollow, MbInv
<1>8. CASE BufsGiven
  <2>1. mb_pc' = "unset" /\ mb_i' = FirstHead(mb_start) /\ pktbuf_pool' = pktbuf_pool
    BY <1>8 DEF Give
  <2>2. FirstHead(mb_start) \in Nat /\ IsHead(FirstHead(mb_start)) /\ mb_start <= FirstHead(mb_start)
    BY <1>2, FirstHeads
  <2>3. HeldBufs' = HeldBufs
    <3>1. role # "nf" => Between(mb_i, mb_num) = {}
      <4>1. role # "nf" => \A i \in Nat : ~(mb_i <= i /\ i < mb_num)
        BY <1>2, <1>8 DEF BufsGiven
      <4> QED
        BY <4>1, EntriesRange
    <3>2. Before(mb_start)' = Before(mb_start)
      BY <1>1 DEF Before
    <3> QED
      BY <1>1, <1>4, <2>1, <3>1, <3>2 DEF HeldBufs, MbInv, MbControl
  <2>4. HeldMds' = HeldMds
    <3>1. CASE Pooled
      <4>1. HeldMds' = HeadsIn(Before(mb_start) \cup Between(mb_i', mb_num))
        <5>1. (Before(mb_start) \cup Between(mb_i, mb_num))' = Before(mb_start) \cup Between(mb_i', mb_num)
          BY <1>1 DEF Before, Between
        <5>2. HeldMds' = HeadsIn(Before(mb_start) \cup Between(mb_i, mb_num))'
          BY <1>3, <2>1, <3>1, PooledOrReused DEF HeldMds
        <5> QED
          BY <1>3, <5>1, <5>2 DEF HeadsIn, IsHead
      <4>2. ASSUME NEW i \in Nat, IsHead(i)
            PROVE  i < mb_num <=> i < mb_start \/ (mb_i' <= i /\ i < mb_num)
        <5>1. mb_start <= i <=> mb_i' <= i
          BY <1>2, <2>1, <2>2, <4>2, FirstHeads
        <5> QED
          BY <1>2, <5>1
      <4>3. ASSUME NEW i
            PROVE  i \in HeadsIn(Before(mb_num)) <=> i \in HeadsIn(Before(mb_start) \cup Between(mb_i', mb_num))
        BY <4>2, EntriesRange DEF HeadsIn
      <4> QED
        BY <1>5, <3>1, <4>1, <4>3
    <3>2. CASE Reused
      <4>1. HeadsIn(Entries)' = HeadsIn(Entries)
        BY <1>3 DEF HeadsIn, IsHead
      <4> QED
        BY <1>1, <1>3, <3>2, <4>1, PooledOrReused DEF HeldMds
    <3>3. CASE ~Pooled /\ ~Reused
      BY <1>1, <1>3, <2>1, <3>3 DEF HeldMds
    <3> QED
      BY <3>1, <3>2, <3>3
  <2>5. MbControl'
    <3>1. IsHead(mb_i)'
      BY <1>1, <2>1, <2>2, SameBuild DEF IsHead
    <3> QED
      BY <1>1, <1>2, <1>3, <2>1, <2>2, <3>1 DEF MbInv, MbControl
  <2>6. HeldAndFree(pktbuf_pool', mb_buf', HeldBufs) /\ HeldAndFree(md_pool', mb_md', HeldMds)
    BY <1>1, <2>1 DEF MbInv
  <2> QED
    BY <1>1, <1>7, <2>1, <2>3, <2>4, <2>5, <2>6, MbInvAfter
<1>9. CASE ~BufsGiven
  <2>1. role # "nf" /\ mb_i < mb_num
    BY <1>2, <1>9 DEF BufsGiven
  <2>2. mb_i \in HeldBufs
    BY <1>2, <1>4, <2>1, EntriesRange
  <2>3. CanFree(pktbuf_pool) /\ HeldAndFree(AfterFree(pktbuf_pool, mb_buf[mb_i]), mb_buf, HeldBufs \ {mb_i})
    BY <2>2, MbTypes, FreeShares DEF MbInv
  <2>4. pktbuf_pool' = AfterFree(pktbuf_pool, mb_buf[mb_i]) /\ mb_i' = mb_i + 1 /\ mb_pc' = "give"
    BY <1>1, <1>9, <2>3 DEF Give
  <2>5. HeldBufs' = HeldBufs \ {mb_i}
    <3>1. HeldBufs' = Before(mb_start) \cup Between(mb_i', mb_num)
      <4>1. Before(mb_start)' = Before(mb_start) /\ Between(mb_i, mb_num)' = Between(mb_i', mb_num)
        BY <1>1 DEF Before, Between
      <4> QED
        BY <1>1, <2>1, <2>4, <4>1 DEF HeldBufs, MbInv, MbControl
    <3>2. \A i \in Nat : (mb_i' <= i <=> mb_i <= i /\ i # mb_i) /\ (i < mb_start => i # mb_i)
      BY <1>2, <2>4
    <3>3. ASSUME NEW i
          PROVE  i \in Before(mb_start) \cup Between(mb_i', mb_num)
                   <=> i \in Before(mb_start) \cup Between(mb_i, mb_num) /\ i # mb_i
      BY <3>2, EntriesRange
    <3> QED
      BY <1>4, <2>1, <3>1, <3>3
  <2>6. HeldMds' = HeldMds
    <3>1. Before(mb_num)' = Before(mb_num)
      BY <1>1 DEF Before
    <3>2. HeadsIn(Before(mb_num))' = HeadsIn(Before(mb_num)) /\ HeadsIn(Entries)' = HeadsIn(Entries)
      BY <1>3, <3>1 DEF HeadsIn, IsHead
    <3>3. CASE Reused
      BY <1>1, <1>3, <3>2, <3>3, PooledOrReused DEF HeldMds
    <3>4. CASE Pooled
      BY <1>3, <1>5, <2>4, <3>2, <3>4, PooledOrReused DEF HeldMds
    <3>5. CASE ~Pooled /\ ~Reused
      BY <1>1, <1>3, <2>4, <3>5 DEF HeldMds
    <3> QED
      BY <3>3, <3>4, <3>5
  <2>7. MbControl'
    <3>1. mb_i' \in Nat /\ mb_start <= mb_i'
      BY <1>2, <2>4
    <3> QED
      BY <1>1, <1>2, <1>3, <2>4, <3>1 DEF MbInv, MbControl
  <2>8. HeldAndFree(pktbuf_pool', mb_buf', HeldBufs \ {mb_i}) /\ HeldAndFree(md_pool', mb_md', HeldMds)
    BY <1>1, <2>3, <2>4 DEF MbInv
  <2> QED
    BY <1>1, <1>7, <2>4, <2>5, <2>6, <2>7, <2>8, MbInvAfter
<1> QED
  BY <1>8, <1>9
\* The metadata buffer of the group at mb_i goes back.
LEMMA UnsetInv ==
  ASSUME MbInv, Unset
  PROVE  MbInv'
<1>1. /\ mb_pc = "unset" /\ build' = build /\ role' = role /\ mb_num' = mb_num /\ mb_start' = mb_start
      /\ mb_buf' = mb_buf /\ mb_md' = mb_md /\ pktbuf_pool' = pktbuf_pool /\ Pooled /\ mb_i < mb_num
  BY DEF Unset
<1>2. /\ mb_num \in Nat /\ mb_num <= BATCH_SIZE /\ mb_num >= 1 /\ BATCH_SIZE \in Nat
      /\ mb_start \in Nat /\ mb_start <= mb_num /\ mb_i \in Nat /\ mb_start <= mb_i
      /\ IsHead(mb_i) /\ Group \in Nat /\ Group >= 1
  BY <1>1, MbTypes, MbSizes DEF MbInv, MbControl
<1>3. /\ variant' = variant /\ (Pooled' <=> Pooled) /\ (Reused' <=> Reused) /\ ~Reused
      /\ \A R : HeadsIn(R)' = HeadsIn(R)
      /\ \A i : HeadOf(i)' = HeadOf(i)
  BY <1>1, SameBuild, PooledOrReused
<1>4. HeldMds = HeadsIn(Before(mb_start) \cup Between(mb_i, mb_num))
  BY <1>1, <1>3 DEF HeldMds
<1>5. mb_i \in HeldMds
  BY <1>1, <1>2, <1>4, EntriesRange DEF HeadsIn
<1>6. CanFree(md_pool) /\ HeldAndFree(AfterFree(md_pool, mb_md[mb_i]), mb_md, HeldMds \ {mb_i})
  BY <1>5, MbTypes, FreeShares DEF MbInv
<1>7. md_pool' = AfterFree(md_pool, mb_md[mb_i]) /\ mb_i' = mb_i + Group /\ mb_pc' = "unset"
  BY <1>1, <1>6 DEF Unset
<1>8. HeldMds' = HeldMds \ {mb_i}
  <2>1. HeldMds' = HeadsIn(Before(mb_start) \cup Between(mb_i', mb_num))
    <3>1. (Before(mb_start) \cup Between(mb_i, mb_num))' = Before(mb_start) \cup Between(mb_i', mb_num)
      BY <1>1 DEF Before, Between
    <3>2. HeldMds' = HeadsIn(Before(mb_start) \cup Between(mb_i, mb_num))'
      BY <1>1, <1>3, <1>7 DEF HeldMds
    <3> QED
      BY <1>3, <3>1, <3>2 DEF HeadsIn, IsHead
  <2>2. ASSUME NEW i \in Nat, IsHead(i)
        PROVE  (mb_i' <= i <=> mb_i <= i /\ i # mb_i) /\ (i < mb_start => i # mb_i)
    <3>1. mb_i < i => mb_i + Group <= i
      BY <1>2, <2>2, HeadsApart
    <3> QED
      BY <1>2, <1>7, <3>1
  <2>3. ASSUME NEW i
        PROVE  i \in HeadsIn(Before(mb_start) \cup Between(mb_i', mb_num)) <=>
                 i \in HeadsIn(Before(mb_start) \cup Between(mb_i, mb_num)) /\ i # mb_i
    BY <2>2, EntriesRange DEF HeadsIn
  <2> QED
    BY <1>4, <2>1, <2>3
<1>9. HeldBufs' = HeldBufs
  <2>1. Before(mb_start)' = Before(mb_start)
    BY <1>1 DEF Before
  <2> QED
    BY <1>1, <1>7, <2>1 DEF HeldBufs, MbInv, MbControl
<1>10. MbControl'
  <2>1. mb_i' \in Nat /\ mb_start <= mb_i' /\ IsHead(mb_i + Group)
    BY <1>2, <1>7, HeadNext
  <2>2. IsHead(mb_i)'
    BY <1>1, <1>7, <2>1, SameBuild DEF IsHead
  <2> QED
    BY <1>1, <1>2, <1>3, <1>7, <2>1, <2>2 DEF MbInv, MbControl
<1>11. EntriesFollow'
  <2>1. SetUp = mb_start /\ SetUp' = mb_start
    BY <1>1, <1>7 DEF SetUp
  <2>2. ASSUME NEW i \in Before(mb_start)
        PROVE  HeadOf(i) \in HeldMds' /\ mb_md[i] = mb_md[HeadOf(i)]
    <3>1. HeadOf(i) \in HeldMds /\ mb_md[i] = mb_md[HeadOf(i)]
      BY <1>1, <2>1 DEF MbInv, EntriesFollow
    <3>2. i \in Nat /\ i < mb_start /\ HeadOf(i) \in Nat /\ HeadOf(i) <= i
      BY EntriesRange, Heads
    <3>3. HeadOf(i) # mb_i
      BY <1>2, <3>2
    <3> QED
      BY <1>8, <3>1, <3>3
  <2>3. Before(SetUp)' = Before(mb_start)
    BY <2>1 DEF Before
  <2> QED
    BY <1>1, <1>3, <2>2, <2>3 DEF EntriesFollow
<1>12. HeldAndFree(pktbuf_pool', mb_buf', HeldBufs) /\ HeldAndFree(md_pool', mb_md', HeldMds \ {mb_i})
  BY <1>1, <1>6, <1>7 DEF MbInv
<1> QED
  BY <1>1, <1>8, <1>9, <1>10, <1>11, <1>12, MbInvAfter

\* What goes back has gone back.
LEMMA GivenInv ==
  ASSUME MbInv, Given
  PROVE  MbInv'
<1>1. /\ mb_pc = "unset" /\ ~(Pooled /\ mb_i < mb_num) /\ mb_i' = 0
      /\ mb_pc' = (IF mb_start = 0 THEN "idle" ELSE "received")
      /\ mb_num' = (IF mb_start = 0 THEN mb_num ELSE mb_start)
      /\ build' = build /\ role' = role /\ mb_start' = mb_start
      /\ mb_buf' = mb_buf /\ mb_md' = mb_md /\ pktbuf_pool' = pktbuf_pool /\ md_pool' = md_pool
  BY DEF Given
<1>2. /\ mb_num \in Nat /\ mb_num <= BATCH_SIZE /\ mb_num >= 1 /\ BATCH_SIZE \in Nat
      /\ mb_start \in Nat /\ mb_start <= mb_num /\ mb_i \in Nat
  BY <1>1, MbTypes, MbSizes
<1>3. /\ variant' = variant /\ (Pooled' <=> Pooled) /\ (Reused' <=> Reused)
      /\ \A R : HeadsIn(R)' = HeadsIn(R)
      /\ \A i : HeadOf(i)' = HeadOf(i)
  BY <1>1, SameBuild
<1>4. Before(0) = {} /\ HeadsIn({}) = {}
  BY EntriesRange DEF HeadsIn
<1>5. \/ mb_start = 0 /\ mb_pc' = "idle"
      \/ mb_start # 0 /\ mb_pc' = "received" /\ mb_num' = mb_start
  BY <1>1
<1>6. HeldBufs' = HeldBufs
  <2>1. Before(mb_num)' = Before(mb_num')
    BY DEF Before
  <2>2. role # "nf" => HeldBufs = Before(mb_start)
    BY <1>1 DEF HeldBufs, MbInv, MbControl
  <2> QED
    BY <1>1, <1>4, <1>5, <2>1, <2>2 DEF HeldBufs, MbInv, MbControl
<1>7. HeldMds' = HeldMds
  <2>1. CASE Pooled
    <3>1. \A i \in Nat : ~(mb_i <= i /\ i < mb_num)
      BY <1>1, <1>2, <2>1
    <3>2. Between(mb_i, mb_num) = {}
      BY <3>1, EntriesRange
    <3>3. HeldMds = HeadsIn(Before(mb_start))
      BY <1>1, <2>1, <3>2, PooledOrReused DEF HeldMds
    <3>4. mb_pc' = "idle" => HeldMds' = {}
      BY <1>3, <2>1, PooledOrReused DEF HeldMds
    <3>5. mb_pc' = "received" => HeldMds' = HeadsIn(Before(mb_start))
      <4> SUFFICES ASSUME mb_pc' = "received"
                   PROVE  HeldMds' = HeadsIn(Before(mb_start))
        OBVIOUS
      <4>1. Before(mb_num)' = Before(mb_start)
        BY <1>5 DEF Before
      <4>2. HeldMds' = HeadsIn(Before(mb_num))'
        BY <1>3, <2>1, PooledOrReused DEF HeldMds
      <4> QED
        BY <1>3, <4>1, <4>2 DEF HeadsIn, IsHead
    <3> QED
      BY <1>4, <1>5, <3>3, <3>4, <3>5
  <2>2. CASE Reused
    <3>1. HeadsIn(Entries)' = HeadsIn(Entries)
      BY <1>3 DEF HeadsIn, IsHead
    <3> QED
      BY <1>1, <1>3, <2>2, <3>1, PooledOrReused DEF HeldMds
  <2>3. CASE ~Pooled /\ ~Reused
    BY <1>1, <1>3, <1>5, <2>3 DEF HeldMds
  <2> QED
    BY <2>1, <2>2, <2>3
<1>8. MbControl'
  <2>1. /\ mb_num' \in 1 .. BATCH_SIZE /\ mb_start' \in 0 .. mb_num' /\ mb_i' \in Nat
        /\ mb_pc' \in {"idle", "received"} /\ (mb_pc' = "received" => mb_num' = mb_start')
        /\ (mb_pc' = "idle" => mb_start' = 0)
    BY <1>1, <1>2
  <2> QED
    BY <1>1, <1>3, <2>1 DEF MbInv, MbControl
<1>9. EntriesFollow'
  <2>1. SetUp = mb_start /\ SetUp' = mb_start
    BY <1>1, <1>5 DEF SetUp
  <2>2. Before(SetUp)' = Before(SetUp)
    BY <2>1 DEF Before
  <2> QED
    BY <1>1, <1>3, <1>7, <2>2 DEF EntriesFollow, MbInv
<1>10. HeldAndFree(pktbuf_pool', mb_buf', HeldBufs) /\ HeldAndFree(md_pool', mb_md', HeldMds)
  BY <1>1 DEF MbInv
<1> QED
  BY <1>1, <1>6, <1>7, <1>8, <1>9, <1>10, MbInvAfter
-----------------------------------------------------------------------------
\* What a burst can return fits into the batch.
LEMMA Halved ==
  ASSUME NEW n \in Nat, n <= BATCH_SIZE
  PROVE  Halvings(n) \subseteq 1 .. BATCH_SIZE
<1>1. BATCH_SIZE \in Nat
  BY MbSizes
<1> QED
  BY <1>1 DEF Halvings

LEMMA MbStepInv ==
  ASSUME MbInv, [MbNext]_mbVars
  PROVE  MbInv'
<1>1. /\ mb_num \in Nat /\ mb_num >= 1 /\ mb_num <= BATCH_SIZE /\ BATCH_SIZE \in Nat
      /\ BATCH_SIZE \in 1 .. BATCH_SIZE /\ 0 \in 0 .. mb_num
  BY MbTypes, MbSizes
<1>2. CASE RxBegin
  <2>1. PICK num \in 1 .. mb_num : Begin(num)
    BY <1>2 DEF RxBegin
  <2>2. num \in 1 .. BATCH_SIZE /\ role # "tx"
    BY <1>1, <1>2 DEF RxBegin
  <2> QED
    BY <2>1, <2>2, BeginInv
<1>3. CASE NfBegin
  <2>1. PICK num \in Halvings(NfBurst) : Begin(num)
    BY <1>3 DEF NfBegin
  <2>2. NfBurst \in Nat /\ NfBurst <= BATCH_SIZE
    <3>1. DESC_PER_CACHELINE \in Nat \ {0}
      BY MbSizes
    <3>2. BATCH_SIZE % DESC_PER_CACHELINE \in Nat /\ BATCH_SIZE % DESC_PER_CACHELINE < DESC_PER_CACHELINE
      BY <1>1, <3>1, Division
    <3> QED
      BY <1>1, <3>1, <3>2 DEF NfBurst
  <2>3. num \in 1 .. BATCH_SIZE /\ role # "tx"
    BY <1>3, <2>2, Halved DEF NfBegin
  <2> QED
    BY <2>1, <2>3, BeginInv
<1>4. CASE TxBegin
  BY <1>1, <1>4, BeginInv DEF TxBegin
<1>5. CASE RxEnd \/ NfEnd \/ TxEnd
  BY <1>1, <1>5, GiveBackInv DEF RxEnd, NfEnd, TxEnd
<1>6. CASE TxReceive
  <2>1. PICK num \in Halvings(BATCH_SIZE) \cup {0} : GiveBack(num)
    BY <1>6 DEF TxReceive
  <2>2. mb_pc = "work" /\ mb_num = BATCH_SIZE
    BY <1>6 DEF TxReceive, MbInv, MbControl
  <2>3. num \in 0 .. mb_num
    <3>1. Halvings(BATCH_SIZE) \subseteq 1 .. BATCH_SIZE
      BY <1>1, Halved
    <3> QED
      BY <1>1, <2>2, <3>1
  <2> QED
    BY <2>1, <2>2, <2>3, GiveBackInv
<1>7. CASE Take
  BY <1>7, TakeInv
<1>8. CASE Setup
  BY <1>8, SetupInv
<1>9. CASE Give
  BY <1>9, GiveInv
<1>10. CASE Unset
  BY <1>10, UnsetInv
<1>11. CASE Given
  BY <1>11, GivenInv
<1>12. CASE UNCHANGED mbVars
  <2>1. /\ build' = build /\ role' = role /\ mb_pc' = mb_pc /\ mb_num' = mb_num /\ mb_start' = mb_start
        /\ mb_i' = mb_i /\ mb_buf' = mb_buf /\ mb_md' = mb_md
        /\ pktbuf_pool' = pktbuf_pool /\ md_pool' = md_pool
    BY <1>12 DEF mbVars
  <2>2. /\ variant' = variant /\ (Pooled' <=> Pooled) /\ (Reused' <=> Reused)
        /\ \A R : HeadsIn(R)' = HeadsIn(R)
        /\ \A i : HeadOf(i)' = HeadOf(i) /\ (IsHead(i)' <=> IsHead(i))
    BY <2>1, SameBuild
  <2>3. HeldBufs' = HeldBufs
    BY <2>1 DEF HeldBufs, Before, Between
  <2>4. HeldMds' = HeldMds
    BY <2>1 DEF HeldMds, Before, Between, HeadsIn, IsHead, Pooled, Reused, Group, variant
  <2>5. MbControl'
    BY <2>1 DEF MbInv, MbControl, IsHead, Group, variant
  <2>6. EntriesFollow'
    BY <2>1, <2>2, <2>4 DEF MbInv, EntriesFollow, SetUp, Before
  <2>7. HeldAndFree(pktbuf_pool', mb_buf', HeldBufs) /\ HeldAndFree(md_pool', mb_md', HeldMds)
    BY <2>1 DEF MbInv
  <2> QED
    BY <2>1, <2>3, <2>4, <2>5, <2>6, <2>7, MbInvAfter
<1> QED
  BY <1>2, <1>3, <1>4, <1>5, <1>6, <1>7, <1>8, <1>9, <1>10, <1>11, <1>12 DEF MbNext

(***************************************************************************)
(* At every turn of the loops the pools and the entries of mbptrs share    *)
(* out all buffers, in each build in which reset_mbptr leaves the indices  *)
(* that are kept (mpool/aggregated_md.h, reuse/aggregated_md.h, mbuf.h).   *)
(***************************************************************************)
THEOREM EachBufferInOnePlace == KeepsIndices /\ MbSpec => []MbInv
<1>1. KeepsIndices /\ MbInit => MbInv
  BY MbInitInv
<1>2. MbInv /\ [MbNext]_mbVars => MbInv'
  BY MbStepInv
<1> QED
  BY <1>1, <1>2, PTL DEF MbSpec

LEMMA MbInvExclusive ==
  ASSUME MbInv
  PROVE  BatchExclusive
<1> SUFFICES ASSUME mb_pc \in {"work", "received"}
             PROVE  /\ role # "nf" =>
                         \A i, j \in 0 .. mb_num - 1 :
                           mb_buf[i] \notin PoolObjs(pktbuf_pool) /\ (i # j => mb_buf[i] # mb_buf[j])
                    /\ variant # "integrated" =>
                         \A i, j \in 0 .. mb_num - 1 :
                           /\ mb_md[i] \notin PoolObjs(md_pool)
                           /\ mb_md[i] = mb_md[j] <=> i \div Group = j \div Group
  BY DEF BatchExclusive
<1>1. mb_num \in Nat /\ mb_num <= BATCH_SIZE /\ BATCH_SIZE \in Nat
  BY MbTypes, MbSizes
<1>2. \A i \in 0 .. mb_num - 1 : i \in Before(mb_num) /\ i \in Nat
  BY <1>1, EntriesRange
<1>3. ASSUME role # "nf", NEW i \in 0 .. mb_num - 1, NEW j \in 0 .. mb_num - 1
      PROVE  mb_buf[i] \notin PoolObjs(pktbuf_pool) /\ (i # j => mb_buf[i] # mb_buf[j])
  <2>1. HeldBufs = Before(mb_num)
    BY <1>3 DEF HeldBufs, MbInv, MbControl
  <2> QED
    BY <1>2, <2>1 DEF MbInv, HeldAndFree
<1>4. ASSUME variant # "integrated", NEW i \in 0 .. mb_num - 1, NEW j \in 0 .. mb_num - 1
      PROVE  /\ mb_md[i] \notin PoolObjs(md_pool)
             /\ mb_md[i] = mb_md[j] <=> i \div Group = j \div Group
  <2>1. Pooled \/ Reused
    <3>1. build \in [variant: {"integrated", "each_mpool", "reuse", "aggr_mpool", "aggr_reuse"},
                     host_led: BOOLEAN]
      BY BatchAssumption DEF MbInv, MbControl
    <3>2. variant \in {"integrated", "each_mpool", "reuse", "aggr_mpool", "aggr_reuse"}
      BY <3>1 DEF variant
    <3> QED
      BY <1>4, <3>2 DEF Pooled, Reused
  <2>2. SetUp = mb_num
    BY DEF SetUp
  <2>3. /\ HeadOf(i) \in HeldMds /\ mb_md[i] = mb_md[HeadOf(i)]
        /\ HeadOf(j) \in HeldMds /\ mb_md[j] = mb_md[HeadOf(j)]
    BY <1>2, <2>1, <2>2 DEF MbInv, EntriesFollow
  <2>4. /\ mb_md[HeadOf(i)] \notin PoolObjs(md_pool)
        /\ mb_md[HeadOf(i)] = mb_md[HeadOf(j)] => HeadOf(i) = HeadOf(j)
    BY <2>3 DEF MbInv, HeldAndFree
  <2>5. HeadOf(i) = HeadOf(j) <=> i \div Group = j \div Group
    <3>1. Group \in Nat \ {0}
      BY MbSizes
    <3>2. HeadOf(i) = Group * (i \div Group) /\ HeadOf(j) = Group * (j \div Group)
      BY <1>2, Heads
    <3>3. i \div Group \in Nat /\ j \div Group \in Nat
      BY <1>2, <3>1, Division
    <3>4. (Group * (i \div Group)) \div Group = i \div Group
          /\ (Group * (j \div Group)) \div Group = j \div Group
      BY <3>1, <3>3, Multiple
    <3> QED
      BY <3>2, <3>4
  <2> QED
    BY <2>3, <2>4, <2>5
<1> QED
  BY <1>3, <1>4

(***************************************************************************)
(* No two groups of a batch share a metadata buffer, no two packets of     *)
(* rx.out or tx.out a packet buffer, and none of them is free, wherever a  *)
(* burst of tx.out cuts a batch.                                           *)
(***************************************************************************)
THEOREM BuffersExclusive == KeepsIndices /\ MbSpec => []BatchExclusive
<1>1. MbInv => BatchExclusive
  BY MbInvExclusive
<1> QED
  BY <1>1, EachBufferInOnePlace, PTL
-----------------------------------------------------------------------------
\* What a pool has is what the entries do not have, also in number.
LEMMA FreeCount ==
  ASSUME NEW p, NEW f, NEW R \in SUBSET Entries, HeldAndFree(p, f, R)
  PROVE  /\ PoolObjs(p) = Objs \ {f[i] : i \in R}
         /\ Left(p) = Cardinality(PoolObjs(p))
<1> DEFINE D == Objs \ PoolObjs(p)
<1>1. /\ p \in Pools /\ \A i \in R : f[i] \in Objs \ PoolObjs(p)
      /\ \A i, j \in R : f[i] = f[j] => i = j
      /\ \A b \in Objs \ PoolObjs(p) : \E i \in R : f[i] = b
      /\ Left(p) = POOL_NUM - Cardinality(R)
  BY DEF HeldAndFree
<1>2. PoolObjs(p) \subseteq Objs
  <2>1. p.cache \in Seq(Objs) /\ p.ring \in Seq(Objs)
    BY <1>1 DEF Pools
  <2>2. (\A k \in DOMAIN p.cache : p.cache[k] \in Objs) /\ (\A k \in DOMAIN p.ring : p.ring[k] \in Objs)
    BY <2>1, LenProperties, ElementOfSeq
  <2> QED
    BY <2>2 DEF PoolObjs
<1>3. PoolObjs(p) = Objs \ {f[i] : i \in R}
  BY <1>1, <1>2
<1>4. IsFiniteSet(Objs) /\ Cardinality(Objs) = POOL_NUM
  <2>1. POOL_NUM \in Nat /\ POOL_NUM >= 1
    BY MbSizes
  <2>2. 0 \in Int /\ POOL_NUM - 1 \in Int /\ ~(0 > POOL_NUM - 1) /\ POOL_NUM - 1 - 0 + 1 = POOL_NUM
    BY <2>1
  <2> QED
    BY <2>2, FS_Interval DEF Objs
<1>5. IsFiniteSet(R)
  BY EntriesCount
<1>6. Cardinality(D) = Cardinality(R)
  <2> DEFINE g == [i \in R |-> f[i]]
  <2>1. g \in [R -> D] /\ \A i, j \in R : g[i] = g[j] => i = j
    BY <1>1
  <2>2. \A b \in D : \E i \in R : g[i] = b
    BY <1>1
  <2> HIDE DEF g, D
  <2>3. g \in Injection(R, D) /\ g \in Surjection(R, D)
    BY <2>1, <2>2, Fun_IsInj, Fun_IsSurj
  <2> QED
    BY <1>5, <2>3, FS_Surjection
<1>7. Cardinality(D) = Cardinality(Objs) - Cardinality(PoolObjs(p))
  <2>1. Objs \cap PoolObjs(p) = PoolObjs(p)
    BY <1>2
  <2> QED
    BY <1>4, <2>1, FS_Difference
<1>8. Cardinality(PoolObjs(p)) \in Nat /\ Cardinality(R) \in Nat /\ POOL_NUM \in Nat
  BY <1>2, <1>4, EntriesCount, FS_Subset, FS_CardinalityType, MbSizes
<1> QED
  BY <1>1, <1>3, <1>4, <1>6, <1>7, <1>8

\* There are no more heads than groups in a batch.
LEMMA HeadsCount ==
  ASSUME NEW R \in SUBSET Entries, \A i \in R : IsHead(i)
  PROVE  Cardinality(R) <= (BATCH_SIZE + Group - 1) \div Group
<1> PICK g : g = Group
  OBVIOUS
<1> PICK n : n = BATCH_SIZE + g - 1
  OBVIOUS
<1> PICK K : K = n \div g
  OBVIOUS
<1>1. g \in Nat \ {0} /\ BATCH_SIZE \in Nat /\ n \in Nat
  BY MbSizes
<1>2. K \in Nat /\ n % g \in Nat /\ n % g < g /\ n = g * K + (n % g)
  BY <1>1, Division
<1>3. ASSUME NEW h \in R
      PROVE  h \in Nat /\ h \div g \in 0 .. K - 1 /\ h = g * (h \div g)
  <2> PICK a : a = h \div g
    OBVIOUS
  <2>1. h \in Nat /\ h < BATCH_SIZE
    BY EntriesRange
  <2>2. a \in Nat
    BY <1>1, <2>1, Division
  <2>3. h = g * a
    BY <2>1, Heads
  <2>4. g * (a + 1) = g * a + g /\ g * (K + 1) = g * K + g
    BY <1>1, <1>2, <2>2
  <2>5. g * a \in Nat /\ g * K \in Nat
    BY <1>1, <1>2, <2>2, Multiple
  <2>6. g * (a + 1) < g * (K + 1)
    BY <1>1, <1>2, <2>1, <2>3, <2>4, <2>5
  <2>7. a + 1 < K + 1
    BY <1>1, <1>2, <2>2, <2>6, SmallerMultiple
  <2> QED
    BY <1>2, <2>1, <2>2, <2>3, <2>7
<1> DEFINE f == [h \in R |-> h \div g]
           T == 0 .. K - 1
<1>4. f \in [R -> T] /\ \A h, k \in R : f[h] = f[k] => h = k
  <2>1. f \in [R -> T]
    BY <1>3
  <2>2. \A h \in R : h = g * f[h]
    BY <1>3
  <2> QED
    BY <2>1, <2>2
<1>5. IsFiniteSet(T) /\ Cardinality(T) = K
  <2>1. 0 \in Int /\ K - 1 \in Int /\ (0 > K - 1 <=> K = 0) /\ K - 1 - 0 + 1 = K
    BY <1>2
  <2> QED
    BY <2>1, FS_Interval
<1> HIDE DEF f, T
<1>6. f \in Injection(R, T)
  BY <1>4, Fun_IsInj
<1>7. Cardinality(R) <= Cardinality(T)
  BY <1>5, <1>6, FS_Injection
<1> QED
  BY <1>5, <1>7

LEMMA MbInvNothingLost ==
  ASSUME MbInv
  PROVE  NothingLost
<1>1. mb_pc # "exited"
  BY DEF MbInv, MbControl
<1>2. ~Overrun(pktbuf_pool) /\ ~Overrun(md_pool)
  <2>1. pktbuf_pool.rear = POOL_NUM /\ md_pool.rear = POOL_NUM /\ POOL_NUM \in Nat
    BY MbSizes DEF MbInv, HeldAndFree, Pools
  <2> QED
    BY <2>1 DEF Overrun
<1>3. ASSUME mb_pc = "idle"
      PROVE  PoolObjs(pktbuf_pool) = Objs /\ Left(pktbuf_pool) = POOL_NUM
  <2>1. HeldBufs = {}
    BY <1>3 DEF HeldBufs, MbInv, MbControl
  <2>2. HeldAndFree(pktbuf_pool, mb_buf, {})
    BY <2>1 DEF MbInv
  <2>3. PoolObjs(pktbuf_pool) = Objs \ {mb_buf[i] : i \in {}}
    BY <2>2, FreeCount
  <2>4. Left(pktbuf_pool) = POOL_NUM - Cardinality({}) /\ Cardinality({}) = 0 /\ POOL_NUM \in Nat
    BY <2>2, FS_EmptySet, MbSizes DEF HeldAndFree
  <2> QED
    BY <2>3, <2>4
<1>4. ASSUME mb_pc = "idle"
      PROVE  /\ PoolObjs(md_pool) = Objs \ (IF Reused THEN {mb_md[i] : i \in Entries} ELSE {})
             /\ Left(md_pool) = Cardinality(PoolObjs(md_pool))
             /\ Left(md_pool) >= POOL_NUM - (BATCH_SIZE + Group - 1) \div Group
  <2>1. HeldMds \in SUBSET Entries /\ HeldAndFree(md_pool, mb_md, HeldMds)
    BY MbTypes DEF MbInv
  <2>2. PoolObjs(md_pool) = Objs \ {mb_md[i] : i \in HeldMds} /\ Left(md_pool) = Cardinality(PoolObjs(md_pool))
    BY <2>1, FreeCount
  <2>3. Reused => HeldMds = {i \in HeadsIn(Entries) : mb_md[i] >= 0}
    BY PooledOrReused DEF HeldMds
  <2>4. ~Reused => HeldMds = {}
    BY <1>3, <1>4 DEF HeldMds
  <2>5. PoolObjs(md_pool) = Objs \ (IF Reused THEN {mb_md[i] : i \in Entries} ELSE {})
    <3>1. CASE ~Reused
      BY <2>2, <2>4, <3>1
    <3>2. CASE Reused
      <4>1. ASSUME NEW b \in Objs, NEW i \in Entries, mb_md[i] = b
            PROVE  HeadOf(i) \in HeldMds /\ mb_md[HeadOf(i)] = b
        <5>1. b \in Int /\ b >= 0
          BY MbSizes DEF Objs
        <5>2. mb_md[HeadOf(i)] = b
          BY <3>2, <4>1, <5>1 DEF MbInv, EntriesFollow
        <5>3. HeadOf(i) \in Entries /\ IsHead(HeadOf(i))
          <6>1. i \in Nat /\ i < BATCH_SIZE /\ BATCH_SIZE \in Nat
            BY EntriesRange, MbSizes
          <6>2. HeadOf(i) \in Nat /\ HeadOf(i) < BATCH_SIZE /\ IsHead(HeadOf(i))
            BY <6>1, Heads
          <6> QED
            BY <6>2, EntriesRange
        <5> QED
          BY <2>3, <3>2, <5>1, <5>2, <5>3 DEF HeadsIn
      <4>2. \A i \in HeldMds : i \in Entries
        BY <2>1
      <4> QED
        BY <2>2, <3>2, <4>1, <4>2
    <3> QED
      BY <3>1, <3>2
  <2>6. Left(md_pool) >= POOL_NUM - (BATCH_SIZE + Group - 1) \div Group
    <3>1. \A i \in HeldMds : IsHead(i)
      BY <2>3, <2>4 DEF HeadsIn
    <3>2. Cardinality(HeldMds) <= (BATCH_SIZE + Group - 1) \div Group
      BY <2>1, <3>1, HeadsCount
    <3>3. Left(md_pool) = POOL_NUM - Cardinality(HeldMds) /\ Cardinality(HeldMds) \in Nat /\ POOL_NUM \in Nat
      BY <2>1, EntriesCount, MbSizes DEF HeldAndFree
    <3>4. (BATCH_SIZE + Group - 1) \div Group \in Nat
      <4>1. Group \in Nat \ {0} /\ BATCH_SIZE + Group - 1 \in Nat
        BY MbSizes
      <4> QED
        BY <4>1, Division
    <3> QED
      BY <3>2, <3>3, <3>4
  <2> QED
    BY <2>2, <2>5, <2>6
<1> QED
  BY <1>1, <1>2, <1>3, <1>4 DEF NothingLost

(***************************************************************************)
(* Between two batches every buffer is back but those the reusing variants *)
(* keep, none is back twice, no batch ever finds a pool empty, and nothing *)
(* is stored past the end of a ring.                                       *)
(***************************************************************************)
THEOREM BuffersComeBack == KeepsIndices /\ MbSpec => []NothingLost
<1>1. MbInv => NothingLost
  BY MbInvNothingLost
<1> QED
  BY <1>1, EachBufferInOnePlace, PTL
=============================================================================
