---------------------------- MODULE MemObjProofs ----------------------------
(***************************************************************************)
(* Proofs about the memory of a memobj_pool, for every pool and every      *)
(* cache, an empty one included: what is in it, that it does what the      *)
(* records of MemPool do, and that it implements Allocator.                *)
(***************************************************************************)
EXTENDS MemObj, FiniteSetTheorems, SequenceTheorems, TLAPS

MemIInv == MemTypeOK /\ MemInv

LEMMA MemInitInv == MemInit => MemIInv
<1> SUFFICES ASSUME MemInit
             PROVE  MemIInv
  OBVIOUS
<1> USE PoolAssumption
<1>1. MemTypeOK
  BY DEF MemInit, MemTypeOK, Cells, Marks, Objs
<1>2. Cached = {}
  BY DEF MemInit, Cached
<1>3. MemInv
  BY <1>2 DEF MemInit, MemInv
<1> QED
  BY <1>1, <1>3 DEF MemIInv

(***************************************************************************)
(* A pop hands out the youngest object of the cache and nothing else moves *)
(* (stack.h:48).                                                           *)
(***************************************************************************)
LEMMA PopTakes ==
  ASSUME MemIInv, AllocPop
  PROVE  /\ stk_top \in Marks /\ stk_ptr[stk_top] \in Cached
         /\ Cached' = Cached \ {stk_ptr[stk_top]}
<1> USE PoolAssumption DEF MemIInv, MemTypeOK
<1>1. stk_top \in 0 .. CACHE_NUM - 1
  BY DEF AllocPop, MayPop
<1>2. \A m, n \in 0 .. stk_top : stk_ptr[m] = stk_ptr[n] => m = n
  BY DEF AllocPop, MemInv
<1>3. Cached' = {stk_ptr[m] : m \in 0 .. stk_top - 1}
  BY DEF AllocPop, Cached
<1>4. Cached = Cached' \cup {stk_ptr[stk_top]}
  <2>1. 0 .. stk_top = (0 .. stk_top - 1) \cup {stk_top}
    BY <1>1
  <2> QED
    BY <1>3, <2>1 DEF Cached
<1>5. stk_ptr[stk_top] \notin Cached'
  BY <1>1, <1>2, <1>3
<1> QED
  BY <1>1, <1>4, <1>5 DEF Marks

(***************************************************************************)
(* A push adds the object that is freed (stack.h:38).                      *)
(***************************************************************************)
LEMMA PushAdds ==
  ASSUME MemIInv, NEW b \in held, FreePush(b)
  PROVE  /\ stk_top' \in Marks /\ stk_top' = stk_top + 1
         /\ stk_ptr'[stk_top + 1] = b
         /\ \A m \in 0 .. stk_top : stk_ptr'[m] = stk_ptr[m]
         /\ Cached' = Cached \cup {b}
<1> USE PoolAssumption DEF MemIInv, MemTypeOK
<1>1. stk_top \in -1 .. CACHE_NUM - 2 /\ stk_top + 1 \in Marks /\ stk_top' = stk_top + 1
  BY DEF FreePush, MayPush, Marks
<1>2. /\ stk_ptr'[stk_top + 1] = b
      /\ \A m \in 0 .. stk_top : stk_ptr'[m] = stk_ptr[m]
  BY <1>1 DEF FreePush, Marks
<1>3. 0 .. stk_top' = (0 .. stk_top) \cup {stk_top + 1}
  BY <1>1
<1> QED
  BY <1>1, <1>2, <1>3 DEF Cached

LEMMA MemNextInv == MemIInv /\ [MemNext]_memVars => MemIInv'
<1> SUFFICES ASSUME MemIInv, [MemNext]_memVars
             PROVE  MemIInv'
  OBVIOUS
<1> USE PoolAssumption
<1>1. CASE AllocPop
  <2>1. /\ stk_top \in Marks /\ stk_ptr[stk_top] \in Cached
        /\ Cached' = Cached \ {stk_ptr[stk_top]}
    BY <1>1, PopTakes
  <2>2. Cached \cup held = 0 .. ring_front - 1 /\ ring_front \in 0 .. POOL_NUM
    BY <1>1 DEF MemIInv, MemTypeOK, MemInv, AllocPop
  <2>3. MemTypeOK'
    BY <1>1, <2>1, <2>2 DEF MemIInv, MemTypeOK, AllocPop, ringVars, Marks, Objs
  <2>4. MemInv'
    BY <1>1, <2>1 DEF MemIInv, MemInv, MemTypeOK, AllocPop, ringVars, Marks
  <2> QED
    BY <2>3, <2>4 DEF MemIInv
<1>2. CASE AllocDequeue
  <2>1. /\ ring_front \in 0 .. POOL_NUM - 1 /\ ring_front' = ring_front + 1
        /\ ring_ptr[ring_front] = ring_front
        /\ Cached \cup held = 0 .. ring_front - 1 /\ Cached \cap held = {}
    BY <1>2 DEF MemIInv, MemTypeOK, MemInv, AllocDequeue, MayDequeue, Cells
  <2>2. Cached' = Cached
    BY <1>2 DEF AllocDequeue, Cached, stkVars
  <2>3. MemTypeOK'
    BY <1>2, <2>1 DEF MemIInv, MemTypeOK, MemInv, AllocDequeue, MayDequeue, stkVars, Objs
  <2>4. held' = held \cup {ring_front} /\ 0 .. ring_front' - 1 = (0 .. ring_front - 1) \cup {ring_front}
    BY <1>2, <2>1 DEF AllocDequeue
  <2>5. ring_front \notin 0 .. ring_front - 1
    BY <2>1
  <2>6. MemInv'
    BY <1>2, <2>1, <2>2, <2>4, <2>5 DEF MemIInv, MemInv, MemTypeOK, AllocDequeue, stkVars
  <2> QED
    BY <2>3, <2>6 DEF MemIInv
<1>3. CASE AllocExit
  <2>1. Cached' = Cached
    BY <1>3 DEF AllocExit, Cached, stkVars
  <2> QED
    BY <1>3, <2>1 DEF MemIInv, MemTypeOK, MemInv, AllocExit, ringVars, stkVars
<1>4. ASSUME NEW b \in held, FreePush(b)
      PROVE  MemIInv'
  <2>1. /\ stk_top' \in Marks /\ stk_top' = stk_top + 1
        /\ stk_ptr'[stk_top + 1] = b
        /\ \A m \in 0 .. stk_top : stk_ptr'[m] = stk_ptr[m]
        /\ Cached' = Cached \cup {b}
    BY <1>4, PushAdds
  <2>2. MemTypeOK'
    BY <1>4, <2>1 DEF MemIInv, MemTypeOK, FreePush, ringVars, Marks
  <2>3. \A m, n \in 0 .. stk_top' : stk_ptr'[m] = stk_ptr'[n] => m = n
    <3>1. \A m, n \in 0 .. stk_top : stk_ptr[m] = stk_ptr[n] => m = n
      BY <1>4 DEF MemIInv, MemInv, FreePush
    <3>2. \A m \in 0 .. stk_top : stk_ptr[m] # b
      BY <1>4 DEF MemIInv, MemInv, FreePush, Cached
    <3>3. stk_top \in Int /\ \A m \in 0 .. stk_top' : m \in 0 .. stk_top \/ m = stk_top + 1
      BY <2>1 DEF MemIInv, MemTypeOK
    <3> QED
      BY <2>1, <3>1, <3>2, <3>3
  <2>4. MemInv'
    BY <1>4, <2>1, <2>3 DEF MemIInv, MemInv, FreePush, ringVars
  <2> QED
    BY <2>2, <2>4 DEF MemIInv
<1>5. ASSUME NEW b \in held, FreeEnqueue(b)
      PROVE  MemIInv'
  <2>1. /\ ring_rear = POOL_NUM /\ ring_num \in 0 .. POOL_NUM
        /\ Cached' = Cached
    BY <1>5 DEF MemIInv, MemInv, MemTypeOK, FreeEnqueue, Cached, stkVars
  <2>2. CASE MayEnqueue
    BY <1>5, <2>1, <2>2 DEF MemIInv, MemTypeOK, MemInv, FreeEnqueue, MayEnqueue, stkVars, Cells
  <2>3. CASE ~MayEnqueue
    BY <1>5, <2>1, <2>3 DEF MemIInv, MemTypeOK, MemInv, FreeEnqueue, stkVars, ringVars
  <2> QED
    BY <2>2, <2>3
<1>6. CASE UNCHANGED memVars
  <2>1. Cached' = Cached
    BY <1>6 DEF Cached, memVars, stkVars
  <2> QED
    BY <1>6, <2>1 DEF MemIInv, MemTypeOK, MemInv, memVars, ringVars, stkVars
<1> QED
  BY <1>1, <1>2, <1>3, <1>4, <1>5, <1>6 DEF MemNext

(***************************************************************************)
(* What is free is in cells of its own behind front or in the cache, and   *)
(* the types of ring and stack (ring.h, stack.h), whatever is freed when.  *)
(***************************************************************************)
THEOREM MemoryInvariant == MemSpec => []MemInv
<1>1. MemIInv => MemInv
  BY DEF MemIInv
<1> QED
  BY <1>1, MemInitInv, MemNextInv, PTL DEF MemSpec

THEOREM MemoryTyped == MemSpec => []MemTypeOK
<1>1. MemIInv => MemTypeOK
  BY DEF MemIInv
<1> QED
  BY <1>1, MemInitInv, MemNextInv, PTL DEF MemSpec
-----------------------------------------------------------------------------
LEMMA QueuedIs ==
  ASSUME MemIInv, mem_pc # "overrun"
  PROVE  Queued = ring_front .. POOL_NUM - 1
<1>1. /\ ring_front \in 0 .. POOL_NUM /\ POOL_NUM \in Nat
      /\ ring_front + ring_num - 1 = POOL_NUM - 1
      /\ \A c \in 0 .. POOL_NUM - 1 : ring_ptr[c] = c
  BY PoolAssumption DEF MemIInv, MemTypeOK, MemInv, Cells
<1>2. \A c \in ring_front .. POOL_NUM - 1 : ring_ptr[c] = c
  BY <1>1
<1>3. Queued = {ring_ptr[c] : c \in ring_front .. POOL_NUM - 1}
  BY <1>1 DEF Queued
<1> QED
  BY <1>2, <1>3

LEMMA CachedCount ==
  ASSUME MemIInv, mem_pc # "overrun"
  PROVE  IsFiniteSet(Cached) /\ Cardinality(Cached) = stk_top + 1
<1> DEFINE f == [k \in 0 .. stk_top |-> stk_ptr[k]]
<1>1. stk_top \in Int /\ stk_top >= -1
  BY PoolAssumption DEF MemIInv, MemTypeOK
<1>2. f \in Bijection(0 .. stk_top, Cached)
  BY DEF MemIInv, MemInv, Cached, Bijection, Injection, Surjection, IsInjective
<1>3. IsFiniteSet(0 .. stk_top) /\ Cardinality(0 .. stk_top) = stk_top + 1
  <2>1. 0 \in Int
    OBVIOUS
  <2>2. Cardinality(0 .. stk_top) = IF 0 > stk_top THEN 0 ELSE stk_top - 0 + 1
    BY <1>1, <2>1, FS_Interval
  <2> QED
    BY <1>1, <2>1, <2>2, FS_Interval
<1> QED
  BY <1>2, <1>3, FS_Bijection DEF ExistsBijection

(***************************************************************************)
(* No object is lost, and none is in two places, as long as no free has    *)
(* gone past the ring (ring.h:41).                                         *)
(***************************************************************************)
THEOREM ObjectsOnce == MemSpec => []EveryObjectOnce
<1>1. MemIInv => EveryObjectOnce
  <2> SUFFICES ASSUME MemIInv, mem_pc # "overrun"
               PROVE  /\ ring_front + ring_num = ring_rear
                      /\ Queued \cup Cached \cup held = Objs
                      /\ ring_num + (stk_top + 1) + Cardinality(held) = POOL_NUM
    BY DEF EveryObjectOnce
  <2>1. /\ ring_front \in 0 .. POOL_NUM /\ POOL_NUM \in Nat
        /\ ring_num = POOL_NUM - ring_front /\ ring_rear = POOL_NUM
        /\ Cached \cup held = 0 .. ring_front - 1 /\ Cached \cap held = {}
        /\ stk_top \in Int
    BY PoolAssumption DEF MemIInv, MemTypeOK, MemInv
  <2>2. Queued \cup Cached \cup held = Objs
    <3>1. (ring_front .. POOL_NUM - 1) \cup (0 .. ring_front - 1) = 0 .. POOL_NUM - 1
      BY <2>1
    <3> QED
      BY <2>1, <3>1, QueuedIs DEF Objs
  <2>3. IsFiniteSet(0 .. ring_front - 1) /\ Cardinality(0 .. ring_front - 1) = ring_front
    <3>1. 0 \in Int /\ ring_front - 1 \in Int
      BY <2>1
    <3>2. Cardinality(0 .. ring_front - 1) = IF 0 > ring_front - 1 THEN 0 ELSE ring_front - 1 - 0 + 1
      BY <3>1, FS_Interval
    <3> QED
      BY <2>1, <3>1, <3>2, FS_Interval
  <2>4. held = (0 .. ring_front - 1) \ Cached /\ (0 .. ring_front - 1) \cap Cached = Cached
    BY <2>1
  <2>5. Cardinality(held) = Cardinality(0 .. ring_front - 1) - Cardinality(Cached)
    <3> DEFINE passed == 0 .. ring_front - 1
    <3>1. IsFiniteSet(passed) /\ held = passed \ Cached /\ passed \cap Cached = Cached
      BY <2>3, <2>4
    <3> HIDE DEF passed
    <3>2. Cardinality(passed \ Cached) = Cardinality(passed) - Cardinality(passed \cap Cached)
      BY <3>1, FS_Difference
    <3> QED
      BY <3>1, <3>2 DEF passed
  <2> QED
    BY <2>1, <2>2, <2>3, <2>5, CachedCount
<1> QED
  BY <1>1, MemInitInv, MemNextInv, PTL DEF MemSpec
-----------------------------------------------------------------------------
\* The record that describes the two arrays.
LEMMA PoolIs ==
  ASSUME MemIInv, mem_pc # "overrun"
  PROVE  /\ Pool.ring \in Seq(Objs) /\ Len(Pool.ring) = ring_num
         /\ \A k \in 1 .. ring_num : Pool.ring[k] = ring_ptr[ring_front + k - 1]
         /\ Pool.rear = POOL_NUM
         /\ Pool.cache \in Seq(Objs) /\ Len(Pool.cache) = stk_top + 1
         /\ \A k \in 1 .. stk_top + 1 : Pool.cache[k] = stk_ptr[k - 1]
         /\ Pool = [ring |-> Pool.ring, rear |-> Pool.rear, cache |-> Pool.cache]
<1>1. /\ ring_front \in Nat /\ ring_num \in Nat /\ ring_num = POOL_NUM - ring_front
      /\ \A c \in Objs : ring_ptr[c] = c
      /\ stk_top + 1 \in Nat /\ stk_top \in Int
      /\ Cached \subseteq Objs /\ ring_rear = POOL_NUM /\ POOL_NUM \in Nat
  BY PoolAssumption DEF MemIInv, MemTypeOK, MemInv, Cells, Objs
<1>2. Pool.ring \in [1 .. ring_num -> Objs]
  BY <1>1 DEF Pool, Objs
<1>3. Pool.cache \in [1 .. stk_top + 1 -> Objs]
  <2>1. \A k \in 1 .. stk_top + 1 : stk_ptr[k - 1] \in Cached
    BY <1>1 DEF Cached
  <2> QED
    BY <1>1, <2>1 DEF Pool
<1>4. Pool.ring \in Seq(Objs) /\ Pool.cache \in Seq(Objs)
  BY <1>1, <1>2, <1>3, SeqDef
<1>5. Len(Pool.ring) = ring_num /\ Len(Pool.cache) = stk_top + 1
  BY <1>1, <1>2, <1>3, <1>4, LenProperties
<1> QED
  BY <1>1, <1>4, <1>5 DEF Pool

LEMMA PopImplemented ==
  ASSUME MemIInv, MemIInv', AllocPop
  PROVE  PoolStep
<1> USE PoolAssumption
<1>0. mem_pc = "ready" /\ mem_pc' = "ready" /\ stk_top' = stk_top - 1
  BY DEF AllocPop
<1>1. stk_top \in 0 .. CACHE_NUM - 1 /\ stk_ptr[stk_top] \in Cached \ held /\ held \subseteq held'
  BY PopTakes DEF MemIInv, MemInv, AllocPop, Marks
<1> DEFINE c == Pool.cache
           d == Pool'.cache
<1>2. /\ c \in Seq(Objs) /\ Len(c) = stk_top + 1 /\ c # <<>>
      /\ \A k \in 1 .. stk_top + 1 : c[k] = stk_ptr[k - 1]
  BY <1>0, <1>1, PoolIs
<1>3. /\ d = [k \in 1 .. stk_top |-> stk_ptr[k - 1]]
      /\ Pool'.ring = Pool.ring /\ Pool'.rear = Pool.rear
      /\ Pool' = [ring |-> Pool'.ring, rear |-> Pool'.rear, cache |-> d]
  BY <1>0, <1>1 DEF AllocPop, Pool, ringVars
<1>4. Pool = [ring |-> Pool.ring, rear |-> Pool.rear, cache |-> c]
  BY <1>0, PoolIs
<1> HIDE DEF c
<1>5. d = SubSeq(c, 1, Len(c) - 1)
  <2> DEFINE n == stk_top
  <2>1. n \in Nat /\ n = Len(c) - 1
    BY <1>1, <1>2
  <2> HIDE DEF n
  <2>2. SubSeq(c, 1, n) = [k \in 1 .. n |-> c[k]]
    BY <1>2, <2>1
  <2>3. \A k \in 1 .. n : c[k] = stk_ptr[k - 1]
    BY <1>2, <2>1
  <2> QED
    BY <1>3, <2>1, <2>2, <2>3 DEF n
<1>6. AfterAlloc(Pool) = [Pool EXCEPT !.cache = SubSeq(c, 1, Len(c) - 1)]
  BY <1>2 DEF AfterAlloc, c
<1>7. Pool' = AfterAlloc(Pool)
  BY <1>3, <1>4, <1>5, <1>6
<1>8. CanAlloc(Pool) /\ AllocIdx(Pool) = stk_ptr[stk_top]
  <2>1. c[Len(c)] = stk_ptr[stk_top]
    BY <1>1, <1>2
  <2> QED
    BY <1>2, <2>1 DEF CanAlloc, AllocIdx, c
<1>9. held' = held \cup {stk_ptr[stk_top]}
  BY DEF AllocPop
<1> QED
  BY <1>0, <1>1, <1>7, <1>8, <1>9 DEF PoolStep

LEMMA DequeueImplemented ==
  ASSUME MemIInv, MemIInv', AllocDequeue
  PROVE  PoolStep
<1> USE PoolAssumption
<1>0. /\ mem_pc = "ready" /\ mem_pc' = "ready" /\ ring_num' = ring_num - 1
      /\ ring_front' = ring_front + 1 /\ UNCHANGED <<ring_ptr, ring_rear, stk_ptr, stk_top>>
  BY DEF AllocDequeue, stkVars
<1>1. /\ ring_num \in Nat \ {0} /\ ring_front \in Nat
      /\ held' = held \cup {ring_front} /\ ring_ptr[ring_front] = ring_front
      /\ ring_front \notin held
  <2>1. ring_front \in Cells /\ Cached \cup held = 0 .. ring_front - 1
    BY DEF MemIInv, MemTypeOK, MemInv, AllocDequeue, MayDequeue, Cells
  <2> QED
    BY <2>1 DEF MemIInv, MemTypeOK, MemInv, AllocDequeue, MayDequeue, Cells
<1>2. stk_top = -1
  <2>1. CASE CACHE_NUM = 0
    BY <2>1 DEF MemIInv, MemTypeOK
  <2>2. CASE CACHE_NUM # 0
    BY <2>2 DEF AllocDequeue, MayPop
  <2> QED
    BY <2>1, <2>2
<1> DEFINE r == Pool.ring
           q == Pool'.ring
<1>3. /\ r \in Seq(Objs) /\ Len(r) = ring_num /\ r # <<>>
      /\ \A k \in 1 .. ring_num : r[k] = ring_ptr[ring_front + k - 1]
      /\ Len(Pool.cache) = 0 /\ Pool.cache = <<>>
  BY <1>0, <1>1, <1>2, PoolIs
<1>4. /\ q = [k \in 1 .. ring_num - 1 |-> ring_ptr[ring_front + 1 + k - 1]]
      /\ Pool'.cache = Pool.cache /\ Pool'.rear = Pool.rear
      /\ Pool' = [ring |-> q, rear |-> Pool'.rear, cache |-> Pool'.cache]
  BY <1>0 DEF Pool
<1>5. Pool = [ring |-> r, rear |-> Pool.rear, cache |-> Pool.cache]
  BY <1>0, PoolIs
<1> HIDE DEF r
<1>6. q = Tail(r)
  <2>1. Tail(r) = [k \in 1 .. ring_num - 1 |-> r[k + 1]]
    <3>1. /\ Tail(r) \in Seq(Objs) /\ Len(Tail(r)) = ring_num - 1
          /\ \A k \in 1 .. Len(Tail(r)) : Tail(r)[k] = r[k + 1]
      BY <1>3, HeadTailProperties
    <3>2. Tail(r) \in [1 .. ring_num - 1 -> Objs]
      BY <3>1, LenProperties
    <3> QED
      BY <3>1, <3>2
  <2>2. \A k \in 1 .. ring_num - 1 : r[k + 1] = ring_ptr[ring_front + 1 + k - 1]
    <3> TAKE k \in 1 .. ring_num - 1
    <3>1. k + 1 \in 1 .. ring_num /\ ring_front + (k + 1) - 1 = ring_front + 1 + k - 1
      BY <1>1
    <3> QED
      BY <1>3, <3>1
  <2> QED
    BY <1>4, <2>1, <2>2
<1>7. AfterAlloc(Pool) = [Pool EXCEPT !.ring = Tail(r)]
  BY <1>3 DEF AfterAlloc, r
<1>8. Pool' = AfterAlloc(Pool)
  BY <1>4, <1>5, <1>6, <1>7
<1>9. CanAlloc(Pool) /\ AllocIdx(Pool) = ring_front
  <2>1. Head(r) = ring_front
    BY <1>1, <1>3
  <2> QED
    BY <1>3, <2>1 DEF CanAlloc, AllocIdx, r
<1> QED
  BY <1>0, <1>1, <1>8, <1>9 DEF PoolStep

LEMMA PushImplemented ==
  ASSUME MemIInv, MemIInv', NEW b \in held, FreePush(b)
  PROVE  PoolStep
<1> USE PoolAssumption
<1>0. /\ mem_pc = "ready" /\ mem_pc' = "ready"
      /\ UNCHANGED <<ring_ptr, ring_num, ring_front, ring_rear>>
  BY DEF FreePush, ringVars
<1>1. /\ stk_top' = stk_top + 1 /\ stk_top \in -1 .. CACHE_NUM - 2
      /\ stk_ptr'[stk_top + 1] = b
      /\ \A m \in 0 .. stk_top : stk_ptr'[m] = stk_ptr[m]
      /\ b \in Objs
  BY PushAdds DEF MemIInv, MemTypeOK, FreePush, MayPush, Marks
<1> DEFINE c == Pool.cache
           d == Pool'.cache
<1>2. /\ c \in Seq(Objs) /\ Len(c) = stk_top + 1
      /\ \A k \in 1 .. stk_top + 1 : c[k] = stk_ptr[k - 1]
  BY <1>0, PoolIs
<1>3. /\ d = [k \in 1 .. stk_top + 2 |-> stk_ptr'[k - 1]]
      /\ Pool'.ring = Pool.ring /\ Pool'.rear = Pool.rear
      /\ Pool' = [ring |-> Pool'.ring, rear |-> Pool'.rear, cache |-> d]
  BY <1>0, <1>1 DEF Pool
<1>4. /\ Pool = [ring |-> Pool.ring, rear |-> Pool.rear, cache |-> c]
      /\ Pool.rear = POOL_NUM
  BY <1>0, PoolIs
<1> HIDE DEF c
<1>5. d = Append(c, b)
  <2>1. /\ Append(c, b) \in Seq(Objs) /\ Len(Append(c, b)) = stk_top + 2
        /\ \A k \in 1 .. stk_top + 1 : Append(c, b)[k] = c[k]
        /\ Append(c, b)[stk_top + 2] = b
    BY <1>1, <1>2, AppendProperties
  <2>2. Append(c, b) \in [1 .. stk_top + 2 -> Objs]
    BY <2>1, LenProperties
  <2>3. \A k \in 1 .. stk_top + 2 : Append(c, b)[k] = stk_ptr'[k - 1]
    <3> TAKE k \in 1 .. stk_top + 2
    <3>0. stk_top \in Int
      BY DEF MemIInv, MemTypeOK
    <3>1. CASE k = stk_top + 2
      <4>1. k - 1 = stk_top + 1
        BY <3>0, <3>1
      <4> QED
        BY <1>1, <2>1, <3>1, <4>1
    <3>2. CASE k \in 1 .. stk_top + 1
      <4>1. k - 1 \in 0 .. stk_top
        BY <3>0, <3>2
      <4> QED
        BY <1>1, <1>2, <2>1, <3>2, <4>1
    <3>3. k = stk_top + 2 \/ k \in 1 .. stk_top + 1
      BY <3>0
    <3> QED
      BY <3>1, <3>2, <3>3
  <2> QED
    BY <1>3, <2>2, <2>3
<1>6. Cacheable(Pool)
  BY <1>1, <1>2 DEF Cacheable, c
<1>7. AfterFree(Pool, b) = [Pool EXCEPT !.cache = Append(c, b)]
  BY <1>6 DEF AfterFree, c
<1>8. Pool' = AfterFree(Pool, b)
  BY <1>3, <1>4, <1>5, <1>7
<1>9. CanFree(Pool) /\ ~Overrun(AfterFree(Pool, b))
  BY <1>4, <1>6, <1>7 DEF CanFree, Overrun
<1>10. held' = held \ {b}
  BY DEF FreePush
<1> QED
  BY <1>0, <1>8, <1>9, <1>10 DEF PoolStep

LEMMA EnqueueImplemented ==
  ASSUME MemIInv, MemIInv', NEW b \in held, FreeEnqueue(b)
  PROVE  PoolStep
<1> USE PoolAssumption
<1>1. /\ mem_pc = "ready" /\ ring_rear = POOL_NUM /\ POOL_NUM \notin Cells
      /\ ring_num = POOL_NUM - ring_front /\ ring_front \in 0 .. POOL_NUM
      /\ held \subseteq 0 .. ring_front - 1
  BY DEF MemIInv, MemTypeOK, MemInv, FreeEnqueue, Cells
<1>2. ring_num # POOL_NUM
  BY <1>1
<1>3. mem_pc' = "overrun" /\ held' = held \ {b}
  BY <1>1, <1>2 DEF FreeEnqueue, MayEnqueue
<1>4. ~Cacheable(Pool)
  <2>1. Len(Pool.cache) = stk_top + 1 /\ stk_top \in Int /\ stk_top >= -1
    BY <1>1, PoolIs, SMTT(30) DEF MemIInv, MemTypeOK
  <2>2. CACHE_NUM = 0 \/ stk_top = CACHE_NUM - 1
    BY DEF FreeEnqueue, MayPush
  <2> QED
    BY <2>1, <2>2 DEF Cacheable
<1>5. CanFree(Pool) /\ Pool.rear = POOL_NUM
  BY <1>1, <1>2, PoolIs DEF CanFree
<1>6. AfterFree(Pool, b) = [Pool EXCEPT !.ring = Append(@, b), !.rear = @ + 1]
  BY <1>4 DEF AfterFree
<1>7. AfterFree(Pool, b).rear = POOL_NUM + 1
  BY <1>1, <1>5, <1>6, PoolIs
<1>8. Overrun(AfterFree(Pool, b))
  BY <1>7 DEF Overrun
<1> QED
  BY <1>3, <1>5, <1>8 DEF PoolStep

(***************************************************************************)
(* The records on which the models of the programs work are a faithful     *)
(* account of ring and stack (pktbuf_get_put.h:11-49): for every size, and *)
(* whatever order the client frees in.                                     *)
(***************************************************************************)
THEOREM RecordsImplemented == MemSpec => PoolImplemented
<1>1. MemIInv /\ MemIInv' /\ [MemNext]_memVars => [PoolStep]_memVars
  <2> SUFFICES ASSUME MemIInv, MemIInv', MemNext
               PROVE  PoolStep
    OBVIOUS
  <2>1. CASE AllocExit
    <3>1. mem_pc = "ready" /\ mem_pc' = "exited" /\ UNCHANGED held
      BY <2>1 DEF AllocExit
    <3>2. ring_num = 0
      BY <2>1, PoolAssumption DEF AllocExit, MayDequeue, MemIInv, MemTypeOK
    <3>3. stk_top = -1
      BY <2>1, PoolAssumption DEF AllocExit, MayPop, MemIInv, MemTypeOK
    <3>4. Len(Pool.cache) = 0 /\ Len(Pool.ring) = 0
      BY <3>1, <3>2, <3>3, PoolIs
    <3>5. ~CanAlloc(Pool)
      BY <3>1, <3>4, PoolIs DEF CanAlloc
    <3> QED
      BY <3>1, <3>5 DEF PoolStep
  <2> QED
    BY <2>1, PopImplemented, DequeueImplemented, PushImplemented, EnqueueImplemented DEF MemNext
<1> QED
  BY <1>1, MemInitInv, MemNextInv, PTL DEF MemSpec, PoolImplemented
-----------------------------------------------------------------------------
LEMMA FreeIs ==
  ASSUME MemIInv
  PROVE  FreeObjs = Objs \ held
<1>1. CASE mem_pc = "overrun"
  BY <1>1 DEF FreeObjs
<1>2. CASE mem_pc # "overrun"
  <2>1. /\ ring_front \in 0 .. POOL_NUM /\ POOL_NUM \in Nat
        /\ Cached \cup held = 0 .. ring_front - 1 /\ Cached \cap held = {}
    BY <1>2, PoolAssumption DEF MemIInv, MemTypeOK, MemInv
  <2>2. Objs = (ring_front .. POOL_NUM - 1) \cup (0 .. ring_front - 1)
    BY <2>1 DEF Objs
  <2>3. (ring_front .. POOL_NUM - 1) \cap (0 .. ring_front - 1) = {}
    BY <2>1
  <2>4. FreeObjs = (ring_front .. POOL_NUM - 1) \cup Cached
    BY <1>2, QueuedIs DEF FreeObjs
  <2> QED
    BY <2>1, <2>2, <2>3, <2>4
<1> QED
  BY <1>1, <1>2

(***************************************************************************)
(* The pool keeps the promises of Allocator: an object that is handed out  *)
(* was free, one that is freed can be handed out again, and alloc_pktbuf   *)
(* gives up (pktbuf_get_put.h:24) only when everything is in use.          *)
(***************************************************************************)
THEOREM PoolIsAllocator == MemSpec => AllocatorImplemented
<1> USE PoolAssumption
<1>1. MemInit => Abstract!AllocInit
  <2> SUFFICES ASSUME MemInit
               PROVE  Abstract!AllocInit
    OBVIOUS
  <2>1. FreeObjs = Objs \ held /\ held = {} /\ mem_pc = "ready"
    BY MemInitInv, FreeIs DEF MemInit
  <2> QED
    BY <2>1 DEF Abstract!AllocInit
<1>2. MemIInv => FreeObjs = Objs \ held
  BY FreeIs
<1>3. MemIInv /\ MemIInv' /\ FreeObjs = Objs \ held /\ (FreeObjs = Objs \ held)' /\ [MemNext]_memVars
        => [Abstract!AllocNext]_(Abstract!allocVars)
  <2> SUFFICES ASSUME MemIInv, MemIInv', FreeObjs = Objs \ held, FreeObjs' = Objs \ held',
                      [MemNext]_memVars
               PROVE  [Abstract!AllocNext]_(Abstract!allocVars)
    OBVIOUS
  <2> USE DEF Abstract!AllocNext, Abstract!allocVars
  <2>1. CASE AllocPop
    <3>1. stk_ptr[stk_top] \in Cached /\ Cached \subseteq FreeObjs
      BY <2>1, PopTakes DEF AllocPop, FreeObjs
    <3> DEFINE b == stk_ptr[stk_top]
    <3>2. b \in FreeObjs /\ held' = held \cup {b} /\ mem_pc = "ready" /\ mem_pc' = "ready"
      BY <2>1, <3>1 DEF AllocPop
    <3> HIDE DEF b
    <3>3. Abstract!AllocOne
      BY <3>2 DEF Abstract!AllocOne
    <3> QED
      BY <3>3
  <2>2. CASE AllocDequeue
    <3> DEFINE b == ring_ptr[ring_front]
    <3>1. b \in FreeObjs
      <4>1. ring_front \in ring_front .. ring_front + ring_num - 1
        BY <2>2 DEF AllocDequeue, MayDequeue, MemIInv, MemTypeOK
      <4> QED
        BY <2>2, <4>1 DEF FreeObjs, Queued, AllocDequeue
    <3>2. held' = held \cup {b} /\ mem_pc = "ready" /\ mem_pc' = "ready"
      BY <2>2 DEF AllocDequeue
    <3> HIDE DEF b
    <3>3. Abstract!AllocOne
      BY <3>1, <3>2 DEF Abstract!AllocOne
    <3> QED
      BY <3>3
  <2>3. CASE AllocExit
    <3>1. mem_pc = "ready" /\ mem_pc' = "exited" /\ UNCHANGED held
      BY <2>3 DEF AllocExit
    <3>2. stk_top = -1 /\ ring_num = 0 /\ ring_front \in Nat
      BY <2>3 DEF AllocExit, MayPop, MayDequeue, MemIInv, MemTypeOK
    <3>3. Queued = {} /\ Cached = {}
      BY <3>2 DEF Queued, Cached
    <3>4. Abstract!Exit
      BY <3>1, <3>3 DEF Abstract!Exit, FreeObjs
    <3> QED
      BY <3>4
  <2>4. ASSUME NEW b \in held, FreePush(b)
        PROVE  Abstract!AllocNext
    <3>1. Abstract!FreeOne
      BY <2>4 DEF Abstract!FreeOne, FreePush, MemIInv, MemTypeOK
    <3> QED
      BY <3>1
  <2>5. ASSUME NEW b \in held, FreeEnqueue(b)
        PROVE  Abstract!AllocNext
    <3>1. /\ mem_pc = "ready" /\ ring_rear = POOL_NUM /\ ring_num # POOL_NUM
          /\ POOL_NUM \notin Cells
      BY <2>5 DEF MemIInv, MemTypeOK, MemInv, FreeEnqueue, Cells
    <3>2. mem_pc' = "overrun" /\ held' = held \ {b}
      BY <2>5, <3>1 DEF FreeEnqueue, MayEnqueue
    <3>3. Abstract!FreeOne
      BY <3>1, <3>2 DEF Abstract!FreeOne, MemIInv, MemTypeOK
    <3> QED
      BY <3>3
  <2>6. CASE UNCHANGED memVars
    BY <2>6 DEF memVars
  <2> QED
    BY <2>1, <2>2, <2>3, <2>4, <2>5, <2>6 DEF MemNext
<1> QED
  BY <1>1, <1>2, <1>3, MemInitInv, MemNextInv, PTL DEF MemSpec, AllocatorImplemented, Abstract!AllocSpec
=============================================================================
