------------------------------- MODULE MemPool ------------------------------
(***************************************************************************)
(* A memobj_pool (lib/common/memobj.h) with the pktbuf allocator on it     *)
(* (lib/mbuf/common/pktbuf_get_put.h).  A pool is private to one process.  *)
(* It hands out indices: the last one freed that the LIFO cache holds, or  *)
(* else the head of the ring.  The ring never wraps: front and rear only   *)
(* grow, so the sequence between them and the position of rear are its     *)
(* whole state (num is the length of the sequence, front is rear - num).   *)
(***************************************************************************)
EXTENDS Integers, Sequences

CONSTANTS
  POOL_NUM,    \* memobj_num: PKTBUF_NUM, or MDBUF_NUM for a metadata pool
  CACHE_NUM    \* the option --mobjcache

ASSUME PoolAssumption == POOL_NUM \in Nat \ {0} /\ CACHE_NUM \in Nat

Objs == 0 .. POOL_NUM - 1

\* init_mpool fills the ring with every index and leaves the cache empty.
InitPool(taken) ==
  [ring  |-> [k \in 1 .. POOL_NUM - taken |-> taken + k - 1],
   rear  |-> POOL_NUM,
   cache |-> <<>>]

\* alloc_pktbuf: a pop, then a dequeue, then exit(EXIT_FAILURE).
CanAlloc(p) == p.cache # <<>> \/ p.ring # <<>>
AllocIdx(p) == IF p.cache # <<>> THEN p.cache[Len(p.cache)] ELSE Head(p.ring)

\* Mutant: the index that was popped stays on the stack.
AfterAllocKept(p) == IF p.cache # <<>> THEN p ELSE [p EXCEPT !.ring = Tail(@)]

AfterAlloc(p) ==
  IF p.cache # <<>>
    THEN [p EXCEPT !.cache = SubSeq(@, 1, Len(@) - 1)]
    ELSE [p EXCEPT !.ring = Tail(@)]

\* Mutant: the stack is full one object too early.
CacheableShort(p) == Len(p.cache) + 1 < CACHE_NUM

(***************************************************************************)
(* free_pktbuf: a push, or an enqueue into the ring when the cache is full.*)
(* The enqueue stores at ptr[rear++]; it is refused when num = max, but    *)
(* nothing compares rear with the end of the array.                        *)
(***************************************************************************)
Cacheable(p) == Len(p.cache) < CACHE_NUM
CanFree(p) == Cacheable(p) \/ Len(p.ring) # POOL_NUM

\* Mutant: index 0 is taken for an invalid one.
AfterFreeNotZero(p, b) ==
  IF b > 0 /\ Cacheable(p) THEN [p EXCEPT !.cache = Append(@, b)] ELSE p

AfterFree(p, b) ==
  IF Cacheable(p)
    THEN [p EXCEPT !.cache = Append(@, b)]
    ELSE [p EXCEPT !.ring = Append(@, b), !.rear = @ + 1]

\* A store went past the end of ring->ptr: undefined behaviour from here on.
Overrun(p) == p.rear > POOL_NUM
=============================================================================
