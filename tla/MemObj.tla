------------------------------- MODULE MemObj -------------------------------
(***************************************************************************)
(* The memory of a memobj_pool: the array of the ring (lib/common/ring.h)  *)
(* and of the stack that caches the objects freed last (lib/common/        *)
(* stack.h), used by alloc_pktbuf and free_pktbuf.  The client frees what  *)
(* it holds, in any order.                                                 *)
(*                                                                         *)
(* mem_pc: "ready", "exited" after exit(EXIT_FAILURE) in alloc_pktbuf or   *)
(* free_pktbuf, "overrun" once enqueue has stored past the end of          *)
(* ring->ptr, after which the heap may hold anything.                      *)
(***************************************************************************)
EXTENDS MemPool, FiniteSets

VARIABLES
  ring_ptr, ring_num, ring_front, ring_rear,   \* struct ring_buf
  stk_ptr, stk_top,                            \* struct stack
  held,                                        \* what the client has allocated
  mem_pc

ringVars == <<ring_ptr, ring_num, ring_front, ring_rear>>
stkVars  == <<stk_ptr, stk_top>>
memVars  == <<ringVars, stkVars, held, mem_pc>>

Cells == 0 .. POOL_NUM - 1          \* of ring->ptr
Marks == 0 .. CACHE_NUM - 1         \* of stk->ptr

\* init_mpool: the ring filled with every index, an empty stack of -1s.
MemInit ==
  /\ ring_ptr = [c \in Cells |-> c]
  /\ ring_num = POOL_NUM
  /\ ring_front = 0
  /\ ring_rear = POOL_NUM
  /\ stk_ptr = [m \in Marks |-> -1]
  /\ stk_top = -1
  /\ held = {}
  /\ mem_pc = "ready"

MayPop     == ~(stk_top = -1 \/ CACHE_NUM = 0)
\* Mutant: the stack is full one object too late.
MayPushPast == ~(CACHE_NUM = 0 \/ stk_top = CACHE_NUM)

\* Mutant: the stack is full one object too early.
MayPushShort == ~(CACHE_NUM = 0 \/ stk_top >= CACHE_NUM - 2)

MayPush    == ~(CACHE_NUM = 0 \/ stk_top = CACHE_NUM - 1)
MayDequeue == ring_num > 0
MayEnqueue == ring_num # POOL_NUM

AllocPop ==
  /\ mem_pc = "ready"
  /\ MayPop
  /\ stk_top' = stk_top - 1
  /\ held' = held \cup {stk_ptr[stk_top]}
  /\ UNCHANGED <<ringVars, stk_ptr, mem_pc>>

\* Mutant: num is not counted down.
AllocDequeueUncounted ==
  /\ mem_pc = "ready"
  /\ ~MayPop
  /\ MayDequeue
  /\ ring_front < POOL_NUM
  /\ ring_front' = ring_front + 1
  /\ held' = held \cup {ring_ptr[ring_front]}
  /\ UNCHANGED <<ring_num, ring_ptr, ring_rear, stkVars, mem_pc>>

\* Mutant: front stays where it is.
AllocDequeueStay ==
  /\ mem_pc = "ready"
  /\ ~MayPop
  /\ MayDequeue
  /\ ring_num' = ring_num - 1
  /\ held' = held \cup {ring_ptr[ring_front]}
  /\ UNCHANGED <<ring_front, ring_ptr, ring_rear, stkVars, mem_pc>>

AllocDequeue ==
  /\ mem_pc = "ready"
  /\ ~MayPop
  /\ MayDequeue
  /\ ring_front' = ring_front + 1
  /\ ring_num' = ring_num - 1
  /\ held' = held \cup {ring_ptr[ring_front]}
  /\ UNCHANGED <<ring_ptr, ring_rear, stkVars, mem_pc>>

AllocExit ==
  /\ mem_pc = "ready"
  /\ ~MayPop
  /\ ~MayDequeue
  /\ mem_pc' = "exited"
  /\ UNCHANGED <<ringVars, stkVars, held>>

FreePush(b) ==
  /\ mem_pc = "ready"
  /\ MayPush
  /\ stk_top' = stk_top + 1
  /\ stk_ptr' = [stk_ptr EXCEPT ![stk_top + 1] = b]
  /\ held' = held \ {b}
  /\ UNCHANGED <<ringVars, mem_pc>>

\* The store ptr[rear++] is compared with num only, never with the array's end.
FreeEnqueue(b) ==
  /\ mem_pc = "ready"
  /\ ~MayPush
  /\ IF ~MayEnqueue
       THEN mem_pc' = "exited" /\ UNCHANGED <<ringVars, held>>
     ELSE /\ ring_rear' = ring_rear + 1
          /\ ring_num' = ring_num + 1
          /\ held' = held \ {b}
          /\ IF ring_rear \in Cells
               THEN ring_ptr' = [ring_ptr EXCEPT ![ring_rear] = b] /\ UNCHANGED mem_pc
               ELSE mem_pc' = "overrun" /\ UNCHANGED ring_ptr
          /\ UNCHANGED ring_front
  /\ UNCHANGED stkVars

MemNext ==
  \/ AllocPop
  \/ AllocDequeue
  \/ AllocExit
  \/ \E b \in held : FreePush(b)
  \/ \E b \in held : FreeEnqueue(b)

MemSpec == MemInit /\ [][MemNext]_memVars
-----------------------------------------------------------------------------
MemTypeOK ==
  /\ ring_ptr \in [Cells -> Objs]
  /\ ring_num \in 0 .. POOL_NUM
  /\ ring_front \in 0 .. POOL_NUM
  /\ ring_rear \in POOL_NUM .. POOL_NUM + 1
  /\ stk_ptr \in [Marks -> Objs \cup {-1}]
  /\ stk_top \in -1 .. CACHE_NUM - 1
  /\ held \subseteq Objs
  /\ mem_pc \in {"ready", "exited", "overrun"}

Queued == {ring_ptr[c] : c \in ring_front .. ring_front + ring_num - 1}
Cached == {stk_ptr[m] : m \in 0 .. stk_top}

(***************************************************************************)
(* Until a store goes past the ring, every object is in the ring, in the   *)
(* cache or held by the client, once: front, rear, num and top stay        *)
(* consistent although ring and stack are advanced independently           *)
(* (ring.h:41, 53, stack.h:38, 48).                                        *)
(***************************************************************************)
EveryObjectOnce ==
  mem_pc # "overrun" =>
    /\ ring_front + ring_num = ring_rear
    /\ Queued \cup Cached \cup held = Objs
    /\ ring_num + (stk_top + 1) + Cardinality(held) = POOL_NUM

(***************************************************************************)
(* The inductive form of EveryObjectOnce: nothing that is freed gets into  *)
(* the ring.  Its cells are what init_mpool wrote into them (memobj.h:35), *)
(* front runs up to rear, which stays at the end, and what front has       *)
(* passed is cached or held, never both and never cached twice.            *)
(***************************************************************************)
MemInv ==
  mem_pc # "overrun" =>
    /\ ring_ptr = [c \in Cells |-> c]
    /\ ring_rear = POOL_NUM /\ ring_num = POOL_NUM - ring_front
    /\ Cached \cup held = 0 .. ring_front - 1
    /\ Cached \cap held = {}
    /\ \A m, n \in 0 .. stk_top : stk_ptr[m] = stk_ptr[n] => m = n

\* The pool as the record that the other modules use.
Pool == [ring  |-> [k \in 1 .. ring_num |-> ring_ptr[ring_front + k - 1]],
         rear  |-> ring_rear,
         cache |-> [k \in 1 .. stk_top + 1 |-> stk_ptr[k - 1]]]

(***************************************************************************)
(* The record operators of MemPool are what the two arrays do: an          *)
(* allocation takes the object they name (pktbuf_get_put.h:12), a free     *)
(* leaves the pool they describe (:34), and both fail or run past the ring *)
(* when the operators say so.                                              *)
(***************************************************************************)
PoolStep ==
  /\ held \subseteq held' /\ mem_pc' = "ready" =>
       /\ CanAlloc(Pool)
       /\ held' = held \cup {AllocIdx(Pool)}
       /\ Pool' = AfterAlloc(Pool)
  /\ held = held' => mem_pc' = "exited" /\ ~CanAlloc(Pool)
  /\ \A b \in held \ held' :
       /\ CanFree(Pool)
       /\ mem_pc' = "overrun" <=> Overrun(AfterFree(Pool, b))
       /\ mem_pc' = "ready" => Pool' = AfterFree(Pool, b)

\* Every step of the arrays is the step of the record (pktbuf_get_put.h:12-49).
PoolImplemented == [][PoolStep]_memVars

FreeObjs == IF mem_pc = "overrun" THEN Objs \ held ELSE Queued \cup Cached

Abstract == INSTANCE Allocator WITH
  Objects <- Objs,
  free    <- FreeObjs,
  exited  <- mem_pc = "exited"

(***************************************************************************)
(* The pool implements the allocator its client relies on: no object is    *)
(* handed out while it is in use, and alloc_pktbuf exits only when none is *)
(* left, although it looks in the cache first and in the ring second.  The *)
(* store past the ring counts as the free it was meant to be; what comes   *)
(* after it is not modelled and nothing is said of it.                     *)
(***************************************************************************)
AllocatorImplemented == Abstract!AllocSpec
=============================================================================
