----------------------------- MODULE MCStructures -----------------------------
(***************************************************************************)
(* The structures without liveness for TLC: the lists of a timer wheel that  *)
(* two clients fill and cancel on, the ring buffer, the two free lists and   *)
(* the page pool.  part says which of them a behaviour is about; the others  *)
(* keep an initial state.                                                   *)
(***************************************************************************)
EXTENDS TimerWheel

CONSTANTS Bits, Sizes, Bytes, Garbage, MaxRequest,                           \* RingBuffer
          m_iNumObjects,                                                    \* TFreeList
          m_sTrunkCount, MaxChunks,                                         \* CAllocator
          MP_ALIGNMENT, MP_MAX_ALLOC_FROM_POOL, MaxFailed, SizeRange, PoolSizes,
          Requests, MaxPages, Larges                                        \* PagePool

\* Chunks have blocks.
ASSUME FreeListsAssumption == /\ m_iNumObjects \in Nat
                              /\ m_sTrunkCount \in Nat \ {0} /\ MaxChunks \in Nat

\* What the page pool is built and asked with, and that no large block is NULL.
ASSUME PagesAssumption == /\ MP_ALIGNMENT \in Nat \ {0} /\ MP_MAX_ALLOC_FROM_POOL \in Nat
                          /\ MaxFailed \in Nat
                          /\ PoolSizes \subseteq Nat /\ Requests \subseteq Nat
                          /\ "NULL" \notin Larges

VARIABLES buf, size, read_pos, write_pos, src, dst, ret,
          m_ppFreeObjects, m_iTop, users, m_FreePosi, next, chunks, blockUsers, noMemory,
          max, pages, current, large, blocks, malloced, crashed, part

ringVars == <<buf, size, read_pos, write_pos, src, dst, ret>>
listVars == <<m_ppFreeObjects, m_iTop, users>>
allocVars == <<m_FreePosi, next, chunks, blockUsers, noMemory>>
pageVars == <<max, pages, current, large, blocks, malloced, crashed>>
allVars == <<vars, ringVars, listVars, allocVars, pageVars, part>>

Ring == INSTANCE RingBuffer
FreeList == INSTANCE TFreeList
Allocator == INSTANCE CAllocator WITH users <- blockUsers, crashed <- noMemory
Pages == INSTANCE PagePool

\* The sizes are powers of two that the range of a position holds, so they divide it.
ASSUME SizesAssumption ==
  /\ Bits \in Nat \ {0}
  /\ \A sz \in Sizes : \E n \in 0 .. Bits - 1 : sz = 2 ^ n
ASSUME RangeAssumption ==
  /\ Ring!Range32 \in Nat /\ Ring!Range32 > 2
  /\ \A sz \in Sizes : sz \in Nat \ {0} /\ \E k \in 2 .. Ring!Range32 : Ring!Range32 = sz * k
ASSUME GarbageAssumption == Garbage \notin Bytes
ASSUME RequestAssumption == MaxRequest \in 0 .. Ring!Range32 - 1

\* Neither the wheel nor the ring buffer prefers a node or a byte to another.
Symmetry == Permutations(Nodes) \cup Permutations(Bytes)

PartsInit == /\ part \in {"wheel", "ring", "list", "allocator", "pages"}
             /\ Init /\ Ring!Init /\ (part # "ring" => size = CHOOSE sz \in Sizes : TRUE)
             /\ FreeList!Init /\ Allocator!Init /\ Pages!Init

WheelStep == /\ part = "wheel" /\ Next
             /\ UNCHANGED <<ringVars, listVars, allocVars, pageVars, part>>
RingStep == /\ part = "ring" /\ Ring!Next
            /\ UNCHANGED <<vars, listVars, allocVars, pageVars, part>>
ListStep == /\ part = "list" /\ FreeList!Next
            /\ UNCHANGED <<vars, ringVars, allocVars, pageVars, part>>
AllocatorStep == /\ part = "allocator" /\ Allocator!Next
                 /\ UNCHANGED <<vars, ringVars, listVars, pageVars, part>>
PagesStep == /\ part = "pages" /\ Pages!Next
             /\ UNCHANGED <<vars, ringVars, listVars, allocVars, part>>

\* A pool with all the pages and large blocks there are may have nothing to do, and
\* a program that has crashed has not.
Stopped == part \in {"pages", "allocator"} /\ UNCHANGED allVars

PartsSpec == /\ PartsInit
             /\ [][\/ WheelStep \/ RingStep \/ ListStep \/ AllocatorStep \/ PagesStep
                   \/ Stopped]_allVars

-----------------------------------------------------------------------------
\* What is read from the ring buffer is what was written (ringbuffer.c:3-85).
ImplementsQueue == Ring!ImplementsQueue

\* Neither free list loses an object or has one twice (TFreeList.h:19-117,
\* page_pool.cpp:16-67).
FreeListsWhole == FreeList!EachObjectOnce /\ Allocator!FreeListWhole

\* Both are object pools: an object has one user at a time (TFreeList.h:67-92,
\* page_pool.cpp:16-67).
FreeListsArePools == FreeList!ImplementsObjectPool /\ Allocator!ImplementsObjectPool

\* No two blocks of the page pool overlap, none lies on a descriptor, and every large
\* block has one descriptor until it is freed (ngx_page_pool.h:75-318).
PagesWhole == Pages!BlocksApart /\ Pages!LargeBlocksOwned
===============================================================================
