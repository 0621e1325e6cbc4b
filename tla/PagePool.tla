-------------------------------- MODULE PagePool --------------------------------
(***************************************************************************)
(* The page pool of memory_pool/ngx_page_pool.h: small blocks cut from pages *)
(* in a list, and large blocks of malloc kept in a list of descriptors that  *)
(* are small blocks themselves.  One thread uses it.                        *)
(*                                                                          *)
(* Sizes and places are in words of 8 bytes, places from the start of their  *)
(* page, which posix_memalign aligns.  mp_create_pool leaves head->next      *)
(* unwritten; the pages it gets here are fresh ones, which hold zeros.       *)
(***************************************************************************)
EXTENDS Integers, Sequences, FiniteSets

CONSTANTS MP_ALIGNMENT,            \* 4 words in the code
          MP_MAX_ALLOC_FROM_POOL,
          MaxFailed,               \* 4 in the code: how often a page may fail
          SizeRange,               \* the range of size_t
          PoolSizes,               \* the sizes given to mp_create_pool
          Requests,                \* bound: the sizes given to the allocators
          MaxPages,                \* bound: the pages posix_memalign can give
          Larges                   \* the blocks malloc can give

PoolHeader == 3    \* sizeof(struct mp_pool_s), which ends in the head node
NodeHeader == 4    \* sizeof(struct mp_node_s)
Descriptor == 2    \* sizeof(struct mp_large_s)
NULL == "NULL"

VARIABLES max,
          pages,    \* the nodes from pool->head on, each with last, end and failed
          current,  \* the place of pool->current among them
          large,    \* the alloc fields of the descriptors from pool->large on
          blocks,   \* the small blocks in use: page, first word and size
          malloced, \* the large blocks that are not freed
          crashed   \* the stack has overflowed

vars == <<max, pages, current, large, blocks, malloced, crashed>>

\* A block cut beyond the end of its page writes over what is not the pool's:
\* the model stops there.
overrun == \E n \in DOMAIN pages : pages[n].last > pages[n].end

alive == pages # <<>> /\ ~overrun /\ ~crashed

\* Where the space of the nth page begins.
Start(n) == IF n = 1 THEN PoolHeader + NodeHeader ELSE NodeHeader

Created(size) == <<[last |-> Start(1), end |-> Start(1) + size, failed |-> 0]>>
MaxOf(size) == IF size < MP_MAX_ALLOC_FROM_POOL THEN size ELSE MP_MAX_ALLOC_FROM_POOL

Init == \E size \in PoolSizes :
          /\ max = MaxOf(size) /\ pages = Created(size) /\ current = 1
          /\ large = <<>> /\ blocks = {} /\ malloced = {} /\ crashed = FALSE

mp_create_pool(size) == /\ pages = <<>>
                        /\ max' = MaxOf(size) /\ pages' = Created(size) /\ current' = 1
                        /\ UNCHANGED <<large, blocks, malloced, crashed>>

-----------------------------------------------------------------------------
(* Small blocks                                                             *)

mp_align(place) == ((place + MP_ALIGNMENT - 1) \div MP_ALIGNMENT) * MP_ALIGNMENT

\* Where mp_alloc (aligned) or mp_nalloc would cut a block from page n.
Place(n, aligned) == IF aligned THEN mp_align(pages[n].last) ELSE pages[n].last

\* The room left is a difference of pointers taken as a size_t.
Room(n, place) == (pages[n].end - place) % SizeRange

\* The pages from current on with room for the block.
Roomy(size, aligned) ==
  {n \in current .. Len(pages) : Room(n, Place(n, aligned)) >= size}

\* A block of this size is cut from page n at place.
Cut(n, place, size) ==
  /\ pages' = [pages EXCEPT ![n].last = place + size]
  /\ blocks' = blocks \cup {[page |-> n, first |-> place, size |-> size]}
  /\ UNCHANGED current

\* The pages the loop of mp_alloc_block passes: all from current on but the last.
Passed == current .. Len(pages) - 1

\* Slip: a page is given up one failure too early.
TiredEarly(n) == pages[n].failed >= MaxFailed

\* Page n has failed often enough to be given up with its next failure.
Tired(n) == pages[n].failed > MaxFailed

\* mp_alloc_block: a new page, with the block at its start.  A page that failed
\* too often is given up: current becomes the page after the last such page.
mp_alloc_block(size) ==
  LET place == mp_align(NodeHeader)
      tired == {n \in Passed : Tired(n)}
      counted == [n \in DOMAIN pages |->
                    IF n \in Passed THEN [pages[n] EXCEPT !.failed = @ + 1] ELSE pages[n]]
      psize == pages[1].end - PoolHeader
  IN /\ Len(pages) < MaxPages
     /\ pages' = Append(counted, [last |-> place + size, end |-> psize, failed |-> 0])
     /\ blocks' = blocks \cup {[page |-> Len(pages) + 1, first |-> place, size |-> size]}
     /\ current' = IF tired = {} THEN current
                   ELSE 1 + CHOOSE n \in tired : \A o \in tired : o <= n

\* A small block from the first page that has room, or else from a new one.
Small(size, aligned) ==
  \E roomy \in {Roomy(size, aligned)} :
    IF roomy = {} THEN mp_alloc_block(size)
    ELSE LET n == CHOOSE n \in roomy : \A o \in roomy : n <= o
         IN Cut(n, Place(n, aligned), size)

\* mp_alloc and mp_nalloc of a small block; mp_calloc also clears it.  Only
\* mp_alloc refuses to cut a block of no bytes.
AllocSmall(size, aligned) == /\ alive
                             /\ size <= max
                             /\ aligned => size > 0
                             /\ Small(size, aligned)
                             /\ UNCHANGED <<max, large, malloced, crashed>>

-----------------------------------------------------------------------------
(* Large blocks                                                             *)

\* The first descriptor whose block was freed; mp_alloc_large tries five.
Vacant == {k \in 1 .. Len(large) : k <= 5 /\ large[k] = NULL}

\* The block p gets a new descriptor, which mp_alloc cuts.  Where a descriptor is
\* no small block, mp_alloc and mp_alloc_large call each other: at each depth one
\* more descriptor is malloced, until malloc fails and all of them and p are freed
\* again, or the stack overflows.
Describe(p) ==
  IF Descriptor <= max
  THEN /\ Small(Descriptor, TRUE)
       /\ large' = <<p>> \o large
       /\ malloced' = malloced \cup {p}
       /\ UNCHANGED crashed
  ELSE /\ crashed' \in BOOLEAN
       /\ UNCHANGED <<pages, current, large, blocks, malloced>>

\* mp_alloc_large, of a block p: in a vacant descriptor, or in a new one.
mp_alloc_large(p) ==
  \/ /\ Vacant # {}
     /\ large' = [large EXCEPT ![CHOOSE k \in Vacant : \A o \in Vacant : k <= o] = p]
     /\ malloced' = malloced \cup {p}
     /\ UNCHANGED <<pages, current, blocks, crashed>>
  \/ Vacant = {} /\ Describe(p)

AllocLarge(size, p) == /\ alive
                       /\ size > max
                       /\ p \in Larges \ malloced
                       /\ mp_alloc_large(p)
                       /\ UNCHANGED max

\* mp_memalign takes a new descriptor always.
mp_memalign(p) == /\ alive
                  /\ p \in Larges \ malloced
                  /\ Describe(p)
                  /\ UNCHANGED max

\* mp_free of a large block; of a small one it does nothing.
mp_free(p) == /\ alive
              /\ \E k \in DOMAIN large :
                   /\ large[k] = p
                   /\ \A j \in 1 .. k - 1 : large[j] # p
                   /\ large' = [large EXCEPT ![k] = NULL]
              /\ malloced' = malloced \ {p}
              /\ UNCHANGED <<max, pages, current, blocks, crashed>>

-----------------------------------------------------------------------------
Pointed == {large[k] : k \in DOMAIN large} \ {NULL}

NoDescriptors == <<>>

\* Every block is given up, and the pages are kept; current and failed stay.
mp_reset_pool == /\ alive
                 /\ malloced' = malloced \ Pointed
                 /\ large' = NoDescriptors
                 /\ pages' = [n \in DOMAIN pages |-> [pages[n] EXCEPT !.last = Start(n)]]
                 /\ blocks' = {}
                 /\ UNCHANGED <<max, current, crashed>>

mp_destory_pool == /\ alive
                   /\ malloced' = malloced \ Pointed
                   /\ large' = <<>> /\ pages' = <<>> /\ blocks' = {} /\ current' = 0
                   /\ max' = 0
                   /\ UNCHANGED crashed

Next == \/ \E size \in PoolSizes : mp_create_pool(size)
        \/ \E size \in Requests, aligned \in BOOLEAN : AllocSmall(size, aligned)
        \/ \E size \in Requests, p \in Larges : AllocLarge(size, p)
        \/ \E p \in Larges : mp_memalign(p) \/ mp_free(p)
        \/ mp_reset_pool
        \/ mp_destory_pool

Spec == Init /\ [][Next]_vars

-----------------------------------------------------------------------------
(* Properties                                                               *)

Words(b) == b.first .. b.first + b.size - 1

\* No word is in two blocks or in a block and a header, whatever was given up,
\* reset and cut again; pool->current is one of the pages, and each one before it
\* had failed as often as it takes when it was given up.
BlocksApart ==
  /\ max \in 0 .. MP_MAX_ALLOC_FROM_POOL
  /\ current \in DOMAIN pages \/ pages = <<>>
  /\ \A n \in 1 .. current - 1 : pages[n].failed > MaxFailed + 1
  /\ \A b \in blocks : b.page \in DOMAIN pages /\ b.first >= Start(b.page)
  /\ \A b, c \in blocks : b # c /\ b.page = c.page => Words(b) \cap Words(c) = {}

\* Every large block that was not freed has one descriptor, and no descriptor has
\* another: mp_free, mp_reset_pool and mp_destory_pool free each block once, and
\* none outlives the pool.
LargeBlocksOwned ==
  /\ Pointed = malloced
  /\ \A j, k \in DOMAIN large : large[j] # NULL /\ large[j] = large[k] => j = k

\* The comment in mp_alloc says that a block is cut from a page that still has
\* the room for it.
BlocksInPages == \A b \in blocks : b.first + b.size <= pages[b.page].end
=================================================================================
