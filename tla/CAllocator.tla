------------------------------- MODULE CAllocator -------------------------------
(***************************************************************************)
(* The class allocator of memory_pool/page_pool.cpp: blocks carved from      *)
(* chunks that are never freed, linked through their own first bytes while   *)
(* they are free.  All objects have the size of the class it is declared in. *)
(***************************************************************************)
EXTENDS Integers, FiniteSets

CONSTANTS m_sTrunkCount,  \* how many blocks a chunk has
          MaxChunks       \* bound: how many chunks malloc gives

Blocks == 0 .. m_sTrunkCount * MaxChunks - 1
NULL   == -1
Object == -2    \* the bytes of an object, where a free block has its pointer

VARIABLES m_FreePosi,
          next,    \* next[b]: the first bytes of block b
          chunks,  \* how many chunks there are
          users,   \* users[b]: how many users have block b for an object
          crashed  \* NULL has been dereferenced

vars == <<m_FreePosi, next, chunks, users, crashed>>

Init == /\ m_FreePosi = NULL /\ chunks = 0 /\ users = [b \in Blocks |-> 0]
        /\ next = [b \in Blocks |-> Object] /\ crashed = FALSE

First == chunks * m_sTrunkCount

\* The blocks of a new chunk, each linked to the one after it.
Linked == [b \in Blocks |-> IF b \in First .. First + m_sTrunkCount - 2 THEN b + 1
                            ELSE IF b = First + m_sTrunkCount - 1 THEN NULL ELSE next[b]]

\* Slip: the list goes on at the block that was taken.
SameBlock(b, links) == b

Following(b, links) == links[b]

\* The object is built in block b, and the list goes on at the block after it.
Take(b, links) == /\ m_FreePosi' = Following(b, links)
                  /\ next' = [links EXCEPT ![b] = Object]
                  /\ users' = [users EXCEPT ![b] = @ + 1]

\* The result of malloc is not looked at: if there is none, the links or the first
\* block are written and read at NULL.
allocate == /\ ~crashed
            /\ \/ /\ m_FreePosi = NULL
                  /\ chunks < MaxChunks
                  /\ Take(First, Linked)
                  /\ chunks' = chunks + 1
                  /\ UNCHANGED crashed
               \/ /\ m_FreePosi = NULL
                  /\ crashed' = TRUE
                  /\ UNCHANGED <<m_FreePosi, next, chunks, users>>
               \/ /\ m_FreePosi # NULL
                  /\ Take(m_FreePosi, next)
                  /\ UNCHANGED <<chunks, crashed>>

LinkBack(b) == [next EXCEPT ![b] = m_FreePosi]

deallocate(b) == /\ ~crashed
                 /\ users[b] > 0
                 /\ next' = LinkBack(b)
                 /\ m_FreePosi' = b
                 /\ users' = [users EXCEPT ![b] = @ - 1]
                 /\ UNCHANGED <<chunks, crashed>>

Next == allocate \/ \E b \in Blocks : deallocate(b)

Spec == Init /\ [][Next]_vars

-----------------------------------------------------------------------------
(* Properties                                                               *)

\* The blocks of the free list: the first, and with a block the one it links to.
Followed(S) == /\ m_FreePosi \in Blocks => m_FreePosi \in S
               /\ \A b \in S : next[b] \in Blocks => next[b] \in S
FreeBlocks == {b \in Blocks : \A S \in SUBSET Blocks : Followed(S) => b \in S}

\* The free list leads through every block of every chunk that holds no object,
\* and never through one that does: no block is lost, and no object is taken for
\* a link although both are kept in the same bytes.
FreeListWhole ==
  /\ m_FreePosi \in Blocks \cup {NULL}
  /\ FreeBlocks = {b \in 0 .. First - 1 : users[b] = 0}
  /\ \A b \in FreeBlocks : next[b] # Object

OP == INSTANCE ObjectPool WITH Objects <- Blocks

\* The allocator is an object pool.
ImplementsObjectPool == OP!Spec
=================================================================================
