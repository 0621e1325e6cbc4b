------------------------------- MODULE TFreeList -------------------------------
(***************************************************************************)
(* The template free list of memory_pool/TFreeList.h: an array of objects    *)
(* and a stack of pointers to those that are free.  Its users take an object *)
(* when GetFree says there is one, and give it back once, as its ASSERTs ask.*)
(***************************************************************************)
EXTENDS Integers, FiniteSets

CONSTANT m_iNumObjects

Objects == 0 .. m_iNumObjects - 1

VARIABLES m_ppFreeObjects,  \* the stack; what is above the top is left there
          m_iTop,
          users             \* users[o]: how many users have object o

vars == <<m_ppFreeObjects, m_iTop, users>>

\* The stack once every object is available: the first object on top.
AllFree == [i \in Objects |-> m_iNumObjects - 1 - i]

Init == m_ppFreeObjects = AllFree /\ m_iTop = m_iNumObjects /\ users = [o \in Objects |-> 0]

GetFree == m_iTop

\* Slip: the top is moved before it is used.
SlotAbove == m_iTop + 1

Slot == m_iTop

NewInstance == /\ GetFree > 0
               /\ m_iTop' = m_iTop - 1
               /\ users' = [users EXCEPT ![m_ppFreeObjects[m_iTop - 1]] = @ + 1]
               /\ UNCHANGED m_ppFreeObjects

FreeInstance(o) == /\ users[o] > 0
                   /\ m_ppFreeObjects' = [m_ppFreeObjects EXCEPT ![Slot] = o]
                   /\ m_iTop' = m_iTop + 1
                   /\ users' = [users EXCEPT ![o] = @ - 1]

\* Its users forget the objects they have.
FreeAll == /\ m_ppFreeObjects' = AllFree
           /\ m_iTop' = m_iNumObjects
           /\ users' = [o \in Objects |-> 0]

Next == NewInstance \/ (\E o \in Objects : FreeInstance(o)) \/ FreeAll

Spec == Init /\ [][Next]_vars

-----------------------------------------------------------------------------
(* Properties                                                               *)

\* The stack below the top and the objects held are all the objects, none twice:
\* the list neither loses an object nor hands one out to two users.
EachObjectOnce ==
  LET held == {o \in Objects : users[o] > 0} IN
  /\ m_iTop = m_iNumObjects - Cardinality(held)
  /\ {m_ppFreeObjects[i] : i \in 0 .. m_iTop - 1} = Objects \ held

OP == INSTANCE ObjectPool

\* The list is an object pool.
ImplementsObjectPool == OP!Spec
================================================================================
