-------------------------------- MODULE MinHeap --------------------------------
(***************************************************************************)
(* The timers of timer/minheap.cc: a binary heap of nodes that know their    *)
(* index, and a map from the ids the clients hold.  One thread runs it; a    *)
(* handler that ExpireTimer calls may add timers and cancel others.          *)
(*                                                                          *)
(* A node is known by its id.  _heap[i] of the code is heap[i + 1].  Handlers*)
(* do not cancel the timer that called them: minheap.cc then frees it twice. *)
(***************************************************************************)
EXTENDS Integers, Sequences, FiniteSets

CONSTANTS Range32,    \* 2^32 in the code: the milliseconds a clock can tell apart
          Delays,     \* bound: the delays given to AddTimer
          MaxTimers,  \* bound: how many timers are added
          MaxClock    \* bound: how far the clock runs

Ids == 1 .. MaxTimers

VARIABLES clock,     \* what current_time returns
          heap,      \* _heap: the ids, in heap order
          idx,       \* idx[id]: the node's idx (0: there is no such node)
          expire,    \* expire[id]: the node's expire (0: there is none)
          known,     \* the ids in _map
          count,     \* _count
          now,       \* ExpireTimer: the clock as it read it (0 outside it)
          running,   \* the timer whose handler runs (0: none)
          fired      \* history: the timers whose handler was called

vars == <<clock, heap, idx, expire, known, count, now, running, fired>>

Init == /\ clock = 0 /\ now = 0 /\ count = 0 /\ running = 0
        /\ heap = <<>> /\ known = {} /\ fired = {}
        /\ idx = [i \in Ids |-> 0] /\ expire = [i \in Ids |-> 0]

-----------------------------------------------------------------------------
(* The heap: s has the fields heap and idx and the place pos of the node that *)
(* is moved, and x says when each id expires.                               *)

LessThan(s, x, i, j) == x[s.heap[i]] < x[s.heap[j]]

\* Slip: only the node that moves learns its index.
SwappedHalf(s, place) ==
  [heap |-> [s.heap EXCEPT ![place] = s.heap[s.pos], ![s.pos] = s.heap[place]],
   idx  |-> [s.idx EXCEPT ![s.heap[s.pos]] = place],
   pos  |-> place]

\* The node at pos changes places with the one at place.
Swapped(s, place) ==
  [heap |-> [s.heap EXCEPT ![place] = s.heap[s.pos], ![s.pos] = s.heap[place]],
   idx  |-> [s.idx EXCEPT ![s.heap[s.pos]] = place, ![s.heap[place]] = s.pos],
   pos  |-> place]

\* The node that is moved is in the heap.
Moves == {s \in [heap : Seq(Ids), idx : [Ids -> Nat], pos : Ids] :
            Len(s.heap) \in s.pos .. MaxTimers}

Parent(pos) == pos \div 2

IsUp(s, x) == Parent(s.pos) = 0 \/ ~LessThan(s, x, s.pos, Parent(s.pos))

ShiftUp(s, x) ==
  LET up[t \in Moves] == IF IsUp(t, x) THEN t ELSE up[Swapped(t, Parent(t.pos))]
  IN up[s]

\* The child to compare with: the last place belongs to the node that leaves.
LesserChild(s, x) ==
  LET left == 2 * s.pos
  IN IF left + 1 < Len(s.heap) /\ ~LessThan(s, x, left, left + 1) THEN left + 1 ELSE left

IsDown(s, x) == 2 * s.pos >= Len(s.heap) \/ ~LessThan(s, x, LesserChild(s, x), s.pos)

ShiftDown(s, x) ==
  LET down[t \in Moves] == IF IsDown(t, x) THEN t ELSE down[Swapped(t, LesserChild(t, x))]
  IN down[s]

Mended(s, x) ==
  LET down == ShiftDown(s, x)
  IN IF down.pos > s.pos THEN down ELSE ShiftUp(s, x)

\* _delNode of the node with this id.
DelNode(id) ==
  LET last == Len(heap)
      s    == [heap |-> heap, idx |-> idx, pos |-> last]
  IN \E mended \in {IF idx[id] = last THEN s ELSE Mended(Swapped(s, idx[id]), expire)} :
       /\ heap' = SubSeq(mended.heap, 1, last - 1)
       /\ idx' = [mended.idx EXCEPT ![id] = 0]
       /\ expire' = [expire EXCEPT ![id] = 0]
       /\ known' = known \ {id}

-----------------------------------------------------------------------------
Tick == /\ clock < MaxClock
        /\ clock' = clock + 1
        /\ UNCHANGED <<heap, idx, expire, known, count, now, running, fired>>

AddTimer(delay) ==
  /\ count < MaxTimers
  /\ LET id == count + 1
         x  == [expire EXCEPT ![id] = (clock + delay) % Range32]
         s  == ShiftUp([heap |-> Append(heap, id), idx |-> [idx EXCEPT ![id] = Len(heap) + 1],
                        pos |-> Len(heap) + 1], x)
     IN /\ count' = id
        /\ expire' = x
        /\ heap' = s.heap /\ idx' = s.idx
        /\ known' = known \cup {id}
  /\ UNCHANGED <<clock, now, running, fired>>

\* An id that is not in the map, of a timer that fired or was cancelled, is refused.
DelTimer(id) ==
  /\ id \in known \ {running}
  /\ DelNode(id)
  /\ UNCHANGED <<clock, count, now, running, fired>>

\* Slip: a timer is due a tick too early.
DueSoon(id, t) == expire[id] <= t + 1

Due(id, t) == expire[id] <= t

\* The loop goes on with node front if it is due at the time t, or returns.
CallHandler(front, t) ==
  IF front # 0 /\ Due(front, t)
  THEN running' = front /\ now' = t /\ fired' = fired \cup {front}
  ELSE running' = 0 /\ now' = 0 /\ fired' = fired

\* ExpireTimer reads the clock, and calls the first handler.
ExpireTimer ==
  /\ running = 0
  /\ heap # <<>> /\ Due(heap[1], clock)
  /\ CallHandler(heap[1], clock)
  /\ UNCHANGED <<clock, heap, idx, expire, known, count>>

\* The handler returns: its node is removed, and the loop looks at the next.
HandlerReturns ==
  /\ running # 0
  /\ DelNode(running)
  /\ CallHandler(IF heap' = <<>> THEN 0 ELSE heap'[1], now)
  /\ UNCHANGED <<clock, count>>

Next == \/ Tick
        \/ \E d \in Delays : AddTimer(d)
        \/ \E id \in Ids : DelTimer(id)
        \/ ExpireTimer
        \/ HandlerReturns

\* The main loop goes on calling ExpireTimer, and handlers return.
Spec == Init /\ [][Next]_vars /\ WF_vars(ExpireTimer) /\ WF_vars(HandlerReturns)

-----------------------------------------------------------------------------
(* Properties                                                               *)

\* The heap and the map hold the same nodes, each node knows its place, and no
\* node expires before its parent: what DelTimer finds by its index and what
\* ExpireTimer finds at the root.
HeapOrdered ==
  /\ clock \in 0 .. MaxClock /\ count \in 0 .. MaxTimers /\ running \in known \cup {0}
  /\ known = {heap[i] : i \in DOMAIN heap} /\ Cardinality(known) = Len(heap)
  /\ \A i \in DOMAIN heap : idx[heap[i]] = i
  /\ \A i \in 2 .. Len(heap) : expire[heap[i \div 2]] <= expire[heap[i]]

Waiting == known \ {running}

TQ == INSTANCE TimerQueue WITH Timers <- Ids, now <- clock,
                               pending <- [id \in Waiting |-> expire[id]]

\* The heap is a timer queue: whatever the handlers add or cancel meanwhile, a
\* timer fires once, when it is due and in the order of the times, and it does.
ImplementsTimerQueue == TQ!Spec
================================================================================
