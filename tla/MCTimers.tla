------------------------------- MODULE MCTimers -------------------------------
(***************************************************************************)
(* The three timers for TLC: the wheel, the binary heap and the skip list,   *)
(* each on its own.  part says which of them a behaviour is about; the others*)
(* keep their initial state.                                                *)
(***************************************************************************)
EXTENDS TimerWheel

CONSTANTS Range32, HeapDelays, HeapTimers, ZSKIPLIST_MAXLEVEL, ListDelays, ListTimers, MaxClock

\* No clock that these behaviours reach wraps.
ASSUME HeapAssumption == /\ HeapTimers \in Nat /\ MaxClock \in Nat
                         /\ HeapDelays \subseteq Nat /\ Range32 \in Nat
                         /\ \A d \in HeapDelays : MaxClock + d < Range32

VARIABLES heap, idx, due, known, count, hclock, hnow, hrunning, hfired,
          lev, length, forward, score, made, lclock, lnow, lrunning, lfired, cancelled, part

heapVars == <<heap, idx, due, known, count, hclock, hnow, hrunning, hfired>>
listVars == <<lev, length, forward, score, made, lclock, lnow, lrunning, lfired, cancelled>>

Heap == INSTANCE MinHeap WITH
  Delays <- HeapDelays, MaxTimers <- HeapTimers, expire <- due,
  clock <- hclock, now <- hnow, running <- hrunning, fired <- hfired

List == INSTANCE SkipList WITH
  Delays <- ListDelays, MaxTimers <- ListTimers, Ties <- FALSE, level <- lev,
  clock <- lclock, now <- lnow, running <- lrunning, fired <- lfired

allVars == <<vars, heapVars, listVars, part>>

PartsInit == Init /\ Heap!Init /\ List!Init /\ part \in {"wheel", "heap", "list"}

WheelStep == part = "wheel" /\ Next /\ UNCHANGED <<heapVars, listVars, part>>
HeapStep == part = "heap" /\ Heap!Next /\ UNCHANGED <<vars, listVars, part>>
ListStep == part = "list" /\ List!Next /\ UNCHANGED <<vars, heapVars, part>>

\* The bounds on the clock and on the timers end the runs of the other two.
Stopped == part # "wheel" /\ UNCHANGED allVars

\* The one thread that fires the timers, whichever they are, goes on.
Thread ==
  \/ part = "wheel" /\ (TimerUpdate \/ Dispatch) /\ UNCHANGED <<heapVars, listVars, part>>
  \/ part = "heap" /\ (Heap!ExpireTimer \/ Heap!HandlerReturns) /\ UNCHANGED <<vars, listVars, part>>
  \/ part = "list" /\ (List!expire_timer \/ List!HandlerReturns) /\ UNCHANGED <<vars, heapVars, part>>

PartsSpec == /\ PartsInit /\ [][WheelStep \/ HeapStep \/ ListStep \/ Stopped]_allVars
             /\ WF_allVars(Thread)

\* No timer of the heap is due before the one it is below, and every timer knows its
\* place (minheap.cc:34-139).
HeapOrdered == Heap!HeapOrdered

\* The levels of the skip list are parts of one another, in the order of the times
\* (skiplist.c:65-172).
LevelsNested == List!LevelsNested

\* Heap and list fire the timers that are due, each once, none before one that is
\* due earlier and none that was deleted (minheap.cc:34-95, skl-timer.c:36-57).
TimersInOrder == Heap!ImplementsTimerQueue /\ List!ImplementsTimerQueue
===============================================================================
