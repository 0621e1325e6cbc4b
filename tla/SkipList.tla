-------------------------------- MODULE SkipList --------------------------------
(***************************************************************************)
(* The timers of timer/skl-timer.c over the skip list of timer/skiplist.c.   *)
(* One thread runs it; a handler that expire_timer calls may add timers and  *)
(* cancel others.                                                           *)
(*                                                                          *)
(* A node is known by the order in which it was made.  An expired node is    *)
(* unlinked and never freed, so clients may still hold it and cancel it.     *)
(***************************************************************************)
EXTENDS Integers, Sequences, FiniteSets

CONSTANTS Range32,             \* 2^32 in the code: msec and the clock are uint32_t
          ZSKIPLIST_MAXLEVEL,
          Delays,              \* bound: the delays given to add_timer
          MaxTimers,           \* bound: how many timers are added
          MaxClock,            \* bound: how far the clock runs
          Ties                 \* timers may expire in the same millisecond

ListNodes == 1 .. MaxTimers
Levels    == 1 .. ZSKIPLIST_MAXLEVEL
header == 0
NULL   == -1

VARIABLES clock,      \* what current_time returns
          level,      \* zsl->level
          length,     \* zsl->length
          forward,    \* forward[x][i]: x->level[i - 1].forward
          score,      \* score[x]: when x expires, by the time it was added
          made,       \* how many nodes were made
          now,        \* expire_timer: the clock as it read it (0 outside it)
          running,    \* the node whose handler runs (NULL: none)
          fired,      \* history: the nodes whose handler was called
          cancelled   \* history: the nodes del_timer was called for

vars == <<clock, level, length, forward, score, made, now, running, fired, cancelled>>

Init == /\ clock = 0 /\ now = 0 /\ level = 1 /\ length = 0 /\ made = 0
        /\ forward = [x \in ListNodes \cup {header} |-> [i \in Levels |-> NULL]]
        /\ score = [x \in ListNodes |-> 0]
        /\ running = NULL /\ fired = {} /\ cancelled = {}

-----------------------------------------------------------------------------
(* The list                                                                 *)

Precedes(x, s) == x # NULL /\ score[x] < s

\* Walk on level i from x while the next node expires before s.
Before(x, i, s) ==
  LET walk[y \in DOMAIN forward] ==
        IF Precedes(forward[y][i], s) THEN walk[forward[y][i]] ELSE y
  IN walk[x]

\* Slip: the walk starts over at the lowest level only.
UpdateFlat(s) == [i \in 1 .. level |-> IF i = 1 THEN Before(header, 1, s) ELSE header]

\* The array update: on each level, the last node that expires before s, which
\* the walk on the level above leads to.
Update(s) ==
  LET u[i \in 1 .. level] == Before(IF i = level THEN header ELSE u[i + 1], i, s) IN u

Larger(a, b) == IF a > b THEN a ELSE b

\* zslInsert: x gets height levels, and goes before the nodes of the same score.
Insert(x, s, height) ==
  \E update \in {Update(s)} :
    LET u(i) == IF i <= level THEN update[i] ELSE header
    IN /\ level' = Larger(level, height)
       /\ forward' = [y \in DOMAIN forward |-> [i \in Levels |->
            IF i > height THEN forward[y][i]
            ELSE IF y = x THEN forward[u(i)][i]
            ELSE IF u(i) = y THEN x ELSE forward[y][i]]]
       /\ length' = length + 1

\* The levels left once the empty ones at the top are given up.
Lowered(fwd) ==
  CHOOSE l \in 1 .. level : /\ l = 1 \/ fwd[header][l] # NULL
                            /\ \A i \in l + 1 .. level : fwd[header][i] = NULL

\* Unlink x: u[i] is the node that may come before it on level i.  Nobody reads
\* the pointers of a node that is not linked.
Unlink(x, u) ==
  /\ forward' = [y \in DOMAIN forward |-> [i \in Levels |->
       IF y = x THEN NULL
       ELSE IF i <= level /\ u[i] = y /\ forward[y][i] = x THEN forward[x][i]
       ELSE forward[y][i]]]
  /\ level' = Lowered(forward')
  /\ length' = length - 1

zslMin == forward[header][1]

zslDeleteHead == Unlink(zslMin, [i \in 1 .. level |-> header])

\* zslDelete takes the first node that expires when zn does.
zslDelete(zn) ==
  \E u \in {Update(score[zn])} :
    LET x == forward[u[1]][1]
    IN IF x # NULL /\ score[x] = score[zn] THEN Unlink(x, u)
       ELSE UNCHANGED <<forward, level, length>>

-----------------------------------------------------------------------------
(* The timers                                                               *)

Tick == /\ clock < MaxClock
        /\ clock' = clock + 1
        /\ UNCHANGED <<level, length, forward, score, made, now, running, fired, cancelled>>

\* No node that a client may still cancel expires at s.
Apart(s) == \A x \in 1 .. made : x \notin cancelled => score[x] # s

\* zslRandomLevel may return any height.
add_timer(msec, height) ==
  LET s == (clock + msec) % Range32
  IN /\ made < MaxTimers
     /\ Ties \/ Apart(s)
     /\ made' = made + 1
     /\ score' = [score EXCEPT ![made + 1] = s]
     /\ Insert(made + 1, s, height)
     /\ UNCHANGED <<clock, now, running, fired, cancelled>>

\* A client cancels a timer once, and a handler not the one that called it.
del_timer(zn) ==
  /\ zn \in 1 .. made \ (cancelled \cup {running})
  /\ cancelled' = cancelled \cup {zn}
  /\ zslDelete(zn)
  /\ UNCHANGED <<clock, score, made, now, running, fired>>

\* Slip: a timer is due a tick too early.
DueSoon(x, t) == score[x] <= t + 1

Due(x, t) == score[x] <= t

\* The loop goes on with the first node if it is due at the time t, or returns.
CallHandler(first, t) ==
  IF first # NULL /\ Due(first, t)
  THEN running' = first /\ now' = t /\ fired' = fired \cup {first}
  ELSE running' = NULL /\ now' = 0 /\ fired' = fired

\* expire_timer reads the clock, and calls the first handler.
expire_timer ==
  /\ running = NULL
  /\ zslMin # NULL /\ Due(zslMin, clock)
  /\ CallHandler(zslMin, clock)
  /\ UNCHANGED <<clock, level, length, forward, score, made, cancelled>>

\* The handler returns: the head of the list is unlinked, whoever it is by now.
HandlerReturns ==
  /\ running # NULL
  /\ zslDeleteHead
  /\ CallHandler(forward'[header][1], now)
  /\ UNCHANGED <<clock, score, made, cancelled>>

Next == \/ Tick
        \/ \E d \in Delays, h \in Levels : add_timer(d, h)
        \/ \E x \in ListNodes : del_timer(x)
        \/ expire_timer
        \/ HandlerReturns

\* The main loop goes on calling expire_timer, and handlers return.
Spec == Init /\ [][Next]_vars /\ WF_vars(expire_timer) /\ WF_vars(HandlerReturns)

-----------------------------------------------------------------------------
(* Properties                                                               *)

\* The nodes on level i in their order, as far as there can be nodes.
OnLevel(i) ==
  LET from[n \in 0 .. MaxTimers, x \in ListNodes \cup {NULL}] ==
        IF n = 0 \/ x = NULL THEN <<>> ELSE <<x>> \o from[n - 1, forward[x][i]]
  IN from[MaxTimers, forward[header][i]]

Linked == LET all == OnLevel(1) IN {all[k] : k \in DOMAIN all}

\* Level 1 holds every node in the order of the times, length counts them, and
\* each level above is part of the one below: a walk down the levels misses no
\* node, and a node unlinked is gone from all of them.
LevelsNested ==
  /\ length = Len(OnLevel(1)) /\ Cardinality(Linked) = length
  /\ level \in Levels /\ (level > 1 => forward[header][level] # NULL)
  /\ \A i \in Levels :
       LET here == OnLevel(i)
       IN /\ i > level => here = <<>>
          /\ \A k \in 1 .. Len(here) - 1 : score[here[k]] <= score[here[k + 1]]
          /\ i > 1 => here = SelectSeq(OnLevel(i - 1),
                                       LAMBDA x : \E k \in DOMAIN here : here[k] = x)

Waiting == Linked \ {running}

TQ == INSTANCE TimerQueue WITH Timers <- ListNodes, now <- clock,
                               pending <- [x \in Waiting |-> score[x]]

\* The list is a timer queue, as long as no two timers expire in the same
\* millisecond: a timer fires once, when it is due and in the order of the
\* times, and it does, unless it is cancelled.
ImplementsTimerQueue == TQ!Spec

\* The comment in zslDelete says that the node found is the node passed in, so
\* that a timer that was cancelled is in the list no more.
CancelledIsUnlinked == cancelled \cap Linked = {}
================================================================================
