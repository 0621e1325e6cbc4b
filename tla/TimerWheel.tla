----------------------------- MODULE TimerWheel -----------------------------
(***************************************************************************)
(* The hierarchical timer wheel of timer/timerwheel.c: the lists near and   *)
(* t[0..3], one thread that turns the wheel (expire_timer, timer_update) and*)
(* any number of threads that add and cancel timers.  A section under the   *)
(* spinlock is one action; due timers are dispatched outside it, one by one.*)
(*                                                                          *)
(* The clock is the wheel's own, in ticks, and wraps as uint32_t does; the  *)
(* two shifts are parameters so that a small wheel has the same shape.      *)
(***************************************************************************)
EXTENDS Integers, Sequences, SequencesExt

CONSTANTS TIME_NEAR_SHIFT,
          TIME_LEVEL_SHIFT,
          Nodes,             \* the memory cells malloc hands out as timer nodes
          Delays,            \* bound: the positive delays given to add_timer
          Deletes            \* the clients call del_timer or never do

TIME_NEAR == 2 ^ TIME_NEAR_SHIFT
TIME_LEVEL == 2 ^ TIME_LEVEL_SHIFT
Levels == 0 .. 3
NearSlots == 0 .. TIME_NEAR - 1
LevelSlots == 0 .. TIME_LEVEL - 1

\* 8 + 4 * 6 = 32 bits in the code: the wheel spans the whole clock.
Width == 2 ^ (TIME_NEAR_SHIFT + 4 * TIME_LEVEL_SHIFT)
Times == 0 .. Width - 1

ASSUME ShiftAssumption == TIME_NEAR_SHIFT \in Nat /\ TIME_LEVEL_SHIFT \in Nat \ {0}
\* How many ticks one slot of a level stands for.
Unit(level) == 2 ^ (TIME_NEAR_SHIFT + level * TIME_LEVEL_SHIFT)

\* What the powers are to one another, for the proofs: near holds one slot of level 0, a
\* level one slot of the next, and the last level the clock.
ASSUME UnitAssumption ==
  /\ TIME_NEAR \in Nat \ {0} /\ TIME_LEVEL \in Nat \ {0}
  /\ Unit(0) = TIME_NEAR /\ Unit(1) = TIME_LEVEL * Unit(0) /\ Unit(2) = TIME_LEVEL * Unit(1)
  /\ Unit(3) = TIME_LEVEL * Unit(2) /\ Width = TIME_LEVEL * Unit(3)

ASSUME DelayAssumption == Delays \subseteq 1 .. (Width \div 2 - 1)  \* int
ASSUME DeletesAssumption == Deletes \in BOOLEAN

VARIABLES wheel,    \* the lists: near and t
          time,
          expire,   \* expire[n]: the time of a linked node (0 when it is free)
          cancel,   \* cancel[n]: the field of the cell, which free leaves alone
          batch,    \* the list timer_execute took and is dispatching
          turning,  \* the second timer_execute of timer_update is under way
          status    \* status[n]: "free", "live", or "deleted" once del_timer has
                    \* been called on the live node

Wheels == [near : [NearSlots -> Seq(Nodes)],
           t    : [Levels -> [LevelSlots -> Seq(Nodes)]]]

vars == <<wheel, time, expire, cancel, batch, turning, status>>

Init == /\ wheel = [near |-> [i \in NearSlots |-> <<>>],
                    t |-> [l \in Levels |-> [i \in LevelSlots |-> <<>>]]]
        /\ time = 0
        /\ expire = [n \in Nodes |-> 0]
        /\ cancel = [n \in Nodes |-> 0]
        /\ batch = <<>>
        /\ turning = FALSE
        /\ status = [n \in Nodes |-> "free"]

-----------------------------------------------------------------------------
(* The lists                                                                *)

\* The slot of a time.
Slot(level, when) == (when \div Unit(level)) % TIME_LEVEL

LevelFor(msec) == IF msec < Unit(1) THEN 0 ELSE IF msec < Unit(2) THEN 1
                  ELSE IF msec < Unit(3) THEN 2 ELSE 3

\* Slip: off by one, near holds one turn and a tick.
InNearInclusive(msec) == msec <= TIME_NEAR

InNear(msec) == msec < TIME_NEAR

\* Link node n, which expires at when, into wheel w at the time now.
AddNode(w, now, n, when) ==
  LET msec == (when - now) % Width
      level == LevelFor(msec)
  IN IF InNear(msec)
     THEN [w EXCEPT !.near[when % TIME_NEAR] = Append(@, n)]
     ELSE [w EXCEPT !.t[level][Slot(level, when)] = Append(@, n)]

\* A wheel, and the nodes cut off one of its slots that are still to be linked.
Moving == [wheel : Wheels, list : Seq(Nodes)]

\* One turn of the loop of move_list: link the first of them, nearer to its time.
Relinked(s, now) == [wheel |-> AddNode(s.wheel, now, Head(s.list), expire[Head(s.list)]),
                     list  |-> Tail(s.list)]

Relink(w, now, nodes) ==
  LET loop[s \in Moving] == IF s.list = <<>> THEN s ELSE loop[Relinked(s, now)]
  IN loop[[wheel |-> w, list |-> nodes]].wheel

\* Slip: the slot is not emptied.
MoveListKept(w, now, level, idx) == Relink(w, now, w.t[level][idx])

MoveList(w, now, level, idx) ==
  Relink([w EXCEPT !.t[level][idx] = <<>>], now, w.t[level][idx])

\* Slips: only level 0 is shifted down; nothing is when the clock wraps.
ShiftFirstLevel(w, ct) ==
  IF ct % TIME_NEAR = 0 /\ Slot(0, ct) # 0 THEN MoveList(w, ct, 0, Slot(0, ct)) ELSE w
ShiftNoWrap(w, ct) ==
  LET level == {l \in Levels : ct % Unit(l) = 0 /\ Slot(l, ct) # 0}
  IN IF level = {} THEN w
     ELSE LET l == CHOOSE l \in level : TRUE IN MoveList(w, ct, l, Slot(l, ct))

\* The slot that begins at ct moves down: that of the lowest level whose slot
\* number at ct is not 0, once the numbers below it are.
TimerShift(w, ct) ==
  LET level == {l \in Levels : ct % Unit(l) = 0 /\ Slot(l, ct) # 0}
  IN IF ct = 0 THEN MoveList(w, 0, 3, 0)
     ELSE IF level = {} THEN w
     ELSE LET l == CHOOSE l \in level : TRUE IN MoveList(w, ct, l, Slot(l, ct))

-----------------------------------------------------------------------------
(* add_timer and del_timer                                                  *)

Expiry(delay) == (time + delay) % Width

\* The cell may be any that is not in use.  Its cancel field is not written.
\* (A delay <= 0 runs the callback at once and links nothing.)
AddTimer(n, delay) ==
  /\ status[n] = "free"
  /\ expire' = [expire EXCEPT ![n] = Expiry(delay)]
  /\ wheel' = AddNode(wheel, time, n, Expiry(delay))
  /\ status' = [status EXCEPT ![n] = "live"]
  /\ UNCHANGED <<time, cancel, batch, turning>>

\* Called without the lock, on a timer that has not been freed.
DelTimer(n) ==
  /\ Deletes
  /\ status[n] # "free"
  /\ cancel' = [cancel EXCEPT ![n] = 1]
  /\ status' = [status EXCEPT ![n] = "deleted"]
  /\ UNCHANGED <<wheel, time, expire, batch, turning>>

-----------------------------------------------------------------------------
(* timer_update, on the thread that calls expire_timer                      *)

Due(w, now) == w.near[now % TIME_NEAR]
WithoutDue(w, now) == [w EXCEPT !.near[now % TIME_NEAR] = <<>>]

\* One section under the lock: take what is due; if nothing is, turn the wheel
\* and take what is due then, or, when that is done too, end the update.
TimerUpdate ==
  LET ct == (time + 1) % Width
      shifted == TimerShift(wheel, ct)
  IN /\ batch = <<>>
     /\ IF Due(wheel, time) # <<>>
        THEN /\ batch' = Due(wheel, time)
             /\ wheel' = WithoutDue(wheel, time)
             /\ UNCHANGED <<time, turning>>
        ELSE IF turning
        THEN turning' = FALSE /\ UNCHANGED <<batch, wheel, time>>
        ELSE /\ time' = ct
             /\ batch' = Due(shifted, ct)
             /\ wheel' = WithoutDue(shifted, ct)
             /\ turning' = (batch' # <<>>)
     /\ UNCHANGED <<expire, cancel, status>>

\* dispatch_list, one node: its callback, unless its cancel field says no, and
\* then free.  What the callback adds is added as by any other thread.
Dispatch ==
  /\ batch # <<>>
  /\ batch' = Tail(batch)
  /\ expire' = [expire EXCEPT ![Head(batch)] = 0]
  /\ status' = [status EXCEPT ![Head(batch)] = "free"]
  /\ UNCHANGED <<wheel, time, cancel, turning>>

Next == \/ \E n \in Nodes, d \in Delays : AddTimer(n, d)
        \/ \E n \in Nodes : DelTimer(n)
        \/ TimerUpdate
        \/ Dispatch

\* The main loop of tw-timer.c goes on calling expire_timer.
Fairness == WF_vars(TimerUpdate) /\ WF_vars(Dispatch)

SafetySpec == Init /\ [][Next]_vars

Spec == SafetySpec /\ Fairness

-----------------------------------------------------------------------------
(* Properties                                                               *)

TypeOK ==
  /\ wheel \in Wheels /\ time \in Times
  /\ expire \in [Nodes -> Times] /\ cancel \in [Nodes -> {0, 1}]
  /\ batch \in Seq(Nodes) /\ turning \in BOOLEAN
  /\ status \in [Nodes -> {"free", "live", "deleted"}]

\* How many ticks from now until when.
Ahead(when) == (when - time) % Width

\* timer_shift moves down no slot 0 of the levels below the last.
InDeadSlot(n) == \E l \in 0 .. 2 : n \in Range(wheel.t[l][0])

\* A timer sits in a slot that is emptied after now and not after its time: in
\* near within one turn of near, in a level with its slot still to begin.  So
\* no turn of the wheel passes a timer by, slots 0 that are never moved apart.
Placed ==
  /\ \A i \in NearSlots : \A n \in Range(wheel.near[i]) :
       expire[n] % TIME_NEAR = i /\ Ahead(expire[n]) \in 1 .. TIME_NEAR - 1
  /\ \A l \in Levels, i \in LevelSlots : \A n \in Range(wheel.t[l][i]) :
       /\ Slot(l, expire[n]) = i
       /\ ~InDeadSlot(n) => Ahead(expire[n] - (expire[n] % Unit(l))) \in 1 .. Ahead(expire[n])

\* A timer is dispatched in the very tick it expires, however often it was moved
\* down and whatever was added while an earlier one was being dispatched.
OnTime == \A n \in Range(batch) : expire[n] = time

\* The lists by their places: near, the levels and the batch.
Near == -1
Taken == -2
Places == ({Near} \X NearSlots) \cup (Levels \X LevelSlots)
          \cup {<<Taken, 0>>}

Lists(w, taken) ==
  [p \in Places |-> IF p[1] = Taken THEN taken
                    ELSE IF p[1] = Near THEN w.near[p[2]] ELSE w.t[p[1]][p[2]]]

\* Each of these nodes is in one of the lists, once, and no other node in any.
EachOnce(lists, nodes) ==
  /\ \A n \in nodes : \E p \in DOMAIN lists : n \in Range(lists[p])
  /\ \A p \in DOMAIN lists : Range(lists[p]) \subseteq nodes
  /\ \A p, q \in DOMAIN lists : \A i \in DOMAIN lists[p], j \in DOMAIN lists[q] :
       lists[p][i] = lists[q][j] => p = q /\ i = j

Linked == {n \in Nodes : status[n] # "free"}

\* No timer is lost or linked twice when a list is moved or taken, and none is dispatched
\* and freed twice.
LinkedOnce == EachOnce(Lists(wheel, batch), Linked)

\* A timer that is not in a dead slot is dispatched and freed at last.
PlacedTimersExpire == \A n \in Nodes : status[n] # "free" ~> status[n] = "free" \/ InDeadSlot(n)

\* The comment at timer_update and the README of timer/ say that the lists of the
\* levels are linked into near when their time comes, so every timer expires.
EveryTimerExpires == \A n \in Nodes : status[n] # "free" ~> status[n] = "free"

\* timewheel.h says that cancel is 1 if the node was cancelled; dispatch_list
\* skips the callback of every node whose field is not 0.
CancelledOnRequest == \A n \in Nodes : status[n] = "live" => cancel[n] = 0
=============================================================================
