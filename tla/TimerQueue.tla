------------------------------ MODULE TimerQueue ------------------------------
(***************************************************************************)
(* What the one-shot timers of timer/ promise: a timer that is not cancelled *)
(* fires once, not before it is due, before every timer due later; one that  *)
(* is cancelled never fires.                                                *)
(***************************************************************************)
EXTENDS Integers

CONSTANTS Timers, Delays

VARIABLES now,      \* the clock
          pending,  \* the timers that wait, each with the time it is due
          fired     \* the timers whose handler was called

vars == <<now, pending, fired>>

Init == now = 0 /\ pending = <<>> /\ fired = {}

Tick == now' = now + 1 /\ UNCHANGED <<pending, fired>>

Add(t, delay) == /\ t \notin DOMAIN pending \cup fired
                 /\ pending' = [u \in DOMAIN pending \cup {t} |->
                                IF u = t THEN now + delay ELSE pending[u]]
                 /\ UNCHANGED <<now, fired>>

Without(t) == [u \in DOMAIN pending \ {t} |-> pending[u]]

Cancel(t) == /\ t \in DOMAIN pending
             /\ pending' = Without(t)
             /\ UNCHANGED <<now, fired>>

\* The timers that are due and not later than any other.
First == LET p == pending
         IN {t \in DOMAIN p : p[t] <= now /\ \A u \in DOMAIN p : p[t] <= p[u]}

Fire(t) == /\ t \in First
           /\ pending' = Without(t)
           /\ fired' = fired \cup {t}
           /\ UNCHANGED now

Next == \/ Tick
        \/ \E t \in Timers, d \in Delays : Add(t, d)
        \/ \E t \in Timers : Cancel(t) \/ Fire(t)

\* No timer stays due for ever.
Prompt == []<>(First = {})

Spec == Init /\ [][Next]_vars /\ Prompt
===============================================================================
