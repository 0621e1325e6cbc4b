---------------------------- MODULE JobExecutor ----------------------------
(***************************************************************************)
(* What the thread pool of mysql/multi_thread_pool promises its callers,    *)
(* with no mutex, no condition variable and no counter: a job that was      *)
(* accepted is started once, in the order of acceptance, and closing the    *)
(* executor waits for every accepted job.                                   *)
(***************************************************************************)
EXTENDS Naturals, Sequences

CONSTANTS Jobs,      \* the jobs a client may submit
          Slots,     \* what runs jobs: one slot per worker thread
          Capacity,  \* how many accepted jobs may wait to be started
          None       \* an idle slot

VARIABLES phase,     \* "open" -> "draining" -> "closed" -> "released"
          submitted, \* jobs accepted so far
          pending,   \* accepted and not started, oldest first
          slot,      \* slot[s]: the job s is running, or None
          runs       \* runs[j]: how often j has completed

vars == <<phase, submitted, pending, slot, runs>>

Init == /\ phase = "open"
        /\ submitted = {}
        /\ pending = <<>>
        /\ slot = [s \in Slots |-> None]
        /\ runs = [j \in Jobs |-> 0]

Submit(j) == /\ phase = "open"
             /\ j \notin submitted
             /\ Len(pending) < Capacity
             /\ submitted' = submitted \cup {j}
             /\ pending' = Append(pending, j)
             /\ UNCHANGED <<phase, slot, runs>>

Start(s) == /\ phase \in {"open", "draining"}
            /\ slot[s] = None
            /\ pending # <<>>
            /\ slot' = [slot EXCEPT ![s] = Head(pending)]
            /\ pending' = Tail(pending)
            /\ UNCHANGED <<phase, submitted, runs>>

Finish(s) == /\ slot[s] # None
             /\ phase # "released"
             /\ runs' = [runs EXCEPT ![slot[s]] = @ + 1]
             /\ slot' = [slot EXCEPT ![s] = None]
             /\ UNCHANGED <<phase, submitted, pending>>

\* Closing in two moments: no further job is accepted, then no further job
\* is started.  A close that finds nothing pending does both at once.
Drain == /\ phase = "open"
         /\ phase' = "draining"
         /\ UNCHANGED <<submitted, pending, slot, runs>>

Shut == /\ phase \in {"open", "draining"}
        /\ pending = <<>>
        /\ phase' = "closed"
        /\ UNCHANGED <<submitted, pending, slot, runs>>

Release == /\ phase = "closed"
           /\ \A s \in Slots : slot[s] = None
           /\ phase' = "released"
           /\ UNCHANGED <<submitted, pending, slot, runs>>

Next == \/ \E j \in Jobs : Submit(j)
        \/ \E s \in Slots : Start(s) \/ Finish(s)
        \/ Drain \/ Shut \/ Release

\* An idle slot starts a pending job, a started job completes, and a close
\* that has begun ends.
Fairness == /\ WF_vars(\E s \in Slots : Start(s))
            /\ \A s \in Slots : WF_vars(Finish(s))
            /\ WF_vars(phase = "draining" /\ Shut)
            /\ WF_vars(Release)

SafetySpec == Init /\ [][Next]_vars

Spec == SafetySpec /\ Fairness
=============================================================================
