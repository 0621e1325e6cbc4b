----------------------------- MODULE ThreadPool -----------------------------
(***************************************************************************)
(* The thread pool of mysql/multi_thread_pool (redis/multi_thread has the   *)
(* same text): one mutex, three condition variables and a bounded list of   *)
(* jobs.  What a thread does between taking the mutex and releasing it or   *)
(* waiting is one action, since every shared field is read and written      *)
(* under the mutex there; what threadpool_destroy and a callback do outside *)
(* the mutex are actions of their own.                                      *)
(*                                                                          *)
(* pc[t] is "lock" when t is about to take the mutex (on entry, or woken    *)
(* from a wait whose loop tests the same condition again), and the name of  *)
(* a condition variable when t waits on it.                                 *)
(***************************************************************************)
EXTENDS Integers, Sequences, FiniteSets

CONSTANTS Producers,      \* threads that call threadpool_add_job
          Workers,        \* the threads threadpool_init creates
          Closers,        \* threads that call threadpool_destroy
          queue_max_num,  \* the bound of the list of jobs
          JobsEach,       \* bound: calls of threadpool_add_job by a producer
          NULL

ASSUME ThreadsAssumption == /\ Producers \cap Workers = {}
                            /\ Producers \cap Closers = {}
                            /\ Workers \cap Closers = {}
ASSUME SizeAssumption == queue_max_num \in Nat \ {0} /\ JobsEach \in Nat
ASSUME NullAssumption == NULL \notin Producers \X Nat

Threads == Producers \cup Workers \cup Closers
Jobs == Producers \X (1 .. JobsEach)

VARIABLES queue,          \* the jobs from head to tail
          queue_cur_num,  \* the counter the conditions test
          queue_close, pool_close,
          freed,          \* threadpool_destroy has destroyed mutex and pool
          pc,
          pjob,           \* pjob[w]: the job worker w has taken and not freed
          calls,          \* calls[p]: calls of add_job that p has finished
          accepted,       \* history: jobs whose add_job returned 0
          runs            \* history: how often each job's callback has run

pool == <<queue, queue_cur_num, queue_close, pool_close, freed>>
vars == <<pool, pc, pjob, calls, accepted, runs>>

Init == /\ queue = <<>>
        /\ queue_cur_num = 0
        /\ queue_close = FALSE
        /\ pool_close = FALSE
        /\ freed = FALSE
        /\ pc = [t \in Threads |-> IF t \in Workers THEN "lock" ELSE "idle"]
        /\ pjob = [w \in Workers |-> NULL]
        /\ calls = [p \in Producers |-> 0]
        /\ accepted = {}
        /\ runs = [j \in Jobs |-> 0]

-----------------------------------------------------------------------------
(* pthread_cond_wait, _signal and _broadcast.                               *)

Waiting(cond) == {t \in Threads : pc[t] = cond}

\* A woken destroyer is past its entry check; the others repeat all of theirs.
Woken(t) == IF pc[t] = "queue_empty" THEN "drain" ELSE "lock"

\* The sets of threads a call may wake: one waiter, if there is one, or all.
Signal(cond) == IF Waiting(cond) = {} THEN {{}} ELSE {{t} : t \in Waiting(cond)}
Broadcast(cond) == {Waiting(cond)}
Nobody == {{}}

\* Thread self moves to label and the threads of woken leave their waits.
Move(self, label, woken) ==
  pc' = [t \in Threads |-> IF t = self THEN label
                           ELSE IF t \in woken THEN Woken(t) ELSE pc[t]]

\* POSIX lets a wait return without a signal; every wait here is in a loop.
SpuriousWakeup(t) ==
  /\ pc[t] \in {"queue_empty", "queue_not_empty", "queue_not_full"}
  /\ ~freed
  /\ pc' = [pc EXCEPT ![t] = Woken(t)]
  /\ UNCHANGED <<pool, pjob, calls, accepted, runs>>

-----------------------------------------------------------------------------
(* threadpool_add_job                                                       *)

Closed == queue_close \/ pool_close

\* A producer calls only while the pool exists; it may be freed meanwhile.
CallAddJob(p) ==
  /\ pc[p] = "idle" /\ calls[p] < JobsEach
  /\ ~freed
  /\ pc' = [pc EXCEPT ![p] = "lock"]
  /\ UNCHANGED <<pool, pjob, calls, accepted, runs>>

\* Slip: after a wait the bound is not tested again.
UnboundedRoom == ~Closed

Room == queue_cur_num # queue_max_num /\ ~Closed

AddWait(p) ==
  /\ pc[p] = "lock" /\ ~freed
  /\ queue_cur_num = queue_max_num /\ ~Closed
  /\ pc' = [pc EXCEPT ![p] = "queue_not_full"]
  /\ UNCHANGED <<pool, pjob, calls, accepted, runs>>

\* Return -1: the pool is closed.
AddRefuse(p) ==
  /\ pc[p] = "lock" /\ ~freed
  /\ Closed
  /\ pc' = [pc EXCEPT ![p] = "idle"]
  /\ calls' = [calls EXCEPT ![p] = @ + 1]
  /\ UNCHANGED <<pool, pjob, accepted, runs>>

\* Return -1: malloc of the job failed.
AddNoMemory(p) ==
  /\ pc[p] = "lock" /\ ~freed
  /\ Room
  /\ pc' = [pc EXCEPT ![p] = "idle"]
  /\ calls' = [calls EXCEPT ![p] = @ + 1]
  /\ UNCHANGED <<pool, pjob, accepted, runs>>

\* Slip: the job is linked before the head.
LinkFirst(job) == <<job>> \o queue

Link(job) == Append(queue, job)

\* Slip: pthread_cond_signal where the code has pthread_cond_broadcast.
AddWakesOne == IF queue = <<>> THEN Signal("queue_not_empty") ELSE Nobody

AddWakes == IF queue = <<>> THEN Broadcast("queue_not_empty") ELSE Nobody

AddEnqueue(p) ==
  LET job == <<p, calls[p] + 1>> IN
  /\ pc[p] = "lock" /\ ~freed
  /\ Room
  /\ queue' = Link(job)
  /\ queue_cur_num' = queue_cur_num + 1
  /\ \E woken \in AddWakes : Move(p, "idle", woken)
  /\ calls' = [calls EXCEPT ![p] = @ + 1]
  /\ accepted' = accepted \cup {job}
  /\ UNCHANGED <<queue_close, pool_close, freed, pjob, runs>>

-----------------------------------------------------------------------------
(* threadpool_function                                                      *)

\* Slip: the loop tests the flag that is set before the list is drained.
NothingToDoDraining == queue_cur_num = 0 /\ ~queue_close

NothingToDo == queue_cur_num = 0 /\ ~pool_close

TakeWait(w) ==
  /\ pc[w] = "lock"
  /\ NothingToDo
  /\ pc' = [pc EXCEPT ![w] = "queue_not_empty"]
  /\ UNCHANGED <<pool, pjob, calls, accepted, runs>>

WorkerExit(w) ==
  /\ pc[w] = "lock"
  /\ pool_close
  /\ pc' = [pc EXCEPT ![w] = "exit"]
  /\ UNCHANGED <<pool, pjob, calls, accepted, runs>>

\* pool->head, and the list behind it.
Front == IF queue = <<>> THEN NULL ELSE Head(queue)
Behind == IF queue = <<>> THEN <<>> ELSE Tail(queue)

Take(w) ==
  /\ pc[w] = "lock"
  /\ ~NothingToDo /\ ~pool_close
  /\ queue_cur_num' = queue_cur_num - 1
  /\ pjob' = [pjob EXCEPT ![w] = Front]
  /\ queue' = IF queue_cur_num' = 0 THEN <<>> ELSE Behind
  /\ \E one \in IF queue_cur_num' = 0 THEN Signal("queue_empty") ELSE Nobody,
        all \in IF queue_cur_num' = queue_max_num - 1
                THEN Broadcast("queue_not_full") ELSE Nobody :
       Move(w, "run", one \cup all)
  /\ UNCHANGED <<queue_close, pool_close, freed, calls, accepted, runs>>

\* The callback, outside the mutex, then free(pjob).
Run(w) ==
  /\ pc[w] = "run"
  /\ runs' = [runs EXCEPT ![pjob[w]] = @ + 1]
  /\ pjob' = [pjob EXCEPT ![w] = NULL]
  /\ pc' = [pc EXCEPT ![w] = "lock"]
  /\ UNCHANGED <<pool, calls, accepted>>

-----------------------------------------------------------------------------
(* threadpool_destroy                                                       *)

CallDestroy(c) ==
  /\ pc[c] = "idle"
  /\ ~freed
  /\ pc' = [pc EXCEPT ![c] = "lock"]
  /\ UNCHANGED <<pool, pjob, calls, accepted, runs>>

\* Return -1: the pool is being destroyed already.
DestroyRefuse(c) ==
  /\ pc[c] = "lock" /\ ~freed
  /\ Closed
  /\ pc' = [pc EXCEPT ![c] = "returned"]
  /\ UNCHANGED <<pool, pjob, calls, accepted, runs>>

\* Slip: the wait for the list to drain is dropped.
ShutAtOnce(c) ==
  /\ pool_close' = TRUE
  /\ pc' = [pc EXCEPT ![c] = "wake_workers"]

\* The loop on queue_empty and what follows it up to the unlock.
DrainOrShut(c) ==
  \/ /\ queue_cur_num # 0
     /\ pc' = [pc EXCEPT ![c] = "queue_empty"]
     /\ UNCHANGED pool_close
  \/ /\ queue_cur_num = 0
     /\ pool_close' = TRUE
     /\ pc' = [pc EXCEPT ![c] = "wake_workers"]

DestroyBegin(c) ==
  /\ pc[c] = "lock" /\ ~freed
  /\ ~Closed
  /\ queue_close' = TRUE
  /\ DrainOrShut(c)
  /\ UNCHANGED <<queue, queue_cur_num, freed, pjob, calls, accepted, runs>>

DestroyResume(c) ==
  /\ pc[c] = "drain"
  /\ DrainOrShut(c)
  /\ UNCHANGED <<queue, queue_cur_num, queue_close, freed, pjob, calls,
                 accepted, runs>>

\* Slip: nobody is woken.
WakesNoWorker == Nobody

DestroyWakes == Broadcast("queue_not_empty")

\* The two broadcasts are made after the unlock.
WakeWorkers(c) ==
  /\ pc[c] = "wake_workers"
  /\ \E woken \in DestroyWakes : Move(c, "wake_producers", woken)
  /\ UNCHANGED <<pool, pjob, calls, accepted, runs>>

WakeProducers(c) ==
  /\ pc[c] = "wake_producers"
  /\ \E woken \in Broadcast("queue_not_full") : Move(c, "join", woken)
  /\ UNCHANGED <<pool, pjob, calls, accepted, runs>>

\* Slip: the join is over when the first worker has exited.
OneJoined == \E w \in Workers : pc[w] = "exit"

AllJoined == \A w \in Workers : pc[w] = "exit"

\* Joins the workers one after the other: passes when all have exited.
Join(c) ==
  /\ pc[c] = "join"
  /\ AllJoined
  /\ pc' = [pc EXCEPT ![c] = "free"]
  /\ UNCHANGED <<pool, pjob, calls, accepted, runs>>

\* Destroys the mutex and the conditions, frees what is left in the list
\* and the pool, and returns 0.
Free(c) ==
  /\ pc[c] = "free"
  /\ queue' = <<>>
  /\ freed' = TRUE
  /\ pc' = [pc EXCEPT ![c] = "returned"]
  /\ UNCHANGED <<queue_cur_num, queue_close, pool_close, pjob, calls,
                 accepted, runs>>

\* A thread that was inside add_job or destroy when the pool was freed: its
\* next step is pthread_mutex_lock on freed memory, and anything may follow.
UseAfterFree(t) ==
  /\ freed
  /\ pc[t] = "lock"
  /\ pc' = [pc EXCEPT ![t] = "undefined"]
  /\ UNCHANGED <<pool, pjob, calls, accepted, runs>>

-----------------------------------------------------------------------------
AddJob(p) == AddWait(p) \/ AddRefuse(p) \/ AddNoMemory(p) \/ AddEnqueue(p)
                \/ UseAfterFree(p)
Work(w) == TakeWait(w) \/ WorkerExit(w) \/ Take(w) \/ Run(w)
Destroy(c) == \/ DestroyRefuse(c) \/ DestroyBegin(c) \/ DestroyResume(c)
              \/ WakeWorkers(c) \/ WakeProducers(c) \/ Join(c) \/ Free(c)
              \/ UseAfterFree(c)

\* Callers are done: no producer has a call left and every destroy is over.
Quiet == /\ \A p \in Producers : \/ pc[p] = "undefined"
                                 \/ pc[p] = "idle"
                                    /\ (calls[p] = JobsEach \/ freed)
         /\ \A c \in Closers : \/ pc[c] \in {"returned", "undefined"}
                               \/ pc[c] = "idle" /\ freed
         /\ \A w \in Workers : pc[w] = "exit"

Terminating == Quiet /\ UNCHANGED vars

Next == \/ \E p \in Producers : CallAddJob(p) \/ AddJob(p)
        \/ \E w \in Workers : Work(w)
        \/ \E c \in Closers : CallDestroy(c) \/ Destroy(c)
        \/ \E t \in Threads : SpuriousWakeup(t)
        \/ Terminating

\* A thread inside the pool keeps running, and a callback returns.  Nobody
\* has to call add_job or destroy, and no spurious wake-up is owed.
Fairness == /\ \A p \in Producers : WF_vars(AddJob(p))
            /\ \A w \in Workers : WF_vars(Work(w))
            /\ \A c \in Closers : WF_vars(Destroy(c))

SafetySpec == Init /\ [][Next]_vars

Spec == SafetySpec /\ Fairness
-----------------------------------------------------------------------------
(* Properties                                                               *)

ProducerPC == {"idle", "lock", "queue_not_full", "undefined"}
WorkerPC == {"lock", "queue_not_empty", "run", "exit"}
CloserPC == {"idle", "lock", "queue_empty", "drain", "wake_workers",
             "wake_producers", "join", "free", "returned", "undefined"}

ThreadsTyped ==
  /\ pc \in [Threads -> ProducerPC \cup WorkerPC \cup CloserPC]
  /\ \A p \in Producers : pc[p] \in ProducerPC
  /\ \A w \in Workers : pc[w] \in WorkerPC
  /\ \A c \in Closers : pc[c] \in CloserPC

PoolTyped ==
  /\ queue \in Seq(Jobs)
  /\ queue_cur_num \in Nat
  /\ queue_close \in BOOLEAN /\ pool_close \in BOOLEAN /\ freed \in BOOLEAN

HistoryTyped ==
  /\ pjob \in [Workers -> Jobs \cup {NULL}]
  /\ calls \in [Producers -> 0 .. JobsEach]
  /\ \A p \in Producers : pc[p] # "idle" => calls[p] < JobsEach
  /\ accepted \in SUBSET Jobs
  /\ runs \in [Jobs -> Nat]

\* Each thread stays within the steps of the function it executes, and every
\* variable in its type.  That the counter is a natural number says that a worker
\* that has left its loop finds a job, although the two flags it and the loop of
\* the others test are set at different times (threadpool_function).
TypeOK == ThreadsTyped /\ PoolTyped /\ HistoryTyped

\* The counter every condition tests is the length of the list, which never
\* exceeds the bound, although the list is closed by the counter on one side
\* (threadpool_function) and by head == NULL on the other (threadpool_add_job).
Bookkeeping == queue_cur_num = Len(queue) /\ queue_cur_num <= queue_max_num

\* No wake-up is missed: a thread is only ever asleep on a condition that is
\* false.  add_job broadcasts only on an empty list, threadpool_function only
\* at queue_max_num - 1, and pool_close is announced after the unlock.
NoMissedWakeup ==
  /\ \A p \in Producers :
       pc[p] = "queue_not_full" => queue_cur_num = queue_max_num /\ ~pool_close
  /\ \A w \in Workers :
       pc[w] = "queue_not_empty" =>
         /\ queue_cur_num = 0
         /\ pool_close => \E c \in Closers : pc[c] = "wake_workers"
  /\ \A c \in Closers :
       pc[c] = "queue_empty" => queue_cur_num # 0 /\ queue_close

Queued(j) == \E i \in 1 .. Len(queue) : queue[i] = j
Held(j) == \E w \in Workers : pjob[w] = j

\* Every accepted job is in the list, or held by one worker, or has run once,
\* and only one of these; a job that was refused is nowhere.
ExactlyOnce ==
  /\ \A j \in Jobs :
       /\ runs[j] <= 1
       /\ j \in accepted <=> Queued(j) \/ Held(j) \/ runs[j] = 1
       /\ ~(Queued(j) /\ Held(j))
       /\ runs[j] = 1 => ~Queued(j) /\ ~Held(j)
  /\ \A i, k \in 1 .. Len(queue) : queue[i] = queue[k] => i = k
  /\ \A v, w \in Workers : pjob[v] = pjob[w] /\ pjob[v] # NULL => v = w

\* A destroyer past its entry check and not yet back.
Closing(c) == pc[c] \in {"queue_empty", "drain", "wake_workers", "wake_producers",
                         "join", "free"}

\* Shutdown happens in order: the workers are told to exit only when the list
\* is drained, and the pool is freed by one destroyer after every worker has
\* left it, so no worker touches a freed pool or abandons a job.  Nobody sleeps
\* on a condition variable that is destroyed, though producers are not joined.
OrderlyShutdown ==
  /\ pool_close => queue_close /\ queue = <<>>
  /\ freed => /\ pool_close /\ \A w \in Workers : pc[w] = "exit"
              /\ \A t \in Threads : pc[t] \notin {"queue_not_full", "queue_empty"}
  /\ \A c, d \in Closers : Closing(c) /\ Closing(d) => c = d

\* The pool is a job executor: each job is started once, oldest first, by a
\* worker that runs nothing else, and destroy waits for all of them.
Executor == INSTANCE JobExecutor WITH
  Slots <- Workers, Capacity <- queue_max_num, None <- NULL,
  phase <- IF freed THEN "released" ELSE IF pool_close THEN "closed"
           ELSE IF queue_close THEN "draining" ELSE "open",
  submitted <- accepted, pending <- queue, slot <- pjob

ImplementsExecutor == Executor!Spec

\* Every call returns: a blocked add_job gets room or learns of the close, and
\* a destroy ends, unless the thread ran into the freed pool.
CallsReturn ==
  /\ \A p \in Producers : pc[p] # "idle" ~> pc[p] \in {"idle", "undefined"}
  /\ \A c \in Closers : pc[c] # "idle" ~> pc[c] \in {"returned", "undefined"}
=============================================================================
