-------------------------- MODULE ThreadPoolProofs --------------------------
(***************************************************************************)
(* Theorems about ThreadPool for any number of producers, workers and       *)
(* destroyers, any bound of the list and any number of jobs: its invariants, *)
(* that it runs every accepted job exactly once, and that it implements the  *)
(* safety part of JobExecutor.                                              *)
(***************************************************************************)
EXTENDS ThreadPool, SequenceTheorems, TLAPS

\* How far the one destroyer that is closing the pool has come.
ShutdownSteps ==
  /\ \A c \in Closers :
       /\ Closing(c) => queue_close /\ ~freed
       /\ pc[c] \in {"queue_empty", "drain"} => ~pool_close
       /\ pc[c] \in {"wake_workers", "wake_producers", "join", "free"} => pool_close
       /\ pc[c] = "free" => \A w \in Workers : pc[w] = "exit"
  /\ pool_close => queue_close

\* NoMissedWakeup rests on the counter, on the uniqueness of the destroyer and
\* on where it is; the counter rests on the bound being tested under the mutex.
Inv == TypeOK /\ Bookkeeping /\ NoMissedWakeup /\ OrderlyShutdown /\ ShutdownSteps

-----------------------------------------------------------------------------
(* Types                                                                    *)

LEMMA Disjoint ==
  /\ \A p \in Producers : p \in Threads /\ p \notin Workers /\ p \notin Closers
  /\ \A w \in Workers : w \in Threads /\ w \notin Producers /\ w \notin Closers
  /\ \A c \in Closers : c \in Threads /\ c \notin Producers /\ c \notin Workers
  BY ThreadsAssumption DEF Threads

\* A thread that goes to a label of its own function leaves pc typed.
LEMMA StepTyped ==
  ASSUME ThreadsTyped, NEW self \in Threads, NEW label,
         pc' = [pc EXCEPT ![self] = label],
         self \in Producers => label \in ProducerPC,
         self \in Workers => label \in WorkerPC,
         self \in Closers => label \in CloserPC
  PROVE  ThreadsTyped'
  BY Disjoint DEF ThreadsTyped, Threads

\* So does one that wakes others on its way.
LEMMA MoveTyped ==
  ASSUME ThreadsTyped, NEW self \in Threads, NEW label, NEW woken,
         Move(self, label, woken),
         self \in Producers => label \in ProducerPC,
         self \in Workers => label \in WorkerPC,
         self \in Closers => label \in CloserPC,
         \A t \in woken : pc[t] \in {"queue_empty", "queue_not_empty", "queue_not_full"}
  PROVE  ThreadsTyped'
  BY Disjoint DEF ThreadsTyped, Move, Woken, Threads, ProducerPC, WorkerPC, CloserPC

\* What a signal or a broadcast wakes is waiting.
LEMMA WakesWaiters ==
  ASSUME NEW cond, NEW woken,
         woken \in Signal(cond) \/ woken \in Broadcast(cond) \/ woken \in Nobody
  PROVE  \A t \in woken : t \in Threads /\ pc[t] = cond
  BY DEF Signal, Broadcast, Nobody, Waiting

LEMMA InitTyped == Init => TypeOK
  <1> SUFFICES ASSUME Init PROVE TypeOK
    OBVIOUS
  <1>1. ThreadsTyped
    BY Disjoint DEF Init, ThreadsTyped, ProducerPC, WorkerPC, CloserPC
  <1>2. PoolTyped
    <2>1. queue \in Seq(Jobs) /\ queue_cur_num \in Nat
      BY DEF Init
    <2>2. queue_close \in BOOLEAN /\ pool_close \in BOOLEAN /\ freed \in BOOLEAN
      BY Zenon DEF Init
    <2> QED
      BY <2>1, <2>2 DEF PoolTyped
  <1>3. HistoryTyped
    BY Disjoint, SizeAssumption DEF Init, HistoryTyped
  <1> QED
    BY <1>1, <1>2, <1>3 DEF TypeOK

\* A worker past its loop finds a job: the counter is that of the list.
LEMMA TakeFinds ==
  ASSUME TypeOK, Bookkeeping, NEW w \in Workers, Take(w)
  PROVE  /\ ~pool_close /\ queue_cur_num \in Nat \ {0} /\ queue # <<>>
         /\ Front = Head(queue) /\ Behind = Tail(queue)
  <1>1. ~pool_close /\ queue_cur_num \in Nat \ {0}
    BY DEF Take, NothingToDo, TypeOK, PoolTyped
  <1>2. queue # <<>>
    BY <1>1 DEF Bookkeeping
  <1> QED
    BY <1>1, <1>2 DEF Front, Behind

\* Take needs the counter to be that of the list: it takes from its head.
LEMMA NextTyped == TypeOK /\ Bookkeeping /\ [Next]_vars => TypeOK'
  <1> SUFFICES ASSUME TypeOK, Bookkeeping, [Next]_vars PROVE TypeOK'
    OBVIOUS
  <1> USE Disjoint
  <1>1. ASSUME NEW p \in Producers, CallAddJob(p) PROVE TypeOK'
    <2>1. ThreadsTyped'
      BY <1>1, StepTyped DEF CallAddJob, TypeOK, ProducerPC
    <2>2. PoolTyped' /\ HistoryTyped'
      BY <1>1 DEF CallAddJob, TypeOK, ThreadsTyped, PoolTyped, HistoryTyped, pool
    <2> QED
      BY <2>1, <2>2 DEF TypeOK
  <1>2. ASSUME NEW p \in Producers, AddWait(p) PROVE TypeOK'
    <2>1. ThreadsTyped'
      BY <1>2, StepTyped DEF AddWait, TypeOK, ProducerPC
    <2>2. PoolTyped' /\ HistoryTyped'
      BY <1>2 DEF AddWait, TypeOK, ThreadsTyped, PoolTyped, HistoryTyped, pool
    <2> QED
      BY <2>1, <2>2 DEF TypeOK
  <1>3. ASSUME NEW p \in Producers, AddRefuse(p) \/ AddNoMemory(p) PROVE TypeOK'
    <2>1. ThreadsTyped'
      BY <1>3, StepTyped DEF AddRefuse, AddNoMemory, TypeOK, ProducerPC
    <2>2. calls[p] + 1 \in 0 .. JobsEach
      BY <1>3, SizeAssumption DEF AddRefuse, AddNoMemory, TypeOK, HistoryTyped
    <2>3. PoolTyped' /\ HistoryTyped'
      BY <1>3, <2>2 DEF AddRefuse, AddNoMemory, TypeOK, ThreadsTyped, PoolTyped,
                        HistoryTyped, pool
    <2> QED
      BY <2>1, <2>3 DEF TypeOK
  <1>4. ASSUME NEW p \in Producers, AddEnqueue(p) PROVE TypeOK'
    <2> DEFINE job == <<p, calls[p] + 1>>
    <2>1. PICK woken \in AddWakes : Move(p, "idle", woken)
      BY <1>4 DEF AddEnqueue
    <2>2. \A t \in woken : t \in Threads /\ pc[t] = "queue_not_empty"
      BY <2>1, WakesWaiters DEF AddWakes, Nobody
    <2>3. ThreadsTyped'
      BY <2>1, <2>2, MoveTyped DEF TypeOK, ProducerPC
    <2>4. calls[p] + 1 \in 1 .. JobsEach /\ job \in Jobs
      BY <1>4, SizeAssumption DEF AddEnqueue, TypeOK, HistoryTyped, Jobs
    <2>5. PoolTyped'
      BY <1>4, <2>4 DEF AddEnqueue, Link, TypeOK, PoolTyped
    <2>6. \A q \in Producers : pc'[q] # "idle" => q # p /\ pc[q] # "idle"
      BY <2>1, <2>2 DEF Move
    <2>7. HistoryTyped'
      BY <1>4, <2>4, <2>6, SizeAssumption DEF AddEnqueue, TypeOK, HistoryTyped
    <2> QED
      BY <2>3, <2>5, <2>7 DEF TypeOK
  <1>5. ASSUME NEW w \in Workers, TakeWait(w) \/ WorkerExit(w) PROVE TypeOK'
    <2>1. ThreadsTyped'
      BY <1>5, StepTyped DEF TakeWait, WorkerExit, TypeOK, WorkerPC
    <2>2. PoolTyped' /\ HistoryTyped'
      BY <1>5 DEF TakeWait, WorkerExit, TypeOK, ThreadsTyped, PoolTyped, HistoryTyped, pool
    <2> QED
      BY <2>1, <2>2 DEF TypeOK
  <1>6. ASSUME NEW w \in Workers, Take(w) PROVE TypeOK'
    <2>1. PICK one \in IF queue_cur_num' = 0 THEN Signal("queue_empty") ELSE Nobody,
               all \in IF queue_cur_num' = queue_max_num - 1
                       THEN Broadcast("queue_not_full") ELSE Nobody :
                 Move(w, "run", one \cup all)
      BY <1>6 DEF Take
    <2>2. /\ \A t \in one : t \in Threads /\ pc[t] = "queue_empty"
          /\ \A t \in all : t \in Threads /\ pc[t] = "queue_not_full"
      BY <2>1, WakesWaiters
    <2>3. ThreadsTyped'
      BY <2>1, <2>2, MoveTyped DEF TypeOK, WorkerPC
    <2>4. /\ Front \in Jobs /\ Behind \in Seq(Jobs)
          /\ queue_cur_num \in Nat \ {0}
      BY <1>6, TakeFinds DEF TypeOK, PoolTyped
    <2>5. PoolTyped'
      BY <1>6, <2>4 DEF Take, TypeOK, PoolTyped
    <2>6. \A q \in Producers : pc'[q] # "idle" => pc[q] # "idle"
      BY <2>1, <2>2 DEF Move, Woken
    <2>7. HistoryTyped'
      BY <1>6, <2>4, <2>6 DEF Take, TypeOK, HistoryTyped
    <2> QED
      BY <2>3, <2>5, <2>7 DEF TypeOK
  <1>7. ASSUME NEW w \in Workers, Run(w) PROVE TypeOK'
    <2>1. ThreadsTyped'
      BY <1>7, StepTyped DEF Run, TypeOK, WorkerPC
    <2>2. PoolTyped'
      BY <1>7 DEF Run, TypeOK, PoolTyped, pool
    <2>3. runs' \in [Jobs -> Nat]
      <3>1. \A j \in Jobs : runs[j] \in Nat /\ runs[j] + 1 \in Nat
        BY DEF TypeOK, HistoryTyped
      <3> QED
        BY <1>7, <3>1 DEF Run, TypeOK, HistoryTyped
    <2>4. HistoryTyped'
      BY <1>7, <2>3 DEF Run, TypeOK, ThreadsTyped, HistoryTyped
    <2> QED
      BY <2>1, <2>2, <2>4 DEF TypeOK
  <1>8. ASSUME NEW c \in Closers, CallDestroy(c) \/ DestroyRefuse(c) \/ Join(c)
        PROVE TypeOK'
    <2>1. ThreadsTyped'
      BY <1>8, StepTyped DEF CallDestroy, DestroyRefuse, Join, TypeOK, CloserPC
    <2>2. PoolTyped' /\ HistoryTyped'
      BY <1>8 DEF CallDestroy, DestroyRefuse, Join, TypeOK, ThreadsTyped, PoolTyped,
                  HistoryTyped, pool
    <2> QED
      BY <2>1, <2>2 DEF TypeOK
  <1>9. ASSUME NEW c \in Closers, DestroyBegin(c) \/ DestroyResume(c) PROVE TypeOK'
    <2>1. ThreadsTyped'
      BY <1>9, StepTyped DEF DestroyBegin, DestroyResume, DrainOrShut, TypeOK, CloserPC
    <2>2. PoolTyped' /\ HistoryTyped'
      BY <1>9 DEF DestroyBegin, DestroyResume, DrainOrShut, TypeOK, ThreadsTyped,
                  PoolTyped, HistoryTyped
    <2> QED
      BY <2>1, <2>2 DEF TypeOK
  <1>10. ASSUME NEW c \in Closers, WakeWorkers(c) \/ WakeProducers(c) PROVE TypeOK'
    <2>1. PICK label \in {"wake_producers", "join"}, woken \in SUBSET Threads :
            /\ Move(c, label, woken)
            /\ \A t \in woken : pc[t] \in {"queue_not_empty", "queue_not_full"}
      BY <1>10, WakesWaiters DEF WakeWorkers, WakeProducers, DestroyWakes, Broadcast, Waiting
    <2>2. ThreadsTyped'
      BY <2>1, MoveTyped DEF TypeOK, CloserPC
    <2>3. \A q \in Producers : pc'[q] # "idle" => pc[q] # "idle"
      BY <2>1 DEF Move, Woken
    <2>4. PoolTyped' /\ HistoryTyped'
      BY <1>10, <2>3 DEF WakeWorkers, WakeProducers, TypeOK, PoolTyped, HistoryTyped, pool
    <2> QED
      BY <2>2, <2>4 DEF TypeOK
  <1>11. ASSUME NEW c \in Closers, Free(c) PROVE TypeOK'
    <2>1. ThreadsTyped'
      BY <1>11, StepTyped DEF Free, TypeOK, CloserPC
    <2>2. PoolTyped' /\ HistoryTyped'
      BY <1>11 DEF Free, TypeOK, ThreadsTyped, PoolTyped, HistoryTyped
    <2> QED
      BY <2>1, <2>2 DEF TypeOK
  <1>12. ASSUME NEW t \in Producers \cup Closers, UseAfterFree(t) PROVE TypeOK'
    <2>1. ThreadsTyped'
      BY <1>12, StepTyped DEF UseAfterFree, TypeOK, ProducerPC, CloserPC, Threads
    <2>2. PoolTyped' /\ HistoryTyped'
      BY <1>12 DEF UseAfterFree, TypeOK, ThreadsTyped, PoolTyped, HistoryTyped, pool
    <2> QED
      BY <2>1, <2>2 DEF TypeOK
  <1>13. ASSUME NEW t \in Threads, SpuriousWakeup(t) PROVE TypeOK'
    <2>1. ThreadsTyped'
      BY <1>13 DEF SpuriousWakeup, Woken, TypeOK, ThreadsTyped, Threads,
                   ProducerPC, WorkerPC, CloserPC
    <2>2. PoolTyped' /\ HistoryTyped'
      BY <1>13 DEF SpuriousWakeup, TypeOK, ThreadsTyped, PoolTyped, HistoryTyped, pool
    <2> QED
      BY <2>1, <2>2 DEF TypeOK
  <1>14. CASE UNCHANGED vars
    BY <1>14 DEF vars, pool, TypeOK, ThreadsTyped, PoolTyped, HistoryTyped
  <1> QED
    BY <1>1, <1>2, <1>3, <1>4, <1>5, <1>6, <1>7, <1>8, <1>9, <1>10, <1>11, <1>12,
       <1>13, <1>14
       DEF Next, AddJob, Work, Destroy, Terminating

-----------------------------------------------------------------------------
(* The inductive invariant                                                  *)

\* A step of one thread that leaves the pool alone, sleeps on no condition and
\* does not enter, leave or advance the closing of the pool.
LEMMA QuietStep ==
  ASSUME Inv, NEW self \in Threads, NEW label, UNCHANGED pool,
         pc' = [pc EXCEPT ![self] = label],
         label \notin {"queue_not_full", "queue_not_empty", "queue_empty", "drain",
                       "wake_workers", "wake_producers", "join", "free"},
         self \in Workers => pc[self] # "exit",
         self \in Closers => ~Closing(self)
  PROVE  Bookkeeping' /\ NoMissedWakeup' /\ OrderlyShutdown' /\ ShutdownSteps'
  <1> USE Disjoint
  <1>1. Bookkeeping'
    BY DEF Inv, Bookkeeping, pool
  <1>2. \A t \in Threads : pc'[t] = IF t = self THEN label ELSE pc[t]
    BY DEF Inv, TypeOK, ThreadsTyped
  <1>3. NoMissedWakeup'
    BY <1>2 DEF Inv, NoMissedWakeup, Closing, pool
  <1>4. OrderlyShutdown'
    BY <1>2 DEF Inv, OrderlyShutdown, Closing, pool
  <1>5. ShutdownSteps'
    BY <1>2 DEF Inv, ShutdownSteps, Closing, pool
  <1> QED
    BY <1>1, <1>3, <1>4, <1>5

LEMMA InitInv == Init => Inv
  <1> SUFFICES ASSUME Init PROVE Inv
    OBVIOUS
  <1>1. \A t \in Threads : pc[t] = IF t \in Workers THEN "lock" ELSE "idle"
    BY DEF Init
  <1>2. Bookkeeping
    BY SizeAssumption DEF Init, Bookkeeping
  <1>3. NoMissedWakeup /\ OrderlyShutdown /\ ShutdownSteps
    BY <1>1, Disjoint DEF Init, NoMissedWakeup, OrderlyShutdown, ShutdownSteps, Closing
  <1> QED
    BY <1>2, <1>3, InitTyped DEF Inv

LEMMA NextInv == Inv /\ [Next]_vars => Inv'
  <1> SUFFICES ASSUME Inv, [Next]_vars
               PROVE  Bookkeeping' /\ NoMissedWakeup' /\ OrderlyShutdown' /\ ShutdownSteps'
    BY NextTyped DEF Inv
  <1> USE Disjoint
  <1>1. ASSUME NEW p \in Producers, CallAddJob(p) \/ AddRefuse(p) \/ AddNoMemory(p)
        PROVE  Bookkeeping' /\ NoMissedWakeup' /\ OrderlyShutdown' /\ ShutdownSteps'
    BY <1>1, QuietStep DEF CallAddJob, AddRefuse, AddNoMemory
  <1>2. ASSUME NEW p \in Producers, AddWait(p)
        PROVE  Bookkeeping' /\ NoMissedWakeup' /\ OrderlyShutdown' /\ ShutdownSteps'
    <2>1. \A t \in Threads : pc'[t] = IF t = p THEN "queue_not_full" ELSE pc[t]
      BY <1>2 DEF AddWait, Inv, TypeOK, ThreadsTyped
    <2>2. Bookkeeping'
      BY <1>2 DEF AddWait, Inv, Bookkeeping, pool
    <2>3. NoMissedWakeup'
      BY <1>2, <2>1 DEF AddWait, Closed, Inv, NoMissedWakeup, pool
    <2>4. OrderlyShutdown' /\ ShutdownSteps'
      BY <1>2, <2>1 DEF AddWait, Inv, OrderlyShutdown, ShutdownSteps, Closing, pool
    <2> QED
      BY <2>2, <2>3, <2>4
  <1>3. ASSUME NEW p \in Producers, AddEnqueue(p)
        PROVE  Bookkeeping' /\ NoMissedWakeup' /\ OrderlyShutdown' /\ ShutdownSteps'
    <2>1. PICK woken \in AddWakes : Move(p, "idle", woken)
      BY <1>3 DEF AddEnqueue
    <2>2. /\ \A t \in woken : t \in Threads /\ pc[t] = "queue_not_empty"
          /\ queue = <<>> => woken = Waiting("queue_not_empty")
      BY <2>1, WakesWaiters DEF AddWakes, Broadcast, Nobody
    <2>3. \A t \in Threads : pc'[t] = IF t = p THEN "idle"
                                      ELSE IF t \in woken THEN "lock" ELSE pc[t]
      BY <2>1, <2>2 DEF Move, Woken
    <2>4. /\ queue_cur_num' = Len(queue') /\ queue_cur_num' = queue_cur_num + 1
          /\ queue_cur_num \in Nat /\ queue_cur_num < queue_max_num
          /\ ~queue_close /\ ~pool_close
      BY <1>3, SizeAssumption DEF AddEnqueue, Room, Closed, Link, Inv, TypeOK, PoolTyped,
                                  Bookkeeping
    <2>5. Bookkeeping'
      BY <2>4, SizeAssumption DEF Bookkeeping
    <2>6. queue # <<>> => queue_cur_num # 0
      BY DEF Inv, TypeOK, PoolTyped, Bookkeeping
    <2>7. \A w \in Workers : pc'[w] # "queue_not_empty"
      BY <2>2, <2>3, <2>6 DEF Inv, NoMissedWakeup, Waiting
    <2>8. \A q \in Producers : pc'[q] # "queue_not_full"
      BY <2>3, <2>4, SizeAssumption DEF Inv, NoMissedWakeup
    <2>9. \A c \in Closers : pc'[c] # "queue_empty"
      BY <2>3, <2>4 DEF Inv, NoMissedWakeup
    <2>10. NoMissedWakeup'
      BY <2>7, <2>8, <2>9 DEF NoMissedWakeup
    <2>11. \A c \in Closers : ~Closing(c) /\ ~Closing(c)'
      BY <2>3, <2>4 DEF Inv, ShutdownSteps, Closing
    <2>12. OrderlyShutdown' /\ ShutdownSteps'
      BY <1>3, <2>4, <2>11 DEF AddEnqueue, Inv, OrderlyShutdown, ShutdownSteps, Closing
    <2> QED
      BY <2>5, <2>10, <2>12
  <1>4. ASSUME NEW w \in Workers, TakeWait(w)
        PROVE  Bookkeeping' /\ NoMissedWakeup' /\ OrderlyShutdown' /\ ShutdownSteps'
    <2>1. \A t \in Threads : pc'[t] = IF t = w THEN "queue_not_empty" ELSE pc[t]
      BY <1>4 DEF TakeWait, Inv, TypeOK, ThreadsTyped
    <2>2. Bookkeeping'
      BY <1>4 DEF TakeWait, Inv, Bookkeeping, pool
    <2>3. NoMissedWakeup'
      BY <1>4, <2>1 DEF TakeWait, NothingToDo, Inv, NoMissedWakeup, pool
    <2>4. OrderlyShutdown' /\ ShutdownSteps'
      BY <1>4, <2>1 DEF TakeWait, Inv, OrderlyShutdown, ShutdownSteps, Closing, pool
    <2> QED
      BY <2>2, <2>3, <2>4
  <1>5. ASSUME NEW w \in Workers, WorkerExit(w) \/ Run(w)
        PROVE  Bookkeeping' /\ NoMissedWakeup' /\ OrderlyShutdown' /\ ShutdownSteps'
    BY <1>5, QuietStep DEF WorkerExit, Run
  <1>6. ASSUME NEW w \in Workers, Take(w)
        PROVE  Bookkeeping' /\ NoMissedWakeup' /\ OrderlyShutdown' /\ ShutdownSteps'
    <2>1. PICK one \in IF queue_cur_num' = 0 THEN Signal("queue_empty") ELSE Nobody,
               all \in IF queue_cur_num' = queue_max_num - 1
                       THEN Broadcast("queue_not_full") ELSE Nobody :
                 Move(w, "run", one \cup all)
      BY <1>6 DEF Take
    <2>2. /\ \A t \in one : t \in Threads /\ pc[t] = "queue_empty"
          /\ \A t \in all : t \in Threads /\ pc[t] = "queue_not_full"
          /\ queue_cur_num' = 0 => one \in Signal("queue_empty")
          /\ queue_cur_num' = queue_max_num - 1 => all = Waiting("queue_not_full")
      BY <2>1, WakesWaiters DEF Broadcast
    <2>3. \A t \in Threads : pc'[t] = IF t = w THEN "run"
                                      ELSE IF t \in one THEN "drain"
                                      ELSE IF t \in all THEN "lock" ELSE pc[t]
      BY <2>1, <2>2 DEF Move, Woken
    <2>4. /\ queue_cur_num' = queue_cur_num - 1 /\ queue_cur_num' = Len(queue')
          /\ queue_cur_num \in Nat \ {0} /\ ~pool_close
      <3>1. /\ queue_cur_num \in Nat \ {0} /\ ~pool_close /\ queue # <<>>
            /\ Behind = Tail(queue) /\ queue \in Seq(Jobs) /\ queue_cur_num = Len(queue)
        BY <1>6, TakeFinds DEF Inv, TypeOK, PoolTyped, Bookkeeping
      <3>2. /\ queue_cur_num' = queue_cur_num - 1
            /\ queue' = IF queue_cur_num' = 0 THEN <<>> ELSE Tail(queue)
        BY <1>6, <3>1 DEF Take
      <3>3. Len(Tail(queue)) = Len(queue) - 1 /\ Len(<<>>) = 0
        BY <3>1
      <3> QED
        BY <3>1, <3>2, <3>3
    <2>5. Bookkeeping'
      BY <1>6, <2>4, SizeAssumption DEF Inv, Bookkeeping
    <2>6. \A p \in Producers : pc'[p] # "queue_not_full"
      BY <2>2, <2>3, <2>4, SizeAssumption DEF Inv, NoMissedWakeup, Waiting
    <2>7. \A v \in Workers : pc'[v] # "queue_not_empty"
      BY <2>3, <2>4 DEF Inv, NoMissedWakeup
    <2>8. \A c \in Closers : pc'[c] = "queue_empty" => queue_cur_num' # 0 /\ queue_close
      <3> SUFFICES ASSUME NEW c \in Closers, pc'[c] = "queue_empty", queue_cur_num' = 0
                   PROVE  FALSE
        BY <2>3 DEF Inv, NoMissedWakeup
      <3>1. pc[c] = "queue_empty" /\ c \notin one
        BY <2>3
      <3>2. PICK d \in Threads : pc[d] = "queue_empty" /\ one = {d}
        BY <2>2, <3>1 DEF Signal, Waiting
      <3>3. d \in Closers
        BY <3>2 DEF Inv, TypeOK, ThreadsTyped, Threads, ProducerPC, WorkerPC
      <3> QED
        BY <3>1, <3>2, <3>3 DEF Inv, OrderlyShutdown, Closing
    <2>9. NoMissedWakeup'
      BY <1>6, <2>6, <2>7, <2>8 DEF Take, NoMissedWakeup
    <2>10. \A c \in Closers : (Closing(c))' <=> Closing(c)
      BY <2>2, <2>3 DEF Inv, TypeOK, ThreadsTyped, CloserPC, Closing
    <2>11. OrderlyShutdown'
      BY <1>6, <2>3, <2>4, <2>10 DEF Take, Inv, OrderlyShutdown
    <2>12. ShutdownSteps'
      BY <1>6, <2>2, <2>3, <2>4, <2>10 DEF Take, Inv, ShutdownSteps, Closing
    <2> QED
      BY <2>5, <2>9, <2>11, <2>12
  <1>7. ASSUME NEW c \in Closers, CallDestroy(c) \/ DestroyRefuse(c)
        PROVE  Bookkeeping' /\ NoMissedWakeup' /\ OrderlyShutdown' /\ ShutdownSteps'
    BY <1>7, QuietStep DEF CallDestroy, DestroyRefuse, Closing
  <1>8. ASSUME NEW c \in Closers, DestroyBegin(c) \/ DestroyResume(c)
        PROVE  Bookkeeping' /\ NoMissedWakeup' /\ OrderlyShutdown' /\ ShutdownSteps'
    <2>1. /\ queue' = queue /\ queue_cur_num' = queue_cur_num /\ freed' = freed
          /\ queue_close' /\ ~pool_close /\ ~freed
          /\ \A d \in Closers : Closing(d) => d = c
      BY <1>8 DEF DestroyBegin, DestroyResume, Closed, Inv, ShutdownSteps, OrderlyShutdown,
                  Closing
    <2>2. PICK label \in {"queue_empty", "wake_workers"} :
            /\ pc' = [pc EXCEPT ![c] = label]
            /\ label = "queue_empty" => queue_cur_num # 0 /\ ~pool_close'
            /\ label = "wake_workers" => queue_cur_num = 0 /\ pool_close'
      <3>1. DrainOrShut(c)
        BY <1>8 DEF DestroyBegin, DestroyResume
      <3>2. CASE queue_cur_num # 0
        <4>1. pc' = [pc EXCEPT ![c] = "queue_empty"] /\ ~pool_close'
          BY <2>1, <3>1, <3>2 DEF DrainOrShut
        <4> QED
          BY <3>2, <4>1
      <3>3. CASE queue_cur_num = 0
        <4>1. pc' = [pc EXCEPT ![c] = "wake_workers"] /\ pool_close'
          BY <3>1, <3>3 DEF DrainOrShut
        <4> QED
          BY <3>3, <4>1
      <3> QED
        BY <3>2, <3>3
    <2>3. \A t \in Threads : pc'[t] = IF t = c THEN label ELSE pc[t]
      BY <2>2 DEF Inv, TypeOK, ThreadsTyped
    <2>4. Bookkeeping'
      BY <2>1 DEF Inv, Bookkeeping
    <2>5. NoMissedWakeup'
      BY <2>1, <2>2, <2>3, SizeAssumption DEF Inv, NoMissedWakeup
    <2>6. pool_close' => queue' = <<>>
      BY <2>1, <2>2 DEF Inv, Bookkeeping, TypeOK, PoolTyped
    <2>7. OrderlyShutdown'
      BY <2>1, <2>3, <2>6 DEF OrderlyShutdown, Closing
    <2>8. ShutdownSteps'
      BY <2>1, <2>2, <2>3 DEF ShutdownSteps, Closing
    <2> QED
      BY <2>4, <2>5, <2>7, <2>8
  <1>9. ASSUME NEW c \in Closers, WakeWorkers(c)
        PROVE  Bookkeeping' /\ NoMissedWakeup' /\ OrderlyShutdown' /\ ShutdownSteps'
    <2>1. Move(c, "wake_producers", Waiting("queue_not_empty"))
      BY <1>9 DEF WakeWorkers, DestroyWakes, Broadcast
    <2>2. \A t \in Threads :
            pc'[t] = IF t = c THEN "wake_producers"
                     ELSE IF pc[t] = "queue_not_empty" THEN "lock" ELSE pc[t]
      BY <2>1 DEF Move, Woken, Waiting
    <2>3. Bookkeeping'
      BY <1>9 DEF WakeWorkers, Inv, Bookkeeping, pool
    <2>4. NoMissedWakeup'
      BY <1>9, <2>2 DEF WakeWorkers, Inv, NoMissedWakeup, pool
    <2>5. OrderlyShutdown' /\ ShutdownSteps'
      BY <1>9, <2>2 DEF WakeWorkers, Inv, OrderlyShutdown, ShutdownSteps, Closing, pool
    <2> QED
      BY <2>3, <2>4, <2>5
  <1>10. ASSUME NEW c \in Closers, WakeProducers(c)
         PROVE  Bookkeeping' /\ NoMissedWakeup' /\ OrderlyShutdown' /\ ShutdownSteps'
    <2>1. Move(c, "join", Waiting("queue_not_full"))
      BY <1>10 DEF WakeProducers, Broadcast
    <2>2. \A t \in Threads :
            pc'[t] = IF t = c THEN "join"
                     ELSE IF pc[t] = "queue_not_full" THEN "lock" ELSE pc[t]
      BY <2>1 DEF Move, Woken, Waiting
    <2>3. pc[c] = "wake_producers" /\ \A d \in Closers : pc[d] # "wake_workers"
      BY <1>10 DEF WakeProducers, Inv, OrderlyShutdown, Closing
    <2>4. Bookkeeping'
      BY <1>10 DEF WakeProducers, Inv, Bookkeeping, pool
    <2>5. NoMissedWakeup'
      BY <1>10, <2>2, <2>3 DEF WakeProducers, Inv, NoMissedWakeup, pool
    <2>6. OrderlyShutdown' /\ ShutdownSteps'
      BY <1>10, <2>2 DEF WakeProducers, Inv, OrderlyShutdown, ShutdownSteps, Closing, pool
    <2> QED
      BY <2>4, <2>5, <2>6
  <1>11. ASSUME NEW c \in Closers, Join(c)
         PROVE  Bookkeeping' /\ NoMissedWakeup' /\ OrderlyShutdown' /\ ShutdownSteps'
    <2>1. \A t \in Threads : pc'[t] = IF t = c THEN "free" ELSE pc[t]
      BY <1>11 DEF Join, Inv, TypeOK, ThreadsTyped
    <2>2. Bookkeeping'
      BY <1>11 DEF Join, Inv, Bookkeeping, pool
    <2>3. NoMissedWakeup'
      BY <1>11, <2>1 DEF Join, Inv, NoMissedWakeup, pool
    <2>4. OrderlyShutdown' /\ ShutdownSteps'
      BY <1>11, <2>1 DEF Join, AllJoined, Inv, OrderlyShutdown, ShutdownSteps, Closing, pool
    <2> QED
      BY <2>2, <2>3, <2>4
  <1>12. ASSUME NEW c \in Closers, Free(c)
         PROVE  Bookkeeping' /\ NoMissedWakeup' /\ OrderlyShutdown' /\ ShutdownSteps'
    <2>1. \A t \in Threads : pc'[t] = IF t = c THEN "returned" ELSE pc[t]
      BY <1>12 DEF Free, Inv, TypeOK, ThreadsTyped
    <2>2. /\ pool_close /\ queue = <<>> /\ queue_cur_num = 0
          /\ \A w \in Workers : pc[w] = "exit"
          /\ \A d \in Closers : Closing(d) => d = c
      BY <1>12 DEF Free, Inv, TypeOK, PoolTyped, Bookkeeping, OrderlyShutdown,
                   ShutdownSteps, Closing
    <2>3. Bookkeeping'
      BY <1>12, <2>2, SizeAssumption DEF Free, Bookkeeping
    <2>4. NoMissedWakeup'
      BY <1>12, <2>1, <2>2 DEF Free, Inv, NoMissedWakeup
    <2>5. \A d \in Closers : ~(Closing(d))'
      BY <2>1, <2>2 DEF Closing
    <2>6. \A t \in Threads : pc'[t] \notin {"queue_not_full", "queue_empty"}
      BY <2>1, <2>2 DEF Inv, NoMissedWakeup, TypeOK, ThreadsTyped, ProducerPC, WorkerPC,
                        CloserPC, Threads
    <2>7. OrderlyShutdown' /\ ShutdownSteps'
      BY <1>12, <2>1, <2>2, <2>5, <2>6 DEF Free, Inv, OrderlyShutdown, ShutdownSteps,
                                           Closing
    <2> QED
      BY <2>3, <2>4, <2>7
  <1>13. ASSUME NEW t \in Producers \cup Closers, UseAfterFree(t)
         PROVE  Bookkeeping' /\ NoMissedWakeup' /\ OrderlyShutdown' /\ ShutdownSteps'
    BY <1>13, QuietStep DEF UseAfterFree, Closing, Threads
  <1>14. ASSUME NEW t \in Threads, SpuriousWakeup(t)
         PROVE  Bookkeeping' /\ NoMissedWakeup' /\ OrderlyShutdown' /\ ShutdownSteps'
    <2>1. /\ \A u \in Threads : pc'[u] = IF u = t THEN Woken(t) ELSE pc[u]
          /\ Woken(t) = IF pc[t] = "queue_empty" THEN "drain" ELSE "lock"
      BY <1>14 DEF SpuriousWakeup, Woken, Inv, TypeOK, ThreadsTyped
    <2>2. Bookkeeping'
      BY <1>14 DEF SpuriousWakeup, Inv, Bookkeeping, pool
    <2>3. NoMissedWakeup'
      BY <1>14, <2>1 DEF SpuriousWakeup, Inv, NoMissedWakeup, pool
    <2>4. \A c \in Closers : (Closing(c))' <=> Closing(c)
      BY <1>14, <2>1 DEF SpuriousWakeup, Inv, TypeOK, ThreadsTyped, Closing
    <2>5. OrderlyShutdown' /\ ShutdownSteps'
      BY <1>14, <2>1, <2>4 DEF SpuriousWakeup, Inv, OrderlyShutdown, ShutdownSteps,
                               Closing, pool
    <2> QED
      BY <2>2, <2>3, <2>5
  <1>15. CASE UNCHANGED vars
    BY <1>15 DEF vars, pool, Inv, Bookkeeping, NoMissedWakeup, OrderlyShutdown,
                 ShutdownSteps, Closing
  <1> QED
    BY <1>1, <1>2, <1>3, <1>4, <1>5, <1>6, <1>7, <1>8, <1>9, <1>10, <1>11, <1>12,
       <1>13, <1>14, <1>15
       DEF Next, AddJob, Work, Destroy, Terminating

LEMMA Invariance == SafetySpec => []Inv
  BY InitInv, NextInv, PTL DEF SafetySpec

-----------------------------------------------------------------------------
(* Theorems                                                                 *)

\* Every thread of the pool stays within the function it executes, and every
\* field of the pool within its type.
THEOREM TypeCorrect == Spec => []TypeOK
  BY Invariance, PTL DEF Spec, Inv

\* The counter and the list agree and stay within queue_max_num.
THEOREM BookkeepingHolds == Spec => []Bookkeeping
  BY Invariance, PTL DEF Spec, Inv

\* No signal or broadcast is missing: whoever sleeps has a reason to.
THEOREM WakeupsSuffice == Spec => []NoMissedWakeup
  BY Invariance, PTL DEF Spec, Inv

\* The list is drained before the workers are told to exit, the workers have
\* exited before the pool is freed, and nobody sleeps on what is then destroyed.
THEOREM ShutdownIsOrderly == Spec => []OrderlyShutdown
  BY Invariance, PTL DEF Spec, Inv

-----------------------------------------------------------------------------
(* Every job once, and the refinement                                       *)

\* ExactlyOnce is inductive once two things are known: a worker holds a job
\* exactly while it runs one, and a job's number tells whether its add_job has
\* returned, so that no accepted job is added again.
Ledger ==
  /\ ExactlyOnce
  /\ \A w \in Workers : pc[w] = "run" <=> pjob[w] # NULL
  /\ \A p \in Producers, n \in 1 .. JobsEach : <<p, n>> \in accepted => n <= calls[p]

-----------------------------------------------------------------------------
(* What a step does to the list                                             *)

\* Both branches of threadpool_function leave the list without its head.
LEMMA TakeRemovesHead ==
  ASSUME Inv, NEW w \in Workers, Take(w)
  PROVE  /\ queue # <<>> /\ queue' = Tail(queue)
         /\ pjob' = [pjob EXCEPT ![w] = queue[1]]
         /\ queue[1] \in Jobs
         /\ \A j \in Jobs : (Queued(j))' <=> \E i \in 2 .. Len(queue) : queue[i] = j
  <1>1. /\ queue \in Seq(Jobs) /\ queue_cur_num = Len(queue) /\ queue_cur_num # 0
        /\ Front = Head(queue) /\ Behind = Tail(queue)
    BY TakeFinds DEF Inv, TypeOK, PoolTyped, Bookkeeping
  <1>2. queue # <<>> /\ Len(queue) \in Nat \ {0}
    BY <1>1, EmptySeq
  <1>3. /\ Tail(queue) \in Seq(Jobs) /\ Len(Tail(queue)) = Len(queue) - 1
        /\ \A i \in 1 .. Len(queue) - 1 : Tail(queue)[i] = queue[i + 1]
        /\ Head(queue) = queue[1] /\ Head(queue) \in Jobs
    BY <1>1, <1>2, HeadTailProperties
  <1>4. queue' = Tail(queue)
    <2>1. CASE queue_cur_num' = 0
      <3>1. Len(Tail(queue)) = 0
        BY <1>1, <1>3, <2>1 DEF Take
      <3>2. Tail(queue) = <<>>
        BY <1>3, <3>1, EmptySeq
      <3> QED
        BY <2>1, <3>2 DEF Take
    <2>2. CASE queue_cur_num' # 0
      BY <1>1, <2>2 DEF Take
    <2> QED
      BY <2>1, <2>2
  <1>5. ASSUME NEW j \in Jobs
        PROVE  (Queued(j))' <=> \E i \in 2 .. Len(queue) : queue[i] = j
    <2>1. ASSUME NEW i \in 1 .. Len(queue'), queue'[i] = j
          PROVE  i + 1 \in 2 .. Len(queue) /\ queue[i + 1] = j
      BY <1>2, <1>3, <1>4, <2>1
    <2>2. ASSUME NEW i \in 2 .. Len(queue), queue[i] = j
          PROVE  i - 1 \in 1 .. Len(queue') /\ queue'[i - 1] = j
      BY <1>2, <1>3, <1>4, <2>2
    <2> QED
      BY <2>1, <2>2 DEF Queued
  <1> QED
    BY <1>1, <1>2, <1>3, <1>4, <1>5 DEF Take

LEMMA EnqueueAddsLast ==
  ASSUME Inv, NEW p \in Producers, AddEnqueue(p)
  PROVE  /\ <<p, calls[p] + 1>> \in Jobs
         /\ queue \in Seq(Jobs) /\ Len(queue) \in Nat
         /\ Len(queue') = Len(queue) + 1
         /\ \A i \in 1 .. Len(queue) : queue'[i] = queue[i]
         /\ queue'[Len(queue) + 1] = <<p, calls[p] + 1>>
         /\ \A j \in Jobs : (Queued(j))' <=> Queued(j) \/ j = <<p, calls[p] + 1>>
  <1> DEFINE job == <<p, calls[p] + 1>>
  <1>1. job \in Jobs
    BY Disjoint, SizeAssumption DEF AddEnqueue, Inv, TypeOK, HistoryTyped, Jobs
  <1>2. queue \in Seq(Jobs) /\ queue' = Append(queue, job)
    BY DEF AddEnqueue, Link, Inv, TypeOK, PoolTyped
  <1>3. /\ Len(queue) \in Nat /\ Len(queue') = Len(queue) + 1
        /\ \A i \in 1 .. Len(queue) : queue'[i] = queue[i]
        /\ queue'[Len(queue) + 1] = job
    BY <1>1, <1>2, AppendProperties, LenProperties
  <1>4. \A j \in Jobs : (Queued(j))' <=> Queued(j) \/ j = job
    <2> HIDE DEF job
    <2>1. \A i : i \in 1 .. Len(queue') <=> i \in 1 .. Len(queue) \/ i = Len(queue) + 1
      BY <1>3
    <2> QED
      BY <1>3, <2>1 DEF Queued
  <1> QED
    BY <1>1, <1>2, <1>3, <1>4

-----------------------------------------------------------------------------
(* Ledger is invariant                                                      *)

LEMMA NoNullJob == NULL \notin Jobs
  BY NullAssumption, SizeAssumption DEF Jobs

LEMMA InitLedger == Init => Ledger
  <1> SUFFICES ASSUME Init PROVE Ledger
    OBVIOUS
  <1>1. /\ \A j \in Jobs : runs[j] = 0 /\ ~Queued(j) /\ ~Held(j)
        /\ accepted = {} /\ Len(queue) = 0
    BY NoNullJob DEF Init, Queued, Held
  <1>2. ExactlyOnce
    BY <1>1 DEF Init, ExactlyOnce
  <1> QED
    BY <1>2, Disjoint DEF Init, Ledger

\* A step that touches neither the list, nor a job, nor the history.
LEMMA LedgerUntouched ==
  ASSUME Ledger, UNCHANGED <<queue, pjob, accepted, runs>>,
         \A w \in Workers : pc'[w] = "run" <=> pc[w] = "run",
         \A p \in Producers : calls[p] \in Nat /\ calls'[p] \in Nat /\ calls[p] <= calls'[p]
  PROVE  Ledger'
  <1>1. ExactlyOnce'
    BY DEF Ledger, ExactlyOnce, Queued, Held
  <1> QED
    BY <1>1 DEF Ledger

LEMMA EnqueueLedger ==
  ASSUME Inv, Ledger, NEW p \in Producers, AddEnqueue(p)
  PROVE  Ledger'
  <1> DEFINE job == <<p, calls[p] + 1>>
  <1>1. /\ job \in Jobs /\ accepted' = accepted \cup {job}
        /\ pjob' = pjob /\ runs' = runs /\ calls' = [calls EXCEPT ![p] = @ + 1]
        /\ queue \in Seq(Jobs) /\ Len(queue) \in Nat /\ Len(queue') = Len(queue) + 1
        /\ \A i \in 1 .. Len(queue) : queue'[i] = queue[i]
        /\ queue'[Len(queue) + 1] = job
        /\ \A j \in Jobs : (Queued(j))' <=> Queued(j) \/ j = job
    BY EnqueueAddsLast DEF AddEnqueue
  <1>2. calls \in [Producers -> 0 .. JobsEach] /\ runs \in [Jobs -> Nat]
    BY DEF Inv, TypeOK, HistoryTyped
  <1>3. job \notin accepted
    <2>1. calls[p] + 1 \in 1 .. JobsEach
      BY <1>1 DEF Jobs
    <2> QED
      BY <1>2, <2>1, SizeAssumption DEF Ledger
  <1>4. ~Queued(job) /\ ~Held(job) /\ runs[job] = 0
    BY <1>1, <1>2, <1>3 DEF Ledger, ExactlyOnce
  <1> HIDE DEF job
  <1>5. ASSUME NEW j \in Jobs
        PROVE  /\ runs'[j] <= 1
               /\ j \in accepted' <=> (Queued(j))' \/ (Held(j))' \/ runs'[j] = 1
               /\ ~((Queued(j))' /\ (Held(j))')
               /\ runs'[j] = 1 => ~(Queued(j))' /\ ~(Held(j))'
    <2>1. (Held(j))' <=> Held(j)
      BY <1>1 DEF Held
    <2>2. CASE j = job
      BY <1>1, <1>4, <2>1, <2>2
    <2>3. CASE j # job
      BY <1>1, <2>1, <2>3 DEF Ledger, ExactlyOnce
    <2> QED
      BY <2>2, <2>3
  <1>6. \A i, k \in 1 .. Len(queue') : queue'[i] = queue'[k] => i = k
    <2>1. \A i \in 1 .. Len(queue) : queue'[i] # job
      BY <1>1, <1>4 DEF Queued
    <2> QED
      BY <1>1, <2>1 DEF Ledger, ExactlyOnce
  <1>7. ExactlyOnce'
    BY <1>1, <1>5, <1>6 DEF Ledger, ExactlyOnce
  <1>8. \A w \in Workers : pc'[w] = "run" <=> pjob'[w] # NULL
    <2>1. PICK woken \in AddWakes : Move(p, "idle", woken)
      BY DEF AddEnqueue
    <2>2. \A t \in woken : pc[t] = "queue_not_empty"
      BY <2>1, WakesWaiters DEF AddWakes, Nobody
    <2> QED
      BY <1>1, <2>1, <2>2, Disjoint DEF Move, Woken, Ledger
  <1>9. \A q \in Producers, n \in 1 .. JobsEach : <<q, n>> \in accepted' => n <= calls'[q]
    BY <1>1, <1>2, SizeAssumption DEF Ledger, job
  <1> QED
    BY <1>7, <1>8, <1>9 DEF Ledger

LEMMA TakeLedger ==
  ASSUME Inv, Ledger, NEW w \in Workers, Take(w)
  PROVE  Ledger'
  <1> PICK job \in Jobs : job = queue[1]
    BY TakeRemovesHead
  <1>1. /\ job = queue[1] /\ queue \in Seq(Jobs) /\ Len(queue) \in Nat \ {0}
        /\ queue' = Tail(queue) /\ pjob' = [pjob EXCEPT ![w] = job]
        /\ accepted' = accepted /\ runs' = runs /\ calls' = calls
        /\ \A j \in Jobs : (Queued(j))' <=> \E i \in 2 .. Len(queue) : queue[i] = j
    BY TakeRemovesHead, EmptySeq DEF Take, Inv, TypeOK, PoolTyped
  <1>2. pjob \in [Workers -> Jobs \cup {NULL}] /\ runs \in [Jobs -> Nat]
    BY DEF Inv, TypeOK, HistoryTyped
  <1>3. pjob[w] = NULL /\ Queued(job) /\ ~Held(job) /\ runs[job] # 1
    <2>1. Queued(job)
      BY <1>1 DEF Queued
    <2> QED
      BY <1>1, <2>1 DEF Take, Ledger, ExactlyOnce
  <1>4. /\ ~(Queued(job))' /\ (Held(job))'
        /\ \A j \in Jobs : j # job => /\ (Queued(j))' <=> Queued(j)
                                      /\ (Held(j))' <=> Held(j)
    <2>1. \A i \in 2 .. Len(queue) : queue[i] # job
      BY <1>1 DEF Ledger, ExactlyOnce
    <2>2. (Held(job))'
      BY <1>1, <1>2 DEF Held
    <2>3. ASSUME NEW j \in Jobs, j # job
          PROVE  ((Queued(j))' <=> Queued(j)) /\ ((Held(j))' <=> Held(j))
      <3>1. (Queued(j))' <=> Queued(j)
        <4>1. \A i : i \in 1 .. Len(queue) <=> i = 1 \/ i \in 2 .. Len(queue)
          BY <1>1
        <4>2. Queued(j) <=> \E i \in 2 .. Len(queue) : queue[i] = j
          BY <1>1, <2>3, <4>1 DEF Queued
        <4> QED
          BY <1>1, <4>2
      <3>2. (Held(j))' <=> Held(j)
        BY <1>1, <1>2, <1>3, <2>3, NoNullJob DEF Held
      <3> QED
        BY <3>1, <3>2
    <2> QED
      BY <1>1, <2>1, <2>2, <2>3
  <1>5. ASSUME NEW j \in Jobs
        PROVE  /\ runs'[j] <= 1
               /\ j \in accepted' <=> (Queued(j))' \/ (Held(j))' \/ runs'[j] = 1
               /\ ~((Queued(j))' /\ (Held(j))')
               /\ runs'[j] = 1 => ~(Queued(j))' /\ ~(Held(j))'
    <2>1. CASE j = job
      BY <1>1, <1>3, <1>4, <2>1 DEF Ledger, ExactlyOnce
    <2>2. CASE j # job
      BY <1>1, <1>4, <2>2 DEF Ledger, ExactlyOnce
    <2> QED
      BY <2>1, <2>2
  <1>6. \A i, k \in 1 .. Len(queue') : queue'[i] = queue'[k] => i = k
    <2>1. /\ Len(queue') = Len(queue) - 1
          /\ \A i \in 1 .. Len(queue') : queue'[i] = queue[i + 1]
      BY <1>1, EmptySeq, HeadTailProperties
    <2>2. \A i \in 1 .. Len(queue') : i + 1 \in 1 .. Len(queue)
      BY <1>1, <2>1
    <2>3. SUFFICES ASSUME NEW i \in 1 .. Len(queue'), NEW k \in 1 .. Len(queue'),
                          queue'[i] = queue'[k]
                   PROVE  i = k
      OBVIOUS
    <2>4. i + 1 = k + 1
      BY <2>1, <2>2, <2>3 DEF Ledger, ExactlyOnce
    <2> QED
      BY <2>4
  <1>7. \A u, v \in Workers : pjob'[u] = pjob'[v] /\ pjob'[u] # NULL => u = v
    BY <1>1, <1>2, <1>3 DEF Ledger, ExactlyOnce, Held
  <1>8. ExactlyOnce'
    BY <1>5, <1>6, <1>7 DEF ExactlyOnce
  <1>9. \A v \in Workers : pc'[v] = "run" <=> pjob'[v] # NULL
    <2>1. PICK one \in IF queue_cur_num' = 0 THEN Signal("queue_empty") ELSE Nobody,
               all \in IF queue_cur_num' = queue_max_num - 1
                       THEN Broadcast("queue_not_full") ELSE Nobody :
                 Move(w, "run", one \cup all)
      BY DEF Take
    <2>2. \A t \in one \cup all : pc[t] \in {"queue_empty", "queue_not_full"}
      BY <2>1, WakesWaiters
    <2>3. \A v \in Workers : pc'[v] = "run" <=> v = w \/ pc[v] = "run"
      BY <2>1, <2>2, Disjoint DEF Move, Woken
    <2> QED
      BY <1>1, <1>2, <2>3, NoNullJob DEF Ledger
  <1> QED
    BY <1>1, <1>8, <1>9 DEF Ledger

LEMMA RunLedger ==
  ASSUME Inv, Ledger, NEW w \in Workers, Run(w)
  PROVE  Ledger'
  <1>1. /\ pjob \in [Workers -> Jobs \cup {NULL}] /\ runs \in [Jobs -> Nat]
        /\ pc \in [Threads -> ProducerPC \cup WorkerPC \cup CloserPC]
    BY DEF Inv, TypeOK, HistoryTyped, ThreadsTyped
  <1>2. PICK job \in Jobs : job = pjob[w]
    BY <1>1 DEF Run, Ledger
  <1>3. /\ runs' = [runs EXCEPT ![job] = @ + 1]
        /\ pjob' = [pjob EXCEPT ![w] = NULL]
        /\ pc' = [pc EXCEPT ![w] = "lock"]
        /\ queue' = queue /\ accepted' = accepted /\ calls' = calls
    BY <1>2 DEF Run, pool
  <1>4. Held(job) /\ ~Queued(job) /\ runs[job] = 0
    <2>1. Held(job)
      BY <1>2 DEF Held
    <2> QED
      BY <1>1, <2>1 DEF Ledger, ExactlyOnce
  <1>5. ~(Held(job))' /\ \A j \in Jobs : j # job => ((Held(j))' <=> Held(j))
    <2>1. \A v \in Workers : v # w => pjob[v] # job
      BY <1>2, NoNullJob DEF Ledger, ExactlyOnce
    <2>2. ~(Held(job))'
      BY <1>1, <1>2, <1>3, <2>1, NoNullJob DEF Held
    <2>3. \A j \in Jobs : j # job => ((Held(j))' <=> Held(j))
      BY <1>1, <1>2, <1>3, NoNullJob DEF Held
    <2> QED
      BY <2>2, <2>3
  <1>6. \A j \in Jobs : (Queued(j))' <=> Queued(j)
    BY <1>3 DEF Queued
  <1>7. ASSUME NEW j \in Jobs
        PROVE  /\ runs'[j] <= 1
               /\ j \in accepted' <=> (Queued(j))' \/ (Held(j))' \/ runs'[j] = 1
               /\ ~((Queued(j))' /\ (Held(j))')
               /\ runs'[j] = 1 => ~(Queued(j))' /\ ~(Held(j))'
    <2>1. CASE j = job
      BY <1>1, <1>3, <1>4, <1>5, <1>6, <2>1 DEF Ledger, ExactlyOnce
    <2>2. CASE j # job
      BY <1>1, <1>3, <1>5, <1>6, <2>2 DEF Ledger, ExactlyOnce
    <2> QED
      BY <2>1, <2>2
  <1>8. \A u, v \in Workers : pjob'[u] = pjob'[v] /\ pjob'[u] # NULL => u = v
    BY <1>1, <1>3 DEF Ledger, ExactlyOnce
  <1>9. ExactlyOnce'
    BY <1>3, <1>7, <1>8 DEF Ledger, ExactlyOnce
  <1>10. \A v \in Workers : pc'[v] = "run" <=> pjob'[v] # NULL
    BY <1>1, <1>3, Disjoint DEF Ledger
  <1> QED
    BY <1>3, <1>9, <1>10 DEF Ledger

\* A step whose woken threads are asleep and whose own thread does not run a job.
LEMMA MoveRunsNothing ==
  ASSUME NEW self \in Threads, NEW label, NEW woken, Move(self, label, woken),
         pc[self] # "run", label # "run", \A t \in woken : pc[t] # "run"
  PROVE  \A w \in Workers : pc'[w] = "run" <=> pc[w] = "run"
  BY Disjoint DEF Move, Woken

LEMMA NextLedger == Inv /\ Ledger /\ [Next]_vars => Ledger'
  <1> SUFFICES ASSUME Inv, Ledger, [Next]_vars PROVE Ledger'
    OBVIOUS
  <1>1. /\ pc \in [Threads -> ProducerPC \cup WorkerPC \cup CloserPC]
        /\ calls \in [Producers -> 0 .. JobsEach]
    BY DEF Inv, TypeOK, HistoryTyped, ThreadsTyped
  <1> USE Disjoint, SizeAssumption
  <1>2. ASSUME NEW p \in Producers, CallAddJob(p) \/ AddWait(p)
        PROVE  Ledger'
    BY <1>1, <1>2, LedgerUntouched DEF CallAddJob, AddWait, pool
  <1>3. ASSUME NEW p \in Producers, AddRefuse(p) \/ AddNoMemory(p)
        PROVE  Ledger'
    <2>1. /\ UNCHANGED <<queue, pjob, accepted, runs>>
          /\ pc' = [pc EXCEPT ![p] = "idle"] /\ calls' = [calls EXCEPT ![p] = @ + 1]
      BY <1>3 DEF AddRefuse, AddNoMemory, pool
    <2>2. \A q \in Producers : calls[q] \in Nat /\ calls'[q] \in Nat /\ calls[q] <= calls'[q]
      BY <1>1, <2>1
    <2>3. \A w \in Workers : pc'[w] = "run" <=> pc[w] = "run"
      BY <1>1, <2>1
    <2> QED
      BY <2>1, <2>2, <2>3, LedgerUntouched
  <1>4. ASSUME NEW w \in Workers, TakeWait(w) \/ WorkerExit(w)
        PROVE  Ledger'
    BY <1>1, <1>4, LedgerUntouched DEF TakeWait, WorkerExit, pool
  <1>5. ASSUME NEW c \in Closers, CallDestroy(c) \/ DestroyRefuse(c) \/ Join(c)
        PROVE  Ledger'
    BY <1>1, <1>5, LedgerUntouched DEF CallDestroy, DestroyRefuse, Join, pool
  <1>6. ASSUME NEW c \in Closers, DestroyBegin(c) \/ DestroyResume(c)
        PROVE  Ledger'
    BY <1>1, <1>6, LedgerUntouched DEF DestroyBegin, DestroyResume, DrainOrShut
  <1>7. ASSUME NEW c \in Closers, WakeWorkers(c) \/ WakeProducers(c)
        PROVE  Ledger'
    <2>1. PICK label \in {"wake_producers", "join"}, woken \in SUBSET Threads :
            /\ Move(c, label, woken)
            /\ \A t \in woken : pc[t] \in {"queue_not_empty", "queue_not_full"}
      BY <1>7, WakesWaiters DEF WakeWorkers, WakeProducers, DestroyWakes, Broadcast, Waiting
    <2>2. \A w \in Workers : pc'[w] = "run" <=> pc[w] = "run"
      BY <1>7, <2>1, MoveRunsNothing DEF WakeWorkers, WakeProducers
    <2>3. UNCHANGED <<queue, pjob, accepted, runs, calls>>
      BY <1>7 DEF WakeWorkers, WakeProducers, pool
    <2> QED
      BY <1>1, <2>2, <2>3, LedgerUntouched
  <1>8. ASSUME NEW c \in Closers, Free(c)
        PROVE  Ledger'
    <2>1. queue = <<>>
      BY <1>8 DEF Free, Inv, OrderlyShutdown, ShutdownSteps
    <2> QED
      BY <1>1, <1>8, <2>1, LedgerUntouched DEF Free
  <1>9. ASSUME NEW t \in Producers \cup Closers, UseAfterFree(t)
        PROVE  Ledger'
    BY <1>1, <1>9, LedgerUntouched DEF UseAfterFree, pool
  <1>10. ASSUME NEW t \in Threads, SpuriousWakeup(t)
         PROVE  Ledger'
    BY <1>1, <1>10, LedgerUntouched DEF SpuriousWakeup, Woken, pool
  <1>11. CASE UNCHANGED vars
    BY <1>1, <1>11, LedgerUntouched DEF vars, pool
  <1> QED
    BY <1>2, <1>3, <1>4, <1>5, <1>6, <1>7, <1>8, <1>9, <1>10, <1>11,
       EnqueueLedger, TakeLedger, RunLedger
       DEF Next, AddJob, Work, Destroy, Terminating

LEMMA LedgerInvariance == SafetySpec => [](Inv /\ Ledger)
  BY InitInv, NextInv, InitLedger, NextLedger, PTL DEF SafetySpec

\* Every accepted job is queued, held by one worker or done, exactly one of the
\* three, and no job runs twice.
THEOREM JobsRunExactlyOnce == Spec => []ExactlyOnce
  BY LedgerInvariance, PTL DEF Spec, Ledger

-----------------------------------------------------------------------------
(* ThreadPool implements JobExecutor                                        *)

LEMMA InitExecutor == Init => Executor!Init
  BY DEF Init, Executor!Init

LEMMA EnqueueSubmits ==
  ASSUME Inv, Ledger, NEW p \in Producers, AddEnqueue(p)
  PROVE  Executor!Submit(<<p, calls[p] + 1>>)
  <1>1. <<p, calls[p] + 1>> \notin accepted
    <2>1. calls[p] + 1 \in 1 .. JobsEach /\ calls[p] \in Nat
      BY SizeAssumption DEF AddEnqueue, Inv, TypeOK, HistoryTyped
    <2> QED
      BY <2>1 DEF Ledger
  <1>2. Len(queue) < queue_max_num
    BY SizeAssumption DEF AddEnqueue, Room, Inv, TypeOK, PoolTyped, Bookkeeping
  <1> QED
    BY <1>1, <1>2 DEF AddEnqueue, Room, Closed, Link, Executor!Submit

LEMMA TakeStarts ==
  ASSUME Inv, Ledger, NEW w \in Workers, Take(w)
  PROVE  Executor!Start(w)
  <1>1. queue # <<>> /\ queue' = Tail(queue)
    BY TakeRemovesHead
  <1>2. pjob[w] = NULL /\ pjob' = [pjob EXCEPT ![w] = Head(queue)]
    BY TakeFinds DEF Take, Inv, Ledger
  <1>3. ~pool_close /\ ~freed
    BY TakeFinds DEF Take, Inv, OrderlyShutdown
  <1> QED
    BY <1>1, <1>2, <1>3 DEF Take, Executor!Start

LEMMA RunFinishes ==
  ASSUME Inv, Ledger, NEW w \in Workers, Run(w)
  PROVE  Executor!Finish(w)
  <1>1. ~freed /\ pjob[w] # NULL
    BY DEF Run, Inv, OrderlyShutdown, Ledger
  <1> QED
    BY <1>1 DEF Run, pool, Executor!Finish

LEMMA DestroyShuts ==
  ASSUME Inv, NEW c \in Closers, DestroyBegin(c) \/ DestroyResume(c)
  PROVE  Executor!Drain \/ Executor!Shut \/ UNCHANGED Executor!vars
  <1>1. /\ UNCHANGED <<queue, freed, pjob, accepted, runs>>
        /\ ~freed /\ ~pool_close /\ queue_close'
        /\ queue_cur_num = 0 => queue = <<>>
    BY DEF DestroyBegin, DestroyResume, Closed, Inv, ShutdownSteps, OrderlyShutdown, Closing,
           Bookkeeping, TypeOK, PoolTyped
  <1>2. DrainOrShut(c)
    BY DEF DestroyBegin, DestroyResume
  <1>3. CASE queue_cur_num = 0
    BY <1>1, <1>2, <1>3 DEF DrainOrShut, Executor!Shut
  <1>4. CASE queue_cur_num # 0
    BY <1>1, <1>2, <1>4 DEF DrainOrShut, Executor!Drain, Executor!vars
  <1> QED
    BY <1>3, <1>4

LEMMA FreeReleases ==
  ASSUME Inv, Ledger, NEW c \in Closers, Free(c)
  PROVE  Executor!Release
  <1>1. /\ pool_close /\ ~freed /\ queue = <<>>
        /\ \A w \in Workers : pc[w] = "exit"
    BY DEF Free, Inv, ShutdownSteps, OrderlyShutdown, Closing
  <1>2. \A w \in Workers : pjob[w] = NULL
    BY <1>1 DEF Ledger
  <1> QED
    BY <1>1, <1>2 DEF Free, Executor!Release

\* Every step of the pool is a step of the executor or changes nothing it sees.
LEMMA NextExecutor == Inv /\ Ledger /\ [Next]_vars => [Executor!Next]_(Executor!vars)
  <1> SUFFICES ASSUME Inv, Ledger, [Next]_vars
               PROVE  Executor!Next \/ UNCHANGED Executor!vars
    OBVIOUS
  <1>1. ASSUME NEW p \in Producers, CallAddJob(p) \/ AddJob(p)
        PROVE  Executor!Next \/ UNCHANGED Executor!vars
    <2>1. CASE AddEnqueue(p)
      BY <2>1, EnqueueSubmits, EnqueueAddsLast DEF Executor!Next
    <2>2. CASE CallAddJob(p) \/ AddWait(p) \/ AddRefuse(p) \/ AddNoMemory(p) \/ UseAfterFree(p)
      BY <2>2 DEF CallAddJob, AddWait, AddRefuse, AddNoMemory, UseAfterFree, pool,
                  Executor!vars
    <2> QED
      BY <1>1, <2>1, <2>2 DEF AddJob
  <1>2. ASSUME NEW w \in Workers, Work(w)
        PROVE  Executor!Next \/ UNCHANGED Executor!vars
    <2>1. CASE Take(w)
      BY <2>1, TakeStarts DEF Executor!Next
    <2>2. CASE Run(w)
      BY <2>2, RunFinishes DEF Executor!Next
    <2>3. CASE TakeWait(w) \/ WorkerExit(w)
      BY <2>3 DEF TakeWait, WorkerExit, pool, Executor!vars
    <2> QED
      BY <1>2, <2>1, <2>2, <2>3 DEF Work
  <1>3. ASSUME NEW c \in Closers, CallDestroy(c) \/ Destroy(c)
        PROVE  Executor!Next \/ UNCHANGED Executor!vars
    <2>1. CASE DestroyBegin(c) \/ DestroyResume(c)
      BY <2>1, DestroyShuts DEF Executor!Next
    <2>2. CASE Free(c)
      BY <2>2, FreeReleases DEF Executor!Next
    <2>3. CASE \/ CallDestroy(c) \/ DestroyRefuse(c) \/ WakeWorkers(c) \/ WakeProducers(c)
               \/ Join(c) \/ UseAfterFree(c)
      BY <2>3 DEF CallDestroy, DestroyRefuse, WakeWorkers, WakeProducers, Join,
                  UseAfterFree, pool, Executor!vars
    <2> QED
      BY <1>3, <2>1, <2>2, <2>3 DEF Destroy
  <1>4. CASE (\E t \in Threads : SpuriousWakeup(t)) \/ UNCHANGED vars
    BY <1>4 DEF SpuriousWakeup, vars, pool, Executor!vars
  <1> QED
    BY <1>1, <1>2, <1>3, <1>4 DEF Next, Terminating

\* The pool is a job executor: it starts accepted jobs oldest first, each on a
\* worker that runs nothing else, takes none after the close, and is released
\* when every one has completed.
THEOREM PoolImplementsExecutor == Spec => Executor!SafetySpec
  BY InitExecutor, NextExecutor, LedgerInvariance, PTL
     DEF Spec, SafetySpec, Executor!SafetySpec
=============================================================================
