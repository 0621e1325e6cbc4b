# Verification of the server components

TLA+ models of the components in `src/`, the TLC runs that check them on small
instances, and TLAPS proofs of what holds for every instance. Paths below are
relative to the repository.

The repository is a set of independent server components: two copies of a
thread pool, two connection pools (MySQL and redis) with the hiredis client
below the second, three timers, a ring buffer and memory pools. There is no one
program that links them all; the test programs (`test_ThreadPool.cpp`,
`test_DBPool.cpp`, `tw-timer.c`, `skl-timer.c`, the `main` of `ringbuffer.c`)
are the callers the models take their clients from.

## Inventory

### Thread pool: `src/mysql/multi_thread_pool/test_ThreadPool.cpp`

- **State**: `threadpool_t`: a linked list of jobs (`head`, `tail`), the counter
  `queue_cur_num` with its bound `queue_max_num`, `queue_close`, `pool_close`, one
  mutex, three condition variables (`queue_empty`, `queue_not_empty`,
  `queue_not_full`). `redis/multi_thread` holds the same text.
- **Operations**: `threadpool_init`, `threadpool_add_job` (blocks on a full list),
  `threadpool_function` (the worker), `threadpool_destroy` (drains, wakes, joins,
  frees).
- **Interaction**: producers, workers and destroyers share the struct under the
  mutex; callbacks run outside it.
- **Hard**: wake-ups are conditional (add_job broadcasts only on an empty list, a
  worker only at `queue_max_num - 1` and at 0); the list is closed by the counter on one side
  and by `head == NULL` on the other; destroy announces `pool_close` after the unlock.
- **Correct when** every accepted job runs exactly once and in order, no thread
  sleeps on a condition that is true, shutdown drains before it stops and frees after
  everybody has left, and every call returns.

### MySQL pool and connection: `src/mysql/multi_thread_pool/DBPool.cpp`

- **State**: a `CDBPool` has `m_free_list`, `m_used_list`, `m_db_cur_conn_cnt`,
  `m_db_max_conn_cnt`, `m_abort_request`, a mutex and a condition variable; a
  `CDBConn` has its `MYSQL*`, a `CPrepareStatement` its `MYSQL_STMT*`.
- **Operations**: of the pool `Init`, `GetDBConn(timeout_ms)`, `RelDBConn`, the
  destructor; of the connection `Init`, `ExecuteUpdate`, the queries,
  `StartTransaction`, `Commit`, `Rollback`; of the statement `Init` and
  `ExecuteUpdate`.
- **Interaction**: jobs of the thread pool lease a connection, use it, give it
  back. Every call of a connection pings first, and the client library
  reconnects silently (`MYSQL_OPT_RECONNECT`).
- **Hard**: a time limit that passes while a notification is under way, a
  connection taken by a newcomer between the notification and the return from the wait, an abort
  during a wait, connections opened on demand that fail, a NULL given back; a
  session that goes and is replaced in the middle of a transaction, and an
  answer lost after the statement was executed.
- **Correct when** a connection has one user, none is lost, every release reaches
  a waiter that can use it, the maximum is kept, and nothing is leased after the
  destructor began; what a client was told has happened has.

### Redis pool and connection: `src/redis/multi_thread/CachePool.cpp`

- **State**: a `CacheConn` keeps a hiredis context (`m_pContext`) and
  `m_last_connect_time`; a `CachePool` keeps `m_free_list`, `m_cur_conn_cnt`,
  `m_max_conn_cnt` and a `CThreadNotify` (`Thread.h`: mutex and condition variable).
- **Operations**: every command starts with `Init`, which connects when the
  context is NULL (at most one attempt in a second, then AUTH and SELECT), and frees the
  context when a reply is missing; twenty-one commands turn replies into
  results; the pool has `GetCacheConn`, `RelCacheConn` and a destructor.
- **Hard**: each of connect, AUTH, SELECT and a command may fail, with the context,
  the reply and the argument vector in a different state; a pool that opens,
  waits and is signalled under one mutex.
- **Correct when** no context, reply or vector leaks or is freed twice, a
  connection comes back when the server does, an unanswered command tells of no
  answer, and the pool satisfies what the MySQL pool does.

### hiredis: `src/redis/multi_thread/{async,hiredis,net,read,dict,sds}.c`

- **State**: `redisAsyncContext` (flags, `replies`, `sub.invalid`, two
  dictionaries of subscriptions, the event hooks), `redisContext` (`fd`, `err`,
  `obuf`, `reader`), `redisReader` (buffer, position, a stack of tasks), `dict`
  (chains and an iterator), `sds` (a header whose type fixes the width of its
  length and room, and the bytes).
- **Operations**: the commands, `redisAsyncDisconnect`, `redisAsyncFree`, the read
  and write handlers, `redisProcessCallbacks`; the connect functions,
  `redisAppendCommand`, `redisGetReply`, `redisBufferWrite`, `redisBufferRead`,
  `redisReconnect`, `redisFree`; `redisReaderFeed`, `redisReaderGetReply`; add,
  replace, delete, find, expand, iterate; creating, growing, appending, trimming,
  cutting and shrinking of strings.
- **Interaction**: the event loop calls the handlers, the handlers the user's
  callbacks, and those again the context; the dictionary holds the callbacks, the
  reader feeds them. The buffers are `sds` strings.
- **Hard**: replies find their callbacks by order alone, from three places; a
  callback frees or disconnects the context it runs in; a name is subscribed again
  while its unsubscription is under way; connecting fails in a dozen ways, each
  with the descriptor open or not; a reply is cut anywhere; an iterator's entry
  is deleted under it; a string changes the type of its header as it grows and shrinks.
- **Correct when** each callback gets the reply of its own command and runs once,
  the assertions of `async.c` hold, no descriptor leaks, replies come out whole and in
  order, the dictionary is a map, and a string's length and room fit its header.

### Timers: `src/timer`

- **Timer wheel** (`timerwheel.c`): lists `near[256]` and `t[4][64]`, a 32-bit
  clock `time`, a spinlock. `add_timer`, `del_timer`, `expire_timer` (which turns
  the wheel through `timer_update`, `timer_shift`, `timer_execute`,
  `dispatch_list`), `clear_timer`. Any thread adds and cancels; one thread turns the wheel.
  Hard: slots and distances around the wrap, additions while a list is being
  dispatched outside the lock. Correct when each timer is dispatched once, in the
  tick it expires.
- **Min-heap** (`minheap.cc`): an array heap with an index in each node and a map
  from ids; single thread; handlers add and cancel timers while `ExpireTimer` is in its
  loop. Correct when the heap order and the indices survive it.
- **Skip list** (`skiplist.c`, `skl-timer.c`): ordered by expiry; single thread.
  Correct when it stays sorted on every level and deletes the node it was given.

### Ring buffer: `src/ringbuffer`

- **State**: `buf`, `size`, `read_pos`, `write_pos` (free-running 32-bit positions).
- **Operations**: `rb_init`, `rb_free`, `rb_write`, `rb_read` and the queries.
- **Hard**: an access cut in two at the end of the buffer, positions that start
  just before their wrap. Correct when it is a bounded queue of bytes.

### Memory pools: `src/memory_pool`

- **Page pool** (`ngx_page_pool.h`): pages with `last`, `end` and `failed`, aligned
  allocation, large blocks whose descriptors are themselves small blocks, reset.
  Hard: pointer arithmetic past `end`, pages given up, descriptors reused.
  Correct when blocks never overlap and each large block is freed once.
- **Free lists** (`TFreeList.h`, `page_pool.cpp`): a stack of pointers, and blocks
  linked through their own first bytes. Correct when an object has one user
  and none is lost.

### Not part of the program's own logic

`mysql/assemble_pool/*.S` are two context-switch routines nobody calls;
`aoi` and `tbus` consist of a README.

`PROJECT.json` lists every component with its status, and under "hazards" each
place where this code can go wrong in a way a unit test hardly reaches, with the
properties that would notice.

## Modules

| module | models | role |
|---|---|---|
| `JobExecutor` | what the thread pool promises | abstract specification |
| `ThreadPool` | `test_ThreadPool.cpp` | refines `JobExecutor` |
| `ThreadPoolProofs` | | theorems about `ThreadPool` |
| `LeasePool` | what a connection pool promises | abstract specification |
| `DBPool` | `CDBPool` and its clients | refines `LeasePool` |
| `DBConn` | `CDBConn`, `CPrepareStatement`, the link | one connection and its client |
| `CacheConn` | `CacheConn`: its context | the redis connection |
| `CacheCommand` | the commands of `CacheConn` | extends `CacheConn` |
| `CachePool` | `CachePool`, `CThreadNotify`, clients | extends `CacheConn`, refines `LeasePool` |
| `AsyncContext` | `async.c`, the event loop, the server | the asynchronous client |
| `RedisContext` | `hiredis.c`, `net.c` | the synchronous client |
| `RedisReader` | `read.c` | the reply parser |
| `DictMap` | what a dictionary promises | abstract specification |
| `Dict` | `dict.c` | refines `DictMap` |
| `Sds` | `sds.c` | the strings |
| `TimerWheel` | `timerwheel.c` | the wheel |
| `TimerQueue` | what the one-shot timers promise | abstract specification |
| `MinHeap`, `SkipList` | `minheap.cc`; `skiplist.c`, `skl-timer.c` | both refine `TimerQueue` |
| `ByteQueue` | what a ring buffer promises | abstract specification |
| `RingBuffer` | `ringbuffer.c` | refines `ByteQueue` |
| `ObjectPool` | what a free list promises | abstract specification |
| `TFreeList`, `CAllocator` | `TFreeList.h`; `page_pool.cpp` | both refine `ObjectPool` |
| `PagePool` | `ngx_page_pool.h` | the page pool |
| `MCThreadPool`, `MCMySQL`, `MCRedis`, `MCHiredis`, `MCTimers`, `MCStructures` | | instances for TLC |
| `MySQLProofs`, `RedisProofs` | | theorems about the pools, and about `MCMySQL` and `MCRedis` |
| `AsyncProofs` | | the inductive invariant of `AsyncContext` |
| `ReplyProofs` | | theorems about `RedisReader` and `Sds` in `MCHiredis` |
| `HiredisProofs` | | theorems about `MCHiredis`: both contexts, the dictionary, the types of all parts |
| `TimersProofs` | | theorems about `TimerWheel` and `MinHeap` in `MCTimers` |
| `StructuresProofs` | | theorems about `PagePool`, `TFreeList`, `CAllocator`, `RingBuffer` in `MCStructures` |

Components of one directory share an MC module. Its variable `part` is chosen
once, in the initial state, and says which of them a behaviour is about; the
others keep their initial state. So a run explores the sum of its parts and not
their product, and a property of a part holds of the run if and only if it
holds of the part alone. Where components do interact they are composed by
EXTENDS: the pool over the connections (`CachePool`, whose clients send
commands while others lease), the commands over the connection (`CacheCommand`).

### How state and actions correspond to the code

*Atomicity.* In the pools and the wheel every shared field is accessed under one
lock. What a thread does from taking the lock to releasing it, or to a wait that
gives it up, is one action; what it does outside (a callback, `pthread_join`,
the two broadcasts of `threadpool_destroy`, the dispatch of a due timer) is one
action per step. `pc` says where a thread is; a name of a condition variable, or
`wait`, means that it sleeps there. In the single-threaded components a call is
one action, unless a callback or handler of the user runs in the middle of it: then it is
cut there (`running` of the two timers, `pc = "callback"` of `AsyncContext`).

*Condition variables.* A signal wakes any one waiter or nobody if there is none, a broadcast all;
a woken thread has to take the lock again and meets whatever happened
meanwhile. Spurious wake-ups are allowed at any time, as POSIX and C++ allow
them.

*Failures.* `malloc`, connecting, AUTH, SELECT and every redis command may fail
at every call, until (redis) the environment action `Heal`; a mysql session may
be lost before, during or after any statement; every system call of `net.c` may
fail where the code checks it; the redis server may close the connection at any time. A
time limit may pass at any moment of a wait, also after the notification was sent.

*Undefined behaviour* (a mutex used after `free`, a method called through NULL, a context used after it was
freed) moves the thread to `pc = "undefined"`, where it stays: the model says nothing of what
follows for that thread. Liveness properties count it as returned,
and say so. In the memory pools, where a crash ends everything, it is the variable `crashed`.

**ThreadPool.** `AddWait`, `AddRefuse`, `AddNoMemory`, `AddEnqueue` are the ways
through `threadpool_add_job` after its entry; `TakeWait`, `WorkerExit`, `Take`,
`Run` those through the loop of `threadpool_function`; `DestroyBegin` to `Free` are the steps of
`threadpool_destroy`, with the loop on `queue_empty` resumed by `DestroyResume`. The jobs are
`<<producer, number>>`, so that they can be told apart; `accepted` and `runs`
are history variables.

**DBPool.** `GetAborted`, `GetFree`, `GetWait`, `GetTimedOut`, `GetOpenFailed`
and `GetOpen` are the exits of one section of `GetDBConn`. `RelDBConn` follows the code
also for NULL: `NullReleasers` are the clients that give back whatever they got,
as `workUsePool` does. The destructor is two actions, its body under
the mutex and the destruction of the members that follows.

**DBConn.** A call is `Call`, its `mysql_ping`, and then `QueryFails` or
`QuerySucceeds`, with `LinkLost` possible in between. The table keeps which rows have
their change committed; an update changes its row once, so a second one
affects none. `begun`, `claimed`, `ended` and `kept` are what the client was told.

**CacheConn.** A context is abstracted to what the server made of it: `open`,
`rejected` (AUTH or SELECT refused), `broken` (hiredis has set `err`).
`recent[k]` says that `m_last_connect_time` is the current second; `Tick` is the
next second. `contexts` counts hiredis contexts that are allocated.

**CacheCommand.** A call is the sequence of steps its function takes: `Begin` is `Init`,
`BuildVector` the `new` of the two commands that have an argument vector, `Send` the call of hiredis,
`Unreplied` and `Replied` the two ways from there, each with the `delete[]` and `freeReplyObject` the
command has on it. `Failure` and `Value` say what each of the 21 commands returns; a reply is its type
and its integer, and the integers include the -1 some commands fail with. `replies` and `argvs` count
what is allocated and not freed; `lost` the replies that `Init` itself never frees.

**CachePool.** `GetFree`, `GetWait`, `GetOpen` for `GetCacheConn`, `Use` for
a command between lease and release. Connecting happens under the pool's mutex, as in the code.

**AsyncContext.** A command is a number, a callback the number of the command it
was given with and its `pending_subs`. `HandleWrite` and `HandleRead` are the two
event handlers; `ProcessRegular`, `ProcessSpontaneousError`, `ProcessPubSub` and
`ProcessMonitor` are the ways one reply goes through the loop of
`redisProcessCallbacks`, `ProcessEnd` its end. The first event of a new connection also runs the connect
callback (`pc = "onConnect"`), from which the user may send commands; the handler goes on, or frees the
context of a failed connect, in `ConnectCallbackReturns`. `got` records what every callback was given.
`UserMay` is what the user may send: anything the library accepts if `Unruly`, else what is `Orderly`
(see Known behaviour). The server executes commands in order and keeps its own set of subscriptions.

**RedisContext.** `cpc` is the place in the connect function or in
`redisGetReply`; `fds` the descriptors the process has open. `conf.type` is tcp, unix, or fd for a
context made by `redisConnectFd` of a descriptor that is open already, which `redisReconnect` refuses. A command and its
reply are the pair of connection and number, so a reply of an old connection can be told.

**RedisReader.** A token is what the parser consumes in one step. The stream is cut
between any two tokens; `rstack`, `pos` and the discarding of consumed bytes are the code's. `LongLong`
are the numbers `string2ll` can convert; a line with any other is refused, like an unknown type byte, a
length that is no length and an array too deep (`Refuse`). An allocation may fail wherever a reply
object is made or the buffer is extended, and ends the reader too (`SetError(TRUE)`, `oom`).

**Dict.** Chains are sequences of entries, newest first; the iterator keeps the
entry after the one it returned, as the code does.

**Sds.** `str` is one string: its header, its bytes, and how much memory `malloc`
gave for them. The fields of the header are counters modulo the range of its type; a
call whose `malloc` fails leaves the string as it was and is no step.

**TimerWheel.** The lists `near` and `t` are sequences of node names. `time` is
the wheel's own clock and wraps at `Width`, which is derived from the two shift constants
so that, as in the code, the wheel spans exactly the clock. `TimerUpdate` is one section
under the spinlock, `Dispatch` one node of `dispatch_list`. `Relink` is the loop of
`move_list`, over what `link_clear` cut off. Memory cells are
reused: `cancel` belongs to the cell and survives `free`.

**MinHeap, SkipList.** The heap's sifting and the list's walks are recursive functions: of the
array, the indices and the place of the node that moves, and of the forward pointers; the random
height of a node is any height. `ExpireTimer` and `expire_timer` are cut at each handler, and the
clients act there too.

**RingBuffer.** The C expressions are kept: in particular
`size - pos & (size - 1)` is parsed as C does, and the positions wrap at `2^Bits`. `src` are the bytes
a write is given, `dst` those a read copies out and `ret` what either returns; all three are also
variables of `ByteQueue`, whose `Write` stores exactly `src` and returns its length, or stores nothing.

**PagePool.** Places are in words; `Room` is the difference of pointers taken
modulo the range of `size_t`. A block cut beyond its page (finding 5) writes over
memory that is not the pool's: the model stops there. Each page is an address space of its own.
In a pool whose `max` is below the size of a descriptor `mp_alloc` and `mp_alloc_large` call one another
without end: either a malloc fails, and everything taken on the way down is freed on the way up, or the
stack overflows (`crashed`).

**TFreeList, CAllocator.** `users[o]` counts the users an object has; the links of
`CAllocator` are the first bytes of its free blocks, overwritten by an object. `allocate` does not
look at what `malloc` returned; when it is NULL the program dereferences it (`crashed`).

## Runs

Deadlock is checked in every run but `hiredis` and the violation runs of the asynchronous context, the
skip list and the page pool; where a system may really stop, `Terminating` or
`Stopped` lets it stutter. A `hiredis` behaviour ends when its context is freed or its
bounds are used up, and so do those of the others.

| run | module | checks |
|---|---|---|
| `threadpool` | `MCThreadPool` | `TypeOK`, `Bookkeeping`, `NoMissedWakeup`, `ExactlyOnce`, `OrderlyShutdown`, `ImplementsExecutor`, `CallsReturn` |
| `mysql` | `MCMySQL` | `ConnectionsInOnePlace`, `NoMissedWakeup`, `TransactionsKept`, `ImplementsLease`, `CallsReturn` |
| `redis` | `MCRedis` | `ConnectionsInOnePlace`, `NoMissedWakeup`, `ResourcesReturned`, `UnansweredNotTold`, `ImplementsLease`, `CallsReturn`, `ConnRecovers` |
| `hiredis` | `MCHiredis` | `PartsTypeOK`, `CallbacksMatch`, `AssertionsHold`, `LeavesSubscribedMode`, `RepliesMatch`, `RepliesInOrder`, `CommandsEnd`, `RepliesArrive`, `DictIsMap` |
| `timers` | `MCTimers` | `Placed`, `OnTime`, `HeapOrdered`, `LevelsNested`, `PlacedTimersExpire`, `TimersInOrder` |
| `structures` | `MCStructures` | `LinkedOnce`, `FreeListsWhole`, `PagesWhole`, `ImplementsQueue`, `FreeListsArePools` |

and six runs whose one property states what a comment or a document of the
repository says and the code does not do (see Findings): `dbpool_null`, `async_pipelined`,
`timerwheel_lost`, `timerwheel_cancel`, `skiplist_ties`, `pagepool_overrun`.

### What each run shows, its bounds, and why they are enough

**threadpool** (2 producers with 2 calls each, 2 workers, 2 destroyers, a list of 2; 41055 states).
Two of each kind is what the races need: a producer that takes the room another was woken for, a
worker that takes the job another was woken for, a second destroyer. With a bound of 2 the counter
values 0, `queue_max_num - 1` and `queue_max_num`, at which the code decides whom to wake, are
different, and four jobs make the list fill, block a producer and drain again. `ImplementsExecutor`
includes the fairness of `JobExecutor`: a pending job is started, and a close ends. A call may come at
any time, also while the pool is being destroyed. The proofs lift
the safety part to every number of threads and every bound.

**mysql** (357035 states). The pool with 3 clients of 2 calls each, 1 connection at
the start and at most 2: three clients over two connections give a waiter, a releaser and
a newcomer that overtakes the waiter; each call chooses whether it has a time
limit; two of the clients release NULL, one does not; the destructor may begin at any
moment. `ConnectionsInOnePlace` also says that `m_used_list`, which nothing
reads, is right. One connection with 2 rows and a link that is lost at most twice
(`MaxLosses`): once before a call and once while its answer is on the way is
the worst a single call or a transaction of two changes can meet.
`TransactionsKept` says what holds in spite of the silent reconnect: a
transaction is whole as long as its session lasts, and an acknowledged change outside one
is never lost.

**redis** (201848 states). The pool as in `mysql` without time limits, over
connections that break and reconnect under their clients; the connections alone, with the
clock and the server, for `ConnRecovers`; and each of the 21 commands with each
reply, on one connection that commands leave in whatever state they find it or make of it. The integers
are those from -1 to 1, of which each command is answered with the ones redis may answer it with. AUTH can
fail, since there is a password.
`ResourcesReturned` covers the pool's own deletions too: of a connection that failed to
open and of those that are free when the pool goes. The pool is deleted only when no call
is under way, as in the programs. `MaxLost = 1` bounds the replies `Init`
leaves behind when SELECT is refused: one shows the count, more add nothing.

**hiredis** (156940 states). *Asynchronous*: 3 commands over 2 names and 1
message or line of a feed. Three are needed for subscribe, unsubscribe and subscribe again of one name
with a message in between, and for two pending commands with a disconnect
between them; the proofs lift the safety part to any number of messages. `Unruly = FALSE`: the user keeps to the rules of `Orderly` (see Known behaviour), and
may send commands before the connection stands, from every callback and from the connect callback.
*Synchronous*: every configuration of the connect
functions, `redisConnectFd` included, 2 addresses, 2 retries (10 in the code), 3 commands on each of 2
connections: a reply that is late, one that is not, and one of before the
reconnect. *Reader*: two replies of a stream out of statuses, nils, empty and nested
arrays, integers out of range and garbage, cut anywhere, with allocations that fail anywhere; `Depth` is 3 instead of 9 and `DiscardAt` 4 tokens
instead of 1024 bytes, so that both limits are passed. *Dictionary*: 3 keys, of which
two collide at every size; the table grows twice. *Strings*: three types of header
with ranges of 2, 4 and 16, a preallocation limit of 4 and lengths up to 4, so a string
grows through every type and shrinks back.

**timers** (360569 states). One timer in a wheel with shifts 1 and 2, a clock of
512 ticks: the delays lie on both sides of the boundaries of near and of the
levels, and a timer is added at every value of the clock; timers do not influence
where others sit, so one is enough for `Placed`, and the two shifts differ so that they
are not confused. Six timers in the heap: its third level is reached, and a node
deleted from the middle may have to move down or up. Four timers of heights 1 or 2
in the skip list: a node with neighbours on both levels. `MaxClock = 1` lets time pass
between the reading of the clock and the handlers; `Range32 = 16` is never reached
by it, see Known behaviour for the wrap.

**structures** (410591 states up to symmetry of the timers and of the bytes). Two timers in a wheel of 32 ticks with `del_timer`:
they can meet in one slot, one can be added while the other is dispatched, and the clock wraps
with both in flight; which list a timer is in is what one timer alone cannot get wrong,
so the lists are checked here and not in `timers`. The ring buffer in sizes 1, 2
and 4 with positions of 3 bits, which start three below the wrap, as in the code relative to
2^32, and pass it again and again; size 4 is half of the range, the largest power of two
positions of this width can tell apart from an empty buffer; writes and reads
ask for up to 4 bytes (`MaxRequest`), more than the smaller sizes have and, unless the buffer is empty,
than there is room for in the largest; a byte has two values, so a wrong one shows. Four objects in the free list; two chunks of
three blocks in the allocator. Pages of 8 words with an alignment of 4, requests of
2, 4, 7 (just above the space that is left after aligning) and 9 (large), four pages, two large
blocks. `MaxFailed` is 0 instead of 4: the first page counts its first failure when the third is made and is
given up with the fourth, so blocks are cut and the pool is reset with `current` behind a page; with 4
this would take eight pages. A second pool has blocks of 1
word, smaller than a descriptor.

The six **violation** runs reach the disagreement on the same or a smaller
instance; `async_pipelined` on that of the passing run with one name, one message and `Unruly = TRUE`. The one that refutes liveness (`timerwheel_lost`) runs under the
specification with fairness.

### Fairness

- `ThreadPool`: weak fairness of the steps of a thread that is *inside*
  `threadpool_add_job`, `threadpool_function` or `threadpool_destroy`: the
  operating system runs every runnable thread, the mutex is not held for ever by
  anyone (each section is finite), and callbacks return. Nothing is owed
  from outside: no call has to be made, no spurious wake-up has to come.
- `DBPool`, `CachePool`: weak fairness of a client inside a `Get...` call, and of
  its giving the connection back, which is the contract the test programs keep.
  No time limit has to pass and nobody has to delete the pool, so `CallsReturn` holds for waits
  without a limit because of the notifications alone. Weak fairness is enough
  because a client with a bounded number of competing calls (`Calls`) cannot be
  overtaken without end; with unboundedly many calls the code gives no order
  among waiters and does not promise that one returns.
- `CacheConn`: the clock advances, and a connection goes on being used (strong
  fairness, since a command and `DeInit` may disable one another).
- `AsyncContext`: the event loop calls a handler whose event stays armed, a callback (that of
  the connect included) returns and a connect ends. Users and server owe nothing: a command also ends when
  its context is freed or the server closes.
- `RedisReader`: the caller feeds what arrives and asks. No allocation has to succeed: `RepliesArrive`
  speaks of readers none of whose allocations failed.
- `TimerWheel`, `MinHeap`, `SkipList`: the main loop goes on calling
  `expire_timer`, and handlers return.
- The other components: safety only.

## Proofs

### The thread pool

`ThreadPoolProofs` proves, for all sets of producers,
workers and destroyers, every bound `queue_max_num >= 1` and every `JobsEach`:

| theorem | statement |
|---|---|
| `TypeCorrect` | `Spec => []TypeOK` |
| `BookkeepingHolds` | `Spec => []Bookkeeping` |
| `WakeupsSuffice` | `Spec => []NoMissedWakeup` |
| `ShutdownIsOrderly` | `Spec => []OrderlyShutdown` |
| `JobsRunExactlyOnce` | `Spec => []ExactlyOnce` |
| `PoolImplementsExecutor` | `Spec => Executor!SafetySpec` |

**Assumptions**: the three kinds of threads are disjoint (`ThreadsAssumption`),
the bound is positive and the number of calls natural (`SizeAssumption`), and NULL is not a
job (`NullAssumption`). TLC evaluates all of them in the runs of `MCThreadPool`.

**Argument.** None of the properties is inductive alone. `Inv` joins
`TypeOK`, `Bookkeeping`, `NoMissedWakeup`, `OrderlyShutdown` and
`ShutdownSteps`, which records how far the one destroyer has come. They lean on one another:

- `NoMissedWakeup` of a worker needs the counter to be the length of the list
  (`Bookkeeping`), because add_job decides by `head == NULL` whom to wake while the
  worker slept because of the counter.
- `NoMissedWakeup` of the destroyer needs that there is only one
  (`OrderlyShutdown`), because the last `Take` *signals* `queue_empty`, which wakes one thread.
- That no worker sleeps through the close needs `ShutdownSteps`: while
  `pool_close` is set and a worker still sleeps, a destroyer is just about to
  broadcast.

`Ledger` adds to `ExactlyOnce` that a worker has a job exactly while it is at
`run`, and that the number of a job never exceeds the calls its producer has
finished, so that a new job is new. `LedgerInvariance` proves `Inv /\ Ledger` invariant.
The refinement then maps each action to a step of `JobExecutor` (`AddEnqueue` to `Submit`,
`Take` to `Start`, `Run` to `Finish`, the three moments of destroy to `Drain`,
`Shut` and `Release`) or to a stutter.

### The connection pools

`MySQLProofs` and `RedisProofs` prove of `DBPool` and `CachePool`, for every finite set of clients, every
minimum and maximum of the pool and every number of calls:

| theorem | `MySQLProofs` | `RedisProofs` |
|---|---|---|
| `PoolTyped` | `Spec => []TypeOK` | `Spec => []TypeOK` |
| `ConnectionsExclusive` | `Spec => []Exclusive` | `Spec => []Exclusive` |
| `ConnectionsAccounted` | `Spec => []Accounted` | |
| `NoContextLost` | | `Spec => []ContextsOwned` |
| `WakeupsReachWaiters` | `Spec => []NoMissedWakeup` | `Spec => []NoMissedWakeup` |
| `PoolImplementsLease` | `Spec => ImplementsLease` | `Spec => ImplementsLease` |

**Assumptions**: the bounds are natural numbers and the connections are numbered up to the
larger of them (`CountAssumption`, `PoolAssumption`), the clients are finitely many and none is
one of the names the refinement gives to states (`ClientsAssumption`), NULL is neither a
connection nor the state of a context (`NullAssumption`, `PoolAssumption`), and some of the
clients release NULL (`ReleasersAssumption`). TLC evaluates them in
`mysql` and `redis`.

**Argument.** `Inv` joins the conjuncts above with `Underway`, which says where each client is
and that every connection in use has a number up to the counter, `m_db_cur_conn_cnt`
or `m_cur_conn_cnt`. This is what makes the connection opened next a new one, and so
`Exclusive` inductive. In `CDBPool` it also says that the members are only destroyed after
the abort, so that nobody is asleep by then. `NoMissedWakeup` is a count: the free
connections number at most the clients that are about to look at the list. A
release adds one to each side, since `notify_one` resumes one of the waiters if there is
any, and a client that takes a connection takes one from each, also if it is a newcomer. `ContextsOwned`
compares the contexts that are allocated with those the connections keep; what the pool deletes is
a subset of the latter, so it needs the theorems about the cardinality of subsets.
In the refinement the owner of a connection is read off `pDBConn` or `pConn`; `Exclusive` is
what makes that a function.

### Connections and commands

The second halves of `MySQLProofs` and `RedisProofs` extend the proofs about the pools to what the runs
`mysql` and `redis` check, for any set of rows and any number of lost links (`LossesAssumption`):

| theorem | statement |
|---|---|
| `MySQLConnections` | `PartsSpec => []ConnectionsInOnePlace` |
| `MySQLTransactions` | `PartsSpec => []TransactionsKept` |
| `RedisConnections` | `PartsSpec => []ConnectionsInOnePlace` |
| `RedisResources` | `PartsSpec => []ResourcesReturned` |
| `RedisUnanswered` | `PartsSpec => []UnansweredNotTold` |

`ConnInv` adds two parts to the properties of the mysql connection. `CallsMatch` says what a
call may rely on while it is under way: only a connected client has one, nothing has been told it
yet, the row of an update is in neither the table nor a claim, and the
statement that is executed is still the one that was prepared. `Uncommitted` relates what the client
believes to what the server keeps: the server has a transaction open only for a client that thinks
so; outside a transaction nothing is claimed; and within one whose link was not lost
no claimed row is in the table yet. A lost link falsifies the last part, and it is `lost` that says so:
a commit after a silent reconnect would otherwise count as kept.
For redis `CommandInv` says of a call under way, at each of its places, what it holds: an argument
vector from `BuildVector` on for the two commands that have one, a reply object while it is looked at, a
context as long as the call is not over. So each step of each command has to give back what it holds
when it leaves that place, and after the return nothing is held. Of the value it says that it is the
one for the reply that came, or for none, and `ReturnedTells` compares the two over all commands and
replies. For `incr`, `decr`, `incrBy`, `hincrBy` and the commands that fail with 0, FALSE or an
empty text the values may be the same (see Known behaviour): `UnansweredNotTold` claims a
difference only of `ToldApart`.

### The synchronous context

`HiredisProofs` proves `RepliesStayMatched` (`PartsSpec => []RepliesMatch`) for any number of
addresses, retries, commands and reconnects (`HiredisAssumption`). `SyncInv` follows a command from
`obuf` over the socket into the reader: in each of the three places the commands are a run of
consecutive numbers of the present connection (`RunOf`), and the runs join (`ReadInv`, `SentInv`).
While the link is up their lengths and the answers add up to the commands appended; when it is down
only the order is left, which is what the property needs. An error ends the run that is read and a
reconnect empties all of them (`UnusedInv`). `DescriptorsInv` says at each step of the connect loop
whether the descriptor of the context is open, and `LimitsInv` how far its addresses and retries
have come.

### The asynchronous context

`AsyncProofs` proves that `AsyncInv` is inductive, for any names, commands, names in a command and
messages (`AsyncAssumption`: the names are finitely many, the bounds natural numbers) and an orderly
user; `HiredisProofs` draws the theorems from it:

| theorem | statement | if |
|---|---|---|
| `CallbacksStayMatched` | `PartsSpec => []CallbacksMatch` | `Unruly = FALSE` |
| `AssertionsAlwaysHold` | `PartsSpec => []AssertionsHold` | `Unruly = FALSE` |
| `SubscribedModeEnds` | `PartsSpec => []LeavesSubscribedMode` | `Unruly = FALSE`, `MaxNames = 1` |

So the theorems are about users who keep to `Orderly`, the rules listed under Known behaviour. Both
hypotheses are needed: without the rules an assertion does fail (run `async_pipelined`) and a callback
may be called twice, and with two names in a command the mode may stay.

**Argument.** A reply has no number, and which callback it finds depends on what replies stand before
it. So `AsyncInv` describes the whole way of a command, from the output buffer over the socket
and the server to the replies on the wire, as one line. While the context lives it joins:

- `AsyncTypes`: the shape of everything, and that the commands in the buffer are the last ones, in
  order, so that `Written` says which the server has.
- `HistoryInv` and `ModeInv`: what the flags and `pc` say of the queues, and which commands can
  still be sent in this mode.
- `WaitingGetsInv`: each regular command is answered, or its callback waits in `replies`, in the
  order of the commands, and nothing was told it yet.
- `LinkInv`: what is on the wire and what the server will send for the commands on the way to it
  (`Flight`) against the callbacks, in four parts. `LineInv`: the replies to regular commands stand
  before all that is about subscriptions, in the order of the callbacks that wait. `EntriesInv`:
  whatever comes about a name, or can still come, finds an entry for it, whose `pending_subs` is at
  least the number of its confirmations still owed. `SilenceInv`: after a name is unsubscribed,
  nothing comes about it before it is subscribed again. `LeaveInv`, for commands of one name: the
  numbers are equal, so the last confirmation finds 0 and takes the entry, and that of the last name
  the mode.

The hard step is the server's: it executes commands one at a time, and one command may be answered
with several replies, so the lemmas follow `Executed` from name to name. Of a context that is gone
only what its callbacks were given is kept (`OwnReplies`, `CleanDisconnect`). TLC found each version
of `AsyncInv` that was not an invariant, with up to four commands of one name and three of two, where
`LeaveInv` claims nothing.

### The reader and the strings

`ReplyProofs` proves `RepliesStayInOrder` (`PartsSpec => []RepliesInOrder`) for any set of replies,
any number of them, any depth of the stack and any way to cut the stream.

**Assumptions**: `RepliesAssumption` says that a reply is a tree (`Tree`): an array of `n` elements
has the objects `0` to `n - 1` below it and nothing else is there. `StringsAssumption` says that the
fields of the largest header hold every length that is asked for, as 64 bits do, and that the types
of header are ordered. TLC evaluates both in the run `hiredis`.

**Argument.** The server sends the objects of a reply one after the other, an array before its
elements: this is the order `Precedes` on paths, and `Encoding` is the tokens of the objects in that
order. It is total (`OneBeforeOther`), so an object `p` has objects `Before` and after it, and `p`
alone says what the reader should hold when it comes to `p` (`Reached`): the tasks of its stack are
the places on the path to `p` (`StackAt`), the reply so far is the part before `p`, and the bytes
left, those in the buffer from `pos` on and those not fed yet, are the tokens of `p`, then those of
the later objects (`Ahead`), then the following replies. An item that is read moves the reader to
the next object: down to the first element of an array (`ArrayTaken`), else to the following sibling
of `p` or of the nearest array around it that is not complete, while `Moved` drops the tasks of
those that are (`LeafTaken`). An item that is refused, or for which there is no memory, is not
consumed, and the reader returns nothing after it. `ReaderInv` is then `Reached`, or the moment before the first object
(`Fresh`) or after the last (`Done`). Feeding and discarding bytes do not change what is left. That
nothing is held back follows from what is left: with all bytes fed, the token the reader waits for
is there (`NeverStuckWithin`). After an error only what was returned counts.

For the strings `Sound` says that the memory holds `len` bytes and a NUL, that the room covers both,
and that neither length nor room exceeds the fields of the type; every call that makes a string
longer first makes the room (`StringsKeep`). `RangesKept` compares what `sdsrange` leaves with the
positions that are inside the bounds.

### The dictionary

`HiredisProofs` proves `DictionaryIsMap` (`PartsSpec => DictIsMap`: the refinement of `DictMap`, and
that an iterator meets each entry once) for any set of numbers as keys, any hash function and any
initial size (`DictAssumption`).

**Argument.** A table is `Hashed` if every chain has entries of its own slot only and no key twice.
Of such a table only the set of entries (`Held`) matters: no key is in two chains, so the set is the
map the abstraction shows. `SlotChanged` says what changing one chain does to the set; add, replace
and delete are instances of it, and rebuilding the table is one addition per entry, in whatever
order the old one yields them. The invariant of the iterator says that every entry it has not
returned is `Later`: the one after the present in its chain as it was remembered, those behind that,
and those in later slots. Deleting the entry it stands on leaves these alone, which is what the code
relies on when it remembers the next entry before it returns one.

### The types of all parts

`PartsStayTyped` (`PartsSpec => []PartsTypeOK`, if `Unruly = FALSE`) collects what the invariants
above say of the ranges of variables: that no callback has an unknown number, that the stack of the
reader is never deeper than `Depth` and each index in it below its array's number of elements, that
the tables and the iterator fit, and that a string fits its header.

### The timers

`TimersProofs` proves, of the heap, for any number of timers and any delays:

| theorem | statement |
|---|---|
| `TimersKeepOrder` | `PartsSpec => []HeapOrdered` |
| `HeapFiresInOrder` | `PartsSpec => Heap!TQ!Init /\ [][Heap!TQ!Next]_(Heap!TQ!vars)` |

**Assumption**: the bounds are natural numbers and no clock the behaviours reach wraps
(`HeapAssumption`); that the heap is in order does not need the latter, that its order is that of the
times does.

**Argument.** `_shiftUp` and `_shiftDown` are loops, and the lemmas treat them as such. `LoopIs`
says that the recursive function of a loop exists if some measure of its state falls with every
turn, and `LoopKeeps` that what every turn keeps holds at the end; both come from the existence of a
least element in a set of naturals (`Least`, by the library's theorem on well-founded sets, which
takes sets where its induction theorems take operators). What a turn keeps is an order with one
exception: `UpOrdered` allows the node at one place to be due before its parent, `DownOrdered` also
after its children, and both keep the grandparent before the grandchildren, without which the swap
would break the order above. `UpGoes` and `DownGoes` show one swap, `UpEnds` and `DownEnds` that the
test that ends the loop is the one that closes the exception. `_delNode` needs both: if the node
does not move down, what is left is the exception of `_shiftUp` (`MendedOrders`). `Like` says the
rest: the same nodes, each with its place, and the last place untouched, where the node that leaves
waits. That there are no more nodes than ids, and so room in the heap, is a pigeonhole
(`HeapCounts`). For the refinement, `RootFirst` looks at the least place that would be due before
the root.

And of the wheel, for any number of nodes, any delays and any widths of near and of the levels:

| theorem | statement |
|---|---|
| `WheelTypes` | `SafetySpec => []TypeOK` |
| `WheelLosesNoTimer` | `SafetySpec => []LinkedOnce` |
| `WheelPlacesTimers` | `PartsSpec => []Placed` |
| `WheelInTime` | `PartsSpec => []OnTime` |

**Assumptions**: delays are positive and fit an `int` (`DelayAssumption`), and a slot of a level stands
for `TIME_LEVEL` slots of the one below, as the clock does for those of the last
(`UnitAssumption`). The latter is what powers of two are to one another, for any two shifts; the
provers know nothing of powers, so it is stated for them, and TLC evaluates it in every run.

**Argument.** `OnTime` says nothing of the timers that wait, and `Placed` nothing of a timer in a
slot 0 that is never moved, so neither is inductive. `WheelInv` says of every list what the turning
wheel relies on (`RightPlace`): a timer in near is less than one turn of it ahead, and one in a
level is in the slot of its time, which begins between now and then if it is one that is moved at
all. To this it adds that each timer in use is in one list, once (`EachOnce`), and that the slot of
the present tick is empty between the sections. A tick brings every time nearer by one
(`AheadFalls`), so only two lists can go wrong: near's slot of the tick that ends, which is empty,
and the slots that begin with the new tick. Of these there is at most one, because where a slot
begins the lower levels are at slot 0 (`LowerSlots`), and it is the one `TimerShift` moves
(`ShiftIs`), slot 0 of the last level included, which begins when the clock is 0 (`LastBegins`).
Wherever `AddNode` links a timer it is in place (`PlaceRight`), so the loop of `move_list`, treated
like those of the heap, keeps all of this at every turn (`TurnKeeps`). And whatever is then in
near's slot of the new tick expires now: near divides the clock (`NearDivides`), so of the times
less than one turn ahead only one has that slot (`NowOnly`).

### Pools of memory and the ring buffer

`StructuresProofs` proves:

| theorem | statement |
|---|---|
| `PagesStayWhole` | `PartsSpec => []PagesWhole` |
| `FreeListsStayWhole` | `PartsSpec => []FreeListsWhole` |
| `FreeListsRefine` | `PartsSpec => FreeListsArePools` |
| `ObjectsOnce`, `ListImplementsObjectPool` | the same of `TFreeList` by itself |
| `RingImplementsQueue` | `PartsSpec => ImplementsQueue` |

What they say ends where the code goes wrong for good. `PagesWhole` speaks of a pool, of any size and
also smaller than a descriptor, up to the first block cut beyond its page (`BlocksInPages`) and the
first overflow of the stack, and takes pages for separate address spaces; the free lists are whole
until a `malloc` of `CAllocator` fails. `RingImplementsQueue` says that a write returns the number of
bytes it was given and appends exactly these, or -1 and appends nothing, and that a read
returns the oldest bytes.

**Assumptions**: alignment and sizes are natural numbers and no large block is NULL
(`PagesAssumption`), the free lists have natural sizes (`FreeListsAssumption`), a byte never written
is not a byte (`GarbageAssumption`), and the sizes of the ring buffer divide the range of the
positions, at least twice (`RangeAssumption`), and no call asks for more bytes than an integer of
that range can say (`RequestAssumption`). `RangeAssumption` follows from the sizes and the range being
powers of two (`SizesAssumption`); the provers know nothing of powers, so it is stated for them, and
TLC evaluates both.

**Argument.** In the page pool (`PagesInv`) small blocks lie below `last` of their page and every
block below a cut that is made later, so a new block overlaps none. This must also hold when a page
was given up: the pages before `current` have failed more than `MaxFailed` times, and from `current`
on `failed` falls from page to page (`FailuresFall`). So the pages that are passed for good are the
ones before the new `current`, and no page behind it that may still have room is skipped. A large
block is in one descriptor or freed (`LargeBlocksOwned`). `TFreeList` (`ListInv`): the stack below
its top holds nothing twice and each object has at most one user; that `FreeInstance` never passes
the end of the array then follows from `m_iTop` being the number of objects that are not held.
`CAllocator` (`AllocatorInv`): there is a sequence of blocks, without repetition, that the links
lead through from `m_FreePosi` to NULL and that covers the blocks nobody uses; taking, giving back
and linking a new chunk each show the sequence that follows. The ring buffer (`RingInv`) keeps the
positions in their range and their difference, modulo the range, within the size. The queue is read
off the buffer from `read_pos` on. All arithmetic is in lemmas about remainders: a position of the
range and its successor fall on neighbouring places of the buffer, also at the wrap, because the
size divides the range.

### Only model-checked

- All liveness (`CallsReturn`, the fairness part of `ImplementsExecutor`, `ConnRecovers`,
  `CommandsEnd`, `RepliesArrive`, `PlacedTimersExpire`, the promptness of `TimerQueue` in
  `TimersInOrder`): fairness and ENABLED are out of the prover's reach.
- `LevelsNested` and the list's half of `TimersInOrder`: the walks over the levels of the
  skip list compare whole lists, of which one is filtered out of another.
- `LeavesSubscribedMode` with more than one name in a command, where it is false (see Known behaviour).

## Findings

Each is shown by a run that violates the property named, and quoted in full in
`PROJECT.json`.

1. `workUsePool` calls `RelDBConn(NULL)` after a failed `GetDBConn`; the NULL enters
   `m_free_list` and is later handed out as a connection (`NullIsExplained`).
2. `add_node` fills slot 0 of the levels 0 to 2, and `timer_shift` never moves
   those slots: such a timer never expires (`EveryTimerExpires`).
3. `add_timer` does not initialise `cancel`, so a recycled cell may carry the mark
   of a cancelled timer (`CancelledOnRequest`).
4. `zslDelete` deletes the first node with the score of the node it was given: of
   two timers of one millisecond the wrong one goes (`CancelledIsUnlinked`).
5. `mp_alloc` rounds the place up before it computes the room left, as a
   `size_t`: a place beyond the end has room for anything (`BlocksInPages`).
6. `redisvAsyncCommand` accepts commands in subscribed mode, and a second UNSUBSCRIBE of a name, whose
   reply arrives after the confirmation that ends the mode: the assertion that
   the context must be subscribed or monitoring (`async.c:477`) fails (`AssertionsHold`).

Because of them the passing runs state what does hold: calls return or end in a method called
through NULL or in a freed pool, a timer outside a dead slot expires, a skip list without ties is a timer
queue, blocks never overlap up to the first one cut beyond its page, and the assertions hold for
orderly users.

### Known behaviour the properties step around

Met while modelling; each is in the model or excluded from it as said.

- A redis context whose AUTH or SELECT was refused stays in `m_pContext`, and the next `Init` takes
  it for a working connection (`CachePool.cpp:60`, `108`, `129`). In the model; `Recovers` speaks of
  contexts that are NULL or broken.
- The reply to a refused SELECT is never freed (`CachePool.cpp:129`). In the model, counted by
  `lost`.
- `flushdb` compares the type of the reply with a string, which FLUSHDB never answers with: it
  returns false whatever happens. In the model.
- `Commit` pings first. A ping that reconnects has lost the transaction, and the commit of nothing
  succeeds. In the model; `TransactionsWhole` speaks of sessions that last.
- A call of `threadpool_add_job` or a second `threadpool_destroy` that comes while the pool is destroyed
  may find the mutex destroyed and the struct freed: `threadpool_destroy` joins only the workers. In the
  model (`UseAfterFree`). Nothing in the repository says that such a call is safe, so no property does;
  `OrderlyShutdown` says that nobody sleeps on a condition variable that is destroyed.
- The redis commands do not always tell a failure from an answer: the -1 of `incr`, `decr`, `incrBy` and
  `hincrBy` may be the counter itself, the 0 of `del` and `hdel` may be their answer, `isExists` is false
  in both cases, and an empty text of `get` and `hget` also stands for a key that is not there. In the model.
- What the asynchronous context accepts and then goes wrong about, which `Orderly` excludes and
  `Unruly = TRUE` allows:
  - A command after MONITOR. Lines of the feed may arrive before its reply and run its callback.
  - MONITOR while a reply is pending, or from the callback of a reply: `async.c:442-443` queues again
    whichever callback ran last in this event, so that of a GET is called a second time, with the feed.
  - MONITOR in subscribed mode: a message or confirmation that comes before its reply runs its callback.
  - A command in subscribed mode. The server refuses it with an error, which ends the
    connection; or, if an UNSUBSCRIBE before it has ended the subscription, finding 6.
  - UNSUBSCRIBE of a name that is not subscribed to, or is given up already: its confirmation
    comes when the mode may be over, finding 6.
  - A user who frees the context, or disconnects it with nothing pending, in the connect callback:
    the handler goes on with the freed context (`async.c:564`).
- Also for an orderly user the callback queued for a monitor is the one the last event ran, and none if the
  event brought no whole reply: then a callback without a function is queued beside that of MONITOR,
  and every other line of the feed is dropped (`async.c:427`, `443`). In the model; `CallbacksMatch` does
  not ask for each line.
- A descriptor that `redisReconnect` closed and could not replace keeps its number in `c->fd` and is
  closed again later (`hiredis.c:607`, `629`), by when the number may be another file's. The model knows
  only the descriptors of the context.
- A command that subscribes to several names carries the `pending_subs` of one name over to the next
  (`async.c:626-647`). After SUBSCRIBE of one name, a second SUBSCRIBE of it and of a new name, sent
  before the first is confirmed, gives the new name two pending confirmations, of which one never
  comes: when all is left the entry and the mode stay. TLC finds it with `MaxNames = 2`; the run has
  1.
- The retry of a bind or connect that found its address in use gives up without setting `err`
  (`net.c`, `REDIS_CONNECT_RETRIES`), and an invalid timeout of a Unix socket likewise. In the model
  (`Fail(FALSE)`).
- A handler of the min-heap that cancels its own timer has its node freed twice (`minheap.cc:88`).
  Excluded.
- The times of the min-heap and the skip list are 32-bit milliseconds and compared without regard to
  the wrap: 49 days after the start of the clock new timers overtake old ones. Excluded by `Range32`
  being out of reach of the clock.
- `skiplist.c:146` initialises an array with `= 0`, which no compiler accepts; the model takes
  `{0}`, as in the two functions beside it.
- A block or object given back twice corrupts both free lists; `TFreeList` asserts only its count.
  Excluded.

## Not modelled, and why

- `CResultSet` and the reading calls of `CDBConn`: they change nothing but the
  result they return. The values carried by redis commands and SQL statements.
- UNSUBSCRIBE without names, a name twice in one command, and `redisFreeKeepFd`: no caller has them,
  and the first, with nothing subscribed, fails an assertion about the type of the name.
- The formatting of commands (`redisvFormatCommand`, `redisFormatCommandArgv`),
  `mget` joining its keys with blanks: text without state.
- `sds.c`: splitting, joining, quoting, changing case, and the formatting of numbers and of
  `printf` directives, which only produce text.
- `clear_timer`, which frees the lists without the lock while adders may run: a data
  race over list links; and the immediate callback of a delay that is not positive.
- A callback that calls the thread pool itself: none in the repository does.
- A failing `pthread_create` or a failing `Init` of a pool: every program of the
  repository gives up there.
- Buffers whose size is not a power of two: the precondition the comment of
  `rb_is_full` states. The `main` of `ringbuffer.c` violates it with 9 bytes.
- `roundup_power_of_two` and `is_power_of_two` in `ringbuffer.h`: pure, and called by nobody.
- The assembler routines, the two READMEs without code.

## Plan

Done, in this order: the thread pool with its abstract specification and proofs; both
connection pools, the redis connection and its commands; the timers; the mysql connection;
hiredis from the asynchronous context down to its strings; the ring buffer, the free lists and the page
pool; the proofs about both pools, the mysql connection and the redis commands, the
synchronous context, the heap, the wheel, the free lists, the page pool and the ring buffer, and
about the asynchronous context, the reader, the strings and the dictionary.

Next:

1. The levels of the skip list proved, over lists that are filtered out of one another.
2. Callbacks that call `threadpool_add_job` themselves, for which a caller would have to exist.
3. `clear_timer` against the threads that add timers, once it is decided what a torn list may
   look like.
4. `CResultSet`: the rows of a result, read through its cursor.

## Running

    tlc -config MCThreadPool.cfg MCThreadPool.tla
    tlc -config MCMySQL.cfg MCMySQL.tla
    tlc -config MCRedis.cfg MCRedis.tla
    tlc -config MCHiredis.cfg MCHiredis.tla
    tlc -config MCTimers.cfg MCTimers.tla
    tlc -config MCStructures.cfg MCStructures.tla
    tlapm ThreadPoolProofs.tla
    tlapm MySQLProofs.tla
    tlapm RedisProofs.tla
    tlapm AsyncProofs.tla
    tlapm ReplyProofs.tla
    tlapm HiredisProofs.tla
    tlapm TimersProofs.tla
    tlapm StructuresProofs.tla

Each run takes at most three minutes, the proofs between one minute and a quarter
of an hour each. The violation runs and
their configurations are listed in `PROJECT.json`.
