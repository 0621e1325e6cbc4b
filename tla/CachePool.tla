----------------------------- MODULE CachePool -----------------------------
(***************************************************************************)
(* The redis connection pool CachePool over the connections of CacheConn,   *)
(* and the clients that lease one, send commands over it and give it back.  *)
(* A section under m_free_notify is one action, the creation of a connection*)
(* on demand included; commands are sent outside it.                        *)
(*                                                                          *)
(* Connections are named 1, 2, ... in the order they are opened.  pc[c] is  *)
(* "lock" when c is about to take the mutex or to look at the list again,   *)
(* "wait" in pthread_cond_wait, "have" between GetCacheConn and             *)
(* RelCacheConn, and "undefined" once c has used a NULL connection or a     *)
(* deleted pool.                                                            *)
(***************************************************************************)
EXTENDS CacheConn, Sequences

CONSTANTS Clients,
          MIN_CACHE_CONN_CNT,
          m_max_conn_cnt,
          Calls           \* bound: calls of GetCacheConn by each client

MaxOpen == IF m_max_conn_cnt < MIN_CACHE_CONN_CNT THEN MIN_CACHE_CONN_CNT
           ELSE m_max_conn_cnt

ASSUME PoolAssumption == /\ MIN_CACHE_CONN_CNT \in Nat
                         /\ m_max_conn_cnt \in Nat \ {0}
                         /\ Conns = 1 .. MaxOpen /\ NULL \notin Conns
                         /\ Calls \in Nat
ASSUME ClientsAssumption == IsFiniteSet(Clients) /\ Clients \cap {"none", "idle"} = {}

VARIABLES m_free_list,
          m_cur_conn_cnt,
          deleted,        \* the pool is gone
          pc,
          pConn,          \* pConn[c]: the connection c has, or NULL
          calls           \* calls[c]: calls of GetCacheConn c has begun

poolVars == <<m_free_list, m_cur_conn_cnt, deleted, pc, pConn, calls>>
vars == <<connVars, poolVars>>

\* The constructor and a successful CachePool::Init; the program ends otherwise.
Init == /\ m_free_list = [i \in 1 .. MIN_CACHE_CONN_CNT |-> i]
        /\ m_cur_conn_cnt = MIN_CACHE_CONN_CNT
        /\ deleted = FALSE
        /\ pc = [c \in Clients |-> "idle"]
        /\ pConn = [c \in Clients |-> NULL]
        /\ calls = [c \in Clients |-> 0]
        /\ m_pContext = [k \in Conns |-> IF k <= MIN_CACHE_CONN_CNT THEN "open" ELSE NULL]
        /\ recent = [k \in Conns |-> k <= MIN_CACHE_CONN_CNT]
        /\ contexts = MIN_CACHE_CONN_CNT
        /\ healthy = FALSE

-----------------------------------------------------------------------------
(* CThreadNotify                                                            *)

Waiting == {c \in Clients : pc[c] = "wait"}
Resuming == {c \in Clients : pc[c] = "lock"}

\* The sets of waiters pthread_cond_signal may wake.
Signal == IF Waiting = {} THEN {{}} ELSE {{c} : c \in Waiting}

Move(self, label, woken) ==
  pc' = [c \in Clients |-> IF c = self THEN label
                           ELSE IF c \in woken THEN "lock" ELSE pc[c]]

SpuriousWakeup(c) ==
  /\ pc[c] = "wait" /\ ~deleted
  /\ pc' = [pc EXCEPT ![c] = "lock"]
  /\ UNCHANGED <<connVars, m_free_list, m_cur_conn_cnt, deleted, pConn, calls>>

-----------------------------------------------------------------------------
(* CachePool::GetCacheConn                                                  *)

CallGetCacheConn(c) ==
  /\ pc[c] = "idle" /\ ~deleted
  /\ calls[c] < Calls
  /\ pc' = [pc EXCEPT ![c] = "lock"]
  /\ calls' = [calls EXCEPT ![c] = @ + 1]
  /\ UNCHANGED <<connVars, m_free_list, m_cur_conn_cnt, deleted, pConn>>

Lease(c, k) == /\ pc' = [pc EXCEPT ![c] = "have"]
               /\ pConn' = [pConn EXCEPT ![c] = k]

\* Slip: the front is handed out and stays in the list.
PoppedKept == m_free_list

Popped == Tail(m_free_list)

GetFree(c) ==
  /\ pc[c] = "lock"
  /\ m_free_list # <<>>
  /\ Lease(c, Head(m_free_list))
  /\ m_free_list' = Popped
  /\ UNCHANGED <<connVars, m_cur_conn_cnt, deleted, calls>>

MayOpen == m_cur_conn_cnt < m_max_conn_cnt

GetWait(c) ==
  /\ pc[c] = "lock"
  /\ m_free_list = <<>> /\ ~MayOpen
  /\ pc' = [pc EXCEPT ![c] = "wait"]
  /\ UNCHANGED <<connVars, m_free_list, m_cur_conn_cnt, deleted, pConn, calls>>

\* How many contexts CacheConn::~CacheConn frees of a connection that has context.
Destructor(context) == IF context # NULL THEN 1 ELSE 0

\* Open a connection under the mutex.  It goes through m_free_list to the client;
\* if its Init fails it is deleted, perhaps with the context of a failed AUTH or
\* SELECT, and the client calls a method of NULL.
GetOpen(c) ==
  LET k == m_cur_conn_cnt + 1 IN
  /\ pc[c] = "lock"
  /\ m_free_list = <<>> /\ MayOpen
  /\ \E result \in Connect :
       IF result.ret = 0
       THEN /\ Lease(c, k)
            /\ m_cur_conn_cnt' = k
            /\ m_pContext' = [m_pContext EXCEPT ![k] = result.context]
            /\ recent' = [recent EXCEPT ![k] = TRUE]
            /\ contexts' = contexts + 1
       ELSE /\ pc' = [pc EXCEPT ![c] = "undefined"]
            /\ contexts' = contexts + (IF result.context # NULL THEN 1 ELSE 0)
                            - Destructor(result.context)
            /\ UNCHANGED <<m_cur_conn_cnt, m_pContext, recent, pConn>>
  /\ UNCHANGED <<m_free_list, deleted, healthy, calls>>

-----------------------------------------------------------------------------
(* The client's commands, and CachePool::RelCacheConn                       *)

Use(c) ==
  /\ pc[c] = "have"
  /\ Command(pConn[c])
  /\ UNCHANGED poolVars

\* Slip: the connection is given back and nobody is told.
RelSignalsNobody == {{}}

RelSignals == Signal

InFreeList(k) == \E i \in 1 .. Len(m_free_list) : m_free_list[i] = k

RelCacheConn(c) ==
  /\ pc[c] = "have" /\ ~deleted
  /\ m_free_list' = IF InFreeList(pConn[c]) THEN m_free_list
                    ELSE Append(m_free_list, pConn[c])
  /\ \E woken \in RelSignals : Move(c, "idle", woken)
  /\ pConn' = [pConn EXCEPT ![c] = NULL]
  /\ UNCHANGED <<connVars, m_cur_conn_cnt, deleted, calls>>

-----------------------------------------------------------------------------
(* CachePool::~CachePool                                                    *)

\* Deletes the connections that are free; nobody is told, and one that a client
\* has is left to it.  The test programs call it from the thread that made the
\* pool, when no call is under way.
DeletePool ==
  /\ ~deleted
  /\ \A c \in Clients : pc[c] \in {"idle", "have", "undefined"}
  /\ deleted' = TRUE
  /\ m_cur_conn_cnt' = 0
  /\ m_free_list' = <<>>
  /\ m_pContext' = [k \in Conns |-> IF InFreeList(k) THEN NULL ELSE m_pContext[k]]
  /\ contexts' = contexts - Cardinality({k \in Conns : InFreeList(k) /\ m_pContext[k] # NULL})
  /\ UNCHANGED <<recent, healthy, pc, pConn, calls>>

\* Giving a connection back to a deleted pool: anything may follow.
UseAfterDelete(c) ==
  /\ pc[c] = "have" /\ deleted
  /\ pc' = [pc EXCEPT ![c] = "undefined"]
  /\ UNCHANGED <<connVars, m_free_list, m_cur_conn_cnt, deleted, pConn, calls>>

-----------------------------------------------------------------------------
GetCacheConn(c) == GetFree(c) \/ GetWait(c) \/ GetOpen(c)

Terminating == /\ deleted
               /\ \A c \in Clients : pc[c] \in {"idle", "undefined"}
               /\ UNCHANGED vars

Next == \/ \E c \in Clients : \/ CallGetCacheConn(c) \/ GetCacheConn(c) \/ Use(c)
                              \/ RelCacheConn(c) \/ UseAfterDelete(c)
                              \/ SpuriousWakeup(c)
        \/ DeletePool
        \/ (Tick \/ Heal) /\ UNCHANGED poolVars
        \/ Terminating

\* A client inside GetCacheConn keeps running, and one that has a connection
\* gives it back.
Fairness == \A c \in Clients : WF_vars(GetCacheConn(c)) /\ WF_vars(RelCacheConn(c))

SafetySpec == Init /\ [][Next]_vars

Spec == SafetySpec /\ Fairness

-----------------------------------------------------------------------------
(* Properties                                                               *)

TypeOK ==
  /\ ConnTypeOK
  /\ m_free_list \in Seq(Conns)
  /\ m_cur_conn_cnt \in 0 .. MaxOpen
  /\ deleted \in BOOLEAN
  /\ pc \in [Clients -> {"idle", "lock", "wait", "have", "undefined"}]
  /\ pConn \in [Clients -> Conns \cup {NULL}]
  /\ calls \in [Clients -> 0 .. Calls]

\* A connection has one user at a time, so no client reads the reply to the
\* command of another: it is with one client, or once in m_free_list.
Exclusive ==
  /\ \A c, d \in Clients : pConn[c] = pConn[d] /\ pConn[c] # NULL => c = d
  /\ \A c \in Clients : ~InFreeList(pConn[c])
  /\ \A i, j \in 1 .. Len(m_free_list) : m_free_list[i] = m_free_list[j] => i = j

\* A client sleeps only while no connection may be opened and every free one is
\* spoken for by a client that is about to look at the list.
NoMissedWakeup ==
  Waiting # {} => /\ ~MayOpen
                  /\ Len(m_free_list) <= Cardinality(Resuming)

\* The client that has connection k, or whether it is free.
Owner(k) == IF \E c \in Clients : pConn[c] = k THEN CHOOSE c \in Clients : pConn[c] = k
            ELSE IF InFreeList(k) THEN "idle" ELSE "none"

\* The pool leases its connections as LeasePool demands.
LeaseSpec == INSTANCE LeasePool WITH
  Unopened <- "none", Idle <- "idle", Deleted <- "none",
  open <- ~deleted,
  owner <- [k \in Conns |-> Owner(k)]

ImplementsLease == LeaseSpec!Spec

\* Every GetCacheConn returns as long as the clients give connections back.
CallsReturn == \A c \in Clients : pc[c] = "lock" ~> pc[c] \in {"have", "undefined"}
=============================================================================
