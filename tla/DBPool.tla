------------------------------- MODULE DBPool -------------------------------
(***************************************************************************)
(* The MySQL connection pool CDBPool and the clients that use it: GetDBConn *)
(* with and without a time limit, RelDBConn, the creation of connections on *)
(* demand, and the destructor.  A section under m_mutex is one action.      *)
(*                                                                          *)
(* Connections are named 1, 2, ... in the order they are opened.  pc[c] is  *)
(* "wait" or "wait_for" while c is in m_cond_var, "woken", "woken_for" or   *)
(* "timed_out" when it has left it and needs the mutex again, and "have"    *)
(* between the return of GetDBConn and RelDBConn.                           *)
(***************************************************************************)
EXTENDS Integers, Sequences, FiniteSets

CONSTANTS Clients,
          MIN_DB_CONN_CNT,
          m_db_max_conn_cnt,
          Calls,         \* bound: calls of GetDBConn by each client
          NULL,
          NullReleasers  \* the clients that call RelDBConn whatever they got, as
                         \* workUsePool does; the others test the pointer first

ASSUME CountAssumption == /\ MIN_DB_CONN_CNT \in Nat
                          /\ m_db_max_conn_cnt \in Nat \ {0}
                          /\ Calls \in Nat
ASSUME NullAssumption == NULL \notin Nat
ASSUME ReleasersAssumption == NullReleasers \subseteq Clients
ASSUME ClientsAssumption == /\ IsFiniteSet(Clients)
                            /\ Clients \cap {"unopened", "idle", "deleted"} = {}

\* The pool starts with MIN_DB_CONN_CNT connections whatever its maximum is.
MaxOpen == IF m_db_max_conn_cnt < MIN_DB_CONN_CNT THEN MIN_DB_CONN_CNT
           ELSE m_db_max_conn_cnt
Conns == 1 .. MaxOpen

VARIABLES m_free_list,
          m_used_list,        \* a bag: its order is never looked at
          m_db_cur_conn_cnt,
          m_abort_request,
          destroyed,          \* the members of the pool are gone
          pc,
          timed,              \* timed[c]: timeout_ms >= 0 in c's call
          pDBConn,            \* pDBConn[c]: what GetDBConn returned to c
          why,                \* history: for what reason it did
          calls

pool == <<m_free_list, m_used_list, m_db_cur_conn_cnt, m_abort_request, destroyed>>
vars == <<pool, pc, timed, pDBConn, why, calls>>

\* The constructor and a successful CDBPool::Init; the program ends otherwise.
Init == /\ m_free_list = [i \in 1 .. MIN_DB_CONN_CNT |-> i]
        /\ m_used_list = [k \in Conns \cup {NULL} |-> 0]
        /\ m_db_cur_conn_cnt = MIN_DB_CONN_CNT
        /\ m_abort_request = FALSE
        /\ destroyed = FALSE
        /\ pc = [c \in Clients |-> "idle"]
        /\ timed = [c \in Clients |-> FALSE]
        /\ pDBConn = [c \in Clients |-> NULL]
        /\ why = [c \in Clients |-> "none"]
        /\ calls = [c \in Clients |-> 0]

-----------------------------------------------------------------------------
(* m_cond_var                                                               *)

Waiting == {c \in Clients : pc[c] \in {"wait", "wait_for"}}
Resuming == {c \in Clients : pc[c] \in {"woken", "woken_for", "timed_out"}}

Woken(c) == IF pc[c] = "wait" THEN "woken" ELSE "woken_for"

\* Client self moves to label and the clients of set leave m_cond_var.
Move(self, label, set) ==
  pc' = [c \in Clients |-> IF c = self THEN label
                           ELSE IF c \in set THEN Woken(c) ELSE pc[c]]

NotifyOne == IF Waiting = {} THEN {{}} ELSE {{c} : c \in Waiting}

SpuriousWakeup(c) ==
  /\ c \in Waiting /\ ~destroyed
  /\ pc' = [pc EXCEPT ![c] = Woken(c)]
  /\ UNCHANGED <<pool, timed, pDBConn, why, calls>>

\* The time limit of wait_for passes, whether or not a notify is under way.
Timeout(c) ==
  /\ pc[c] \in {"wait_for", "woken_for"} /\ ~destroyed
  /\ pc' = [pc EXCEPT ![c] = "timed_out"]
  /\ UNCHANGED <<pool, timed, pDBConn, why, calls>>

-----------------------------------------------------------------------------
(* CDBPool::GetDBConn                                                       *)

CallGetDBConn(c) ==
  /\ pc[c] = "idle" /\ calls[c] < Calls
  /\ ~m_abort_request
  /\ pc' = [pc EXCEPT ![c] = "enter"]
  /\ \E t \in BOOLEAN : timed' = [timed EXCEPT ![c] = t]
  /\ UNCHANGED <<pool, pDBConn, why, calls>>

Return(c, k, reason) ==
  /\ pc' = [pc EXCEPT ![c] = "have"]
  /\ pDBConn' = [pDBConn EXCEPT ![c] = k]
  /\ why' = [why EXCEPT ![c] = reason]
  /\ UNCHANGED <<m_abort_request, destroyed, timed, calls>>

ReturnNull(c, reason) ==
  /\ Return(c, NULL, reason)
  /\ UNCHANGED <<m_free_list, m_used_list, m_db_cur_conn_cnt>>

\* Slip: the connection is handed out and stays in m_free_list.
PopFreeKept(c) ==
  /\ Return(c, Head(m_free_list), "connection")
  /\ m_used_list' = [m_used_list EXCEPT ![Head(m_free_list)] = @ + 1]
  /\ UNCHANGED <<m_free_list, m_db_cur_conn_cnt>>

\* Move the front of m_free_list to m_used_list and return it.
PopFree(c) ==
  /\ Return(c, Head(m_free_list), "connection")
  /\ m_free_list' = Tail(m_free_list)
  /\ m_used_list' = [m_used_list EXCEPT ![Head(m_free_list)] = @ + 1]
  /\ UNCHANGED m_db_cur_conn_cnt

\* Under the mutex on entry, or after the wait is over.
Holding(c) == pc[c] \in {"enter", "woken", "woken_for", "timed_out"} /\ ~destroyed

GetAborted(c) ==
  /\ Holding(c)
  /\ m_abort_request
  /\ pc[c] = "timed_out" => m_free_list # <<>>
  /\ ReturnNull(c, "abort")

GetFree(c) ==
  /\ Holding(c)
  /\ ~m_abort_request
  /\ m_free_list # <<>>
  /\ PopFree(c)

MayOpen == m_db_cur_conn_cnt < m_db_max_conn_cnt

\* No connection is free and none may be opened: wait, or wait on.
GetWait(c) ==
  /\ ~destroyed
  /\ ~m_abort_request
  /\ m_free_list = <<>>
  /\ \/ pc[c] = "enter" /\ ~MayOpen
     \/ pc[c] \in {"woken", "woken_for"}
  /\ pc' = [pc EXCEPT ![c] = IF timed[c] THEN "wait_for" ELSE "wait"]
  /\ UNCHANGED <<pool, timed, pDBConn, why, calls>>

GetTimedOut(c) ==
  /\ pc[c] = "timed_out" /\ ~destroyed
  /\ m_free_list = <<>>
  /\ ReturnNull(c, "timeout")

GetOpenFailed(c) ==
  /\ pc[c] = "enter" /\ ~destroyed
  /\ ~m_abort_request
  /\ m_free_list = <<>> /\ MayOpen
  /\ ReturnNull(c, "connect")

\* CDBConn::Init succeeds: the new connection goes through m_free_list.
GetOpen(c) ==
  LET k == m_db_cur_conn_cnt + 1 IN
  /\ pc[c] = "enter" /\ ~destroyed
  /\ ~m_abort_request
  /\ m_free_list = <<>> /\ MayOpen
  /\ Return(c, k, "connection")
  /\ m_db_cur_conn_cnt' = k
  /\ m_used_list' = [m_used_list EXCEPT ![k] = @ + 1]
  /\ UNCHANGED m_free_list

-----------------------------------------------------------------------------
(* CDBPool::RelDBConn and its callers                                       *)

InFreeList(k) == \E i \in 1 .. Len(m_free_list) : m_free_list[i] = k

Forget(c) == /\ pDBConn' = [pDBConn EXCEPT ![c] = NULL]
             /\ why' = [why EXCEPT ![c] = "none"]
             /\ calls' = [calls EXCEPT ![c] = @ + 1]
             /\ UNCHANGED <<m_db_cur_conn_cnt, m_abort_request, destroyed, timed>>

\* Slip: the connection is given back and nobody is told.
NotifyNobody == {{}}

RelNotifies == NotifyOne

\* Slip: the connection stays in m_used_list.
UsedStill(k) == m_used_list

\* list::remove takes every occurrence.
UsedWithout(k) == [m_used_list EXCEPT ![k] = 0]

\* The value k is not in m_free_list: it goes there, and a waiter is notified.
RelDBConn(c) ==
  LET k == pDBConn[c] IN
  /\ pc[c] = "have" /\ ~destroyed
  /\ k # NULL \/ c \in NullReleasers
  /\ ~InFreeList(k)
  /\ m_used_list' = UsedWithout(k)
  /\ m_free_list' = Append(m_free_list, k)
  /\ \E set \in RelNotifies : Move(c, "idle", set)
  /\ Forget(c)

\* "RelDBConn failed": k is in m_free_list already.
RelDBConnFailed(c) ==
  /\ pc[c] = "have" /\ ~destroyed
  /\ pDBConn[c] # NULL \/ c \in NullReleasers
  /\ InFreeList(pDBConn[c])
  /\ pc' = [pc EXCEPT ![c] = "idle"]
  /\ Forget(c)
  /\ UNCHANGED <<m_free_list, m_used_list>>

\* A client that tests the pointer gives nothing back.
SkipRelease(c) ==
  /\ pc[c] = "have"
  /\ pDBConn[c] = NULL /\ c \notin NullReleasers
  /\ pc' = [pc EXCEPT ![c] = "idle"]
  /\ Forget(c)
  /\ UNCHANGED <<m_free_list, m_used_list>>

-----------------------------------------------------------------------------
(* CDBPool::~CDBPool                                                        *)

\* The body, under the mutex.
DestructorBody ==
  /\ ~m_abort_request
  /\ m_abort_request' = TRUE
  /\ m_free_list' = <<>>
  /\ pc' = [c \in Clients |-> IF c \in Waiting THEN Woken(c) ELSE pc[c]]
  /\ UNCHANGED <<m_used_list, m_db_cur_conn_cnt, destroyed, timed, pDBConn, why, calls>>

\* Then the mutex, the condition variable and the lists, and the memory.
DestructorMembers ==
  /\ m_abort_request /\ ~destroyed
  /\ destroyed' = TRUE
  /\ UNCHANGED <<m_free_list, m_used_list, m_db_cur_conn_cnt, m_abort_request,
                 pc, timed, pDBConn, why, calls>>

\* A client inside the pool, or about to give a connection back, touches the
\* deleted pool: anything may follow.
UseAfterDelete(c) ==
  /\ destroyed
  /\ \/ pc[c] \in {"enter", "wait", "wait_for", "woken", "woken_for", "timed_out"}
     \/ pc[c] = "have" /\ (pDBConn[c] # NULL \/ c \in NullReleasers)
  /\ pc' = [pc EXCEPT ![c] = "undefined"]
  /\ UNCHANGED <<pool, timed, pDBConn, why, calls>>

-----------------------------------------------------------------------------
GetDBConn(c) == \/ GetAborted(c) \/ GetFree(c) \/ GetWait(c) \/ GetTimedOut(c)
                \/ GetOpenFailed(c) \/ GetOpen(c) \/ UseAfterDelete(c)
Release(c) == RelDBConn(c) \/ RelDBConnFailed(c) \/ SkipRelease(c)

Terminating == /\ \A c \in Clients : \/ pc[c] = "undefined"
                                     \/ pc[c] = "idle" /\ m_abort_request
               /\ destroyed
               /\ UNCHANGED vars

Next == \/ \E c \in Clients : \/ CallGetDBConn(c) \/ GetDBConn(c) \/ Release(c)
                              \/ SpuriousWakeup(c) \/ Timeout(c)
        \/ DestructorBody \/ DestructorMembers
        \/ Terminating

\* A client inside GetDBConn keeps running, and one that has a connection
\* gives it back.  No time limit has to pass and the pool may live for ever.
Fairness == \A c \in Clients : WF_vars(GetDBConn(c)) /\ WF_vars(Release(c))

SafetySpec == Init /\ [][Next]_vars

Spec == SafetySpec /\ Fairness

-----------------------------------------------------------------------------
(* Properties                                                               *)

TypeOK ==
  /\ m_free_list \in Seq(Conns \cup {NULL})
  /\ m_used_list \in [Conns \cup {NULL} -> Nat]
  /\ m_db_cur_conn_cnt \in MIN_DB_CONN_CNT .. MaxOpen
  /\ m_abort_request \in BOOLEAN /\ destroyed \in BOOLEAN
  /\ pc \in [Clients -> {"idle", "enter", "wait", "wait_for", "woken",
                         "woken_for", "timed_out", "have", "undefined"}]
  /\ timed \in [Clients -> BOOLEAN]
  /\ pDBConn \in [Clients -> Conns \cup {NULL}]
  /\ why \in [Clients -> {"none", "connection", "abort", "timeout", "connect"}]
  /\ calls \in [Clients -> 0 .. Calls]

\* A connection is in one place: handed to one client, or once in m_free_list,
\* so two clients never send statements over the same one.
Exclusive ==
  /\ \A c, d \in Clients : pDBConn[c] = pDBConn[d] /\ pDBConn[c] # NULL => c = d
  /\ \A c \in Clients : pDBConn[c] # NULL => ~InFreeList(pDBConn[c])
  /\ \A i, j \in 1 .. Len(m_free_list) : m_free_list[i] = m_free_list[j] => i = j

\* No connection is lost while the pool lives: each one the counter counts is
\* free or with a client, and m_used_list names exactly those clients have.
Accounted ==
  /\ ~m_abort_request => \A k \in 1 .. m_db_cur_conn_cnt :
                            InFreeList(k) \/ \E c \in Clients : pDBConn[c] = k
  /\ \A k \in Conns : m_used_list[k] = Cardinality({c \in Clients : pDBConn[c] = k})

\* A client sleeps only while every free connection is spoken for: for each
\* there is a client on its way out of the wait.  notify_one is sent once per
\* release, and a client that comes in later may take the connection first.
NoMissedWakeup ==
  Waiting # {} => /\ Len(m_free_list) <= Cardinality(Resuming)
                  /\ ~m_abort_request

\* GetDBConn returns NULL for one of its documented reasons only: the pool is
\* going away, the time limit passed, or a connection could not be opened.
NullIsExplained ==
  \A c \in Clients : pc[c] = "have" /\ why[c] = "connection" => pDBConn[c] # NULL

\* The client that has connection k, or what has become of it.
Owner(k) == IF \E c \in Clients : pDBConn[c] = k THEN CHOOSE c \in Clients : pDBConn[c] = k
            ELSE IF k > m_db_cur_conn_cnt THEN "unopened"
            ELSE IF m_abort_request /\ ~InFreeList(k) THEN "deleted" ELSE "idle"

\* The pool leases its connections as LeasePool demands; in particular none is
\* leased after the destructor began, and none is deleted that a client has.
Lease == INSTANCE LeasePool WITH
  Unopened <- "unopened", Idle <- "idle", Deleted <- "deleted",
  open <- ~m_abort_request,
  owner <- [k \in Conns |-> Owner(k)]

ImplementsLease == Lease!Spec

\* Every GetDBConn returns as long as the clients give connections back.
CallsReturn ==
  \A c \in Clients : pc[c] = "enter" ~> pc[c] \in {"have", "undefined"}
=============================================================================
