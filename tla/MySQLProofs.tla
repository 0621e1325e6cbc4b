----------------------------- MODULE MySQLProofs -----------------------------
(***************************************************************************)
(* Theorems about the mysql client: the pool, for any finite set of clients,*)
(* any limits and any number of calls; then the client as the runs compose  *)
(* it, the pool with its clients, and a connection with the client that has *)
(* it, for any set of rows and any number of lost links.                    *)
(***************************************************************************)
EXTENDS MCMySQL, FiniteSetTheorems, TLAPS

\* How far the calls of the clients and the destructor have come.
Underway ==
  /\ \A c \in Clients : /\ pDBConn[c] # NULL => /\ pc[c] \in {"have", "undefined"}
                                                 /\ pDBConn[c] <= m_db_cur_conn_cnt
                        /\ pc[c] \notin {"idle", "undefined"} => calls[c] < Calls
  /\ \A i \in 1 .. Len(m_free_list) : m_free_list[i] # NULL =>
                                      m_free_list[i] <= m_db_cur_conn_cnt
  /\ destroyed => m_abort_request

\* A connection that is opened is new because of the counter, and nobody waits in
\* a pool that is destroyed because the destructor woke all.
Inv == TypeOK /\ Exclusive /\ Accounted /\ NoMissedWakeup /\ Underway

-----------------------------------------------------------------------------
(* Lists and types                                                          *)

LEMMA MaxOpenBounds ==
  /\ MaxOpen \in Nat
  /\ MIN_DB_CONN_CNT <= MaxOpen /\ m_db_max_conn_cnt <= MaxOpen
  /\ MIN_DB_CONN_CNT \in Nat /\ m_db_max_conn_cnt \in Nat /\ Calls \in Nat
  BY CountAssumption DEF MaxOpen

\* What is left of a list when its front is gone.
LEMMA TailOfList ==
  ASSUME NEW S, NEW s \in Seq(S), s # <<>>
  PROVE  /\ Tail(s) \in Seq(S) /\ Len(Tail(s)) = Len(s) - 1
         /\ Len(s) \in Nat \ {0}
         /\ \A i \in 1 .. Len(Tail(s)) : Tail(s)[i] = s[i + 1]
         /\ Head(s) = s[1] /\ Head(s) \in S
  OBVIOUS

LEMMA AppendToList ==
  ASSUME NEW S, NEW s \in Seq(S), NEW k \in S
  PROVE  /\ Append(s, k) \in Seq(S) /\ Len(Append(s, k)) = Len(s) + 1
         /\ Len(s) \in Nat
         /\ \A i \in 1 .. Len(s) : Append(s, k)[i] = s[i]
         /\ Append(s, k)[Len(s) + 1] = k
  OBVIOUS

LEMMA InitTyped == Init => TypeOK
  <1> SUFFICES ASSUME Init PROVE TypeOK
    OBVIOUS
  <1>1. m_free_list \in Seq(Conns \cup {NULL})
    BY MaxOpenBounds DEF Init, Conns
  <1>2. m_abort_request \in BOOLEAN /\ destroyed \in BOOLEAN
    BY Zenon DEF Init
  <1> QED
    BY <1>1, <1>2, MaxOpenBounds DEF Init, TypeOK

LEMMA ForgetTyped ==
  ASSUME TypeOK, NEW c \in Clients, calls[c] < Calls, Forget(c)
  PROVE  /\ pDBConn' \in [Clients -> Conns \cup {NULL}]
         /\ why' \in [Clients -> {"none", "connection", "abort", "timeout", "connect"}]
         /\ calls' \in [Clients -> 0 .. Calls]
         /\ UNCHANGED <<m_db_cur_conn_cnt, m_abort_request, destroyed, timed>>
  BY MaxOpenBounds DEF TypeOK, Forget

LEMMA NextTyped == TypeOK /\ Underway /\ [Next]_vars => TypeOK'
  <1> SUFFICES ASSUME TypeOK, Underway, [Next]_vars PROVE TypeOK'
    OBVIOUS
  <1> USE MaxOpenBounds DEF TypeOK
  <1>1. ASSUME NEW c \in Clients, CallGetDBConn(c) PROVE TypeOK'
    BY <1>1 DEF CallGetDBConn, pool
  <1>2. ASSUME NEW c \in Clients, NEW reason \in {"abort", "timeout", "connect"},
               ReturnNull(c, reason)
        PROVE  TypeOK'
    BY <1>2 DEF ReturnNull, Return
  <1>3. ASSUME NEW c \in Clients, GetFree(c) PROVE TypeOK'
    <2>1. /\ Head(m_free_list) \in Conns \cup {NULL}
          /\ m_free_list' \in Seq(Conns \cup {NULL})
      BY <1>3, TailOfList DEF GetFree, PopFree
    <2>2. m_used_list' \in [Conns \cup {NULL} -> Nat]
      BY <1>3, <2>1 DEF GetFree, PopFree
    <2> QED
      BY <1>3, <2>1, <2>2 DEF GetFree, PopFree, Return
  <1>4. ASSUME NEW c \in Clients, GetWait(c) PROVE TypeOK'
    BY <1>4 DEF GetWait, pool
  <1>5. ASSUME NEW c \in Clients, GetOpen(c) PROVE TypeOK'
    <2>1. m_db_cur_conn_cnt + 1 \in Conns
      BY <1>5 DEF GetOpen, MayOpen, Conns
    <2> QED
      BY <1>5, <2>1 DEF GetOpen, Return, MayOpen
  <1>6. ASSUME NEW c \in Clients, UseAfterDelete(c) PROVE TypeOK'
    BY <1>6 DEF UseAfterDelete, pool
  <1>7. ASSUME NEW c \in Clients, RelDBConn(c) PROVE TypeOK'
    <2>1. /\ pDBConn[c] \in Conns \cup {NULL}
          /\ m_free_list' = Append(m_free_list, pDBConn[c])
      BY <1>7 DEF RelDBConn
    <2>2. m_free_list' \in Seq(Conns \cup {NULL})
      BY <2>1, AppendToList
    <2>3. PICK set : Move(c, "idle", set)
      BY <1>7 DEF RelDBConn
    <2>4. pc' \in [Clients -> {"idle", "enter", "wait", "wait_for", "woken",
                               "woken_for", "timed_out", "have", "undefined"}]
      BY <2>3 DEF Move, Woken
    <2>5. m_used_list' \in [Conns \cup {NULL} -> Nat]
      <3>1. m_used_list' = UsedWithout(pDBConn[c])
        BY <1>7 DEF RelDBConn
      <3> QED
        BY <3>1 DEF UsedWithout
    <2>6. calls[c] < Calls /\ Forget(c)
      BY <1>7 DEF RelDBConn, Underway
    <2> QED
      BY <2>2, <2>4, <2>5, <2>6, ForgetTyped
  <1>8. ASSUME NEW c \in Clients, RelDBConnFailed(c) \/ SkipRelease(c) PROVE TypeOK'
    <2>1. /\ calls[c] < Calls /\ Forget(c)
          /\ pc' = [pc EXCEPT ![c] = "idle"]
          /\ UNCHANGED <<m_free_list, m_used_list>>
      BY <1>8 DEF RelDBConnFailed, SkipRelease, Underway
    <2> QED
      BY <2>1, ForgetTyped
  <1>9. ASSUME NEW c \in Clients, SpuriousWakeup(c) \/ Timeout(c) PROVE TypeOK'
    BY <1>9 DEF SpuriousWakeup, Timeout, Woken, pool
  <1>10. CASE DestructorBody
    BY <1>10 DEF DestructorBody, Woken
  <1>11. CASE DestructorMembers
    BY <1>11 DEF DestructorMembers
  <1>12. CASE UNCHANGED vars
    BY <1>12 DEF vars, pool
  <1> QED
    BY <1>1, <1>2, <1>3, <1>4, <1>5, <1>6, <1>7, <1>8, <1>9, <1>10, <1>11, <1>12
    DEF Next, GetDBConn, Release, GetAborted, GetTimedOut, GetOpenFailed, Terminating

-----------------------------------------------------------------------------
(* Where the connections are                                                *)

places == <<m_free_list, m_used_list, m_db_cur_conn_cnt, m_abort_request, pDBConn>>

\* A call that returns NULL returns it to a client that has nothing.
LEMMA NullToNobody ==
  ASSUME TypeOK, Underway, NEW c \in Clients,
         pc[c] \notin {"have", "undefined"} \/ pDBConn[c] = NULL,
         pDBConn' = [pDBConn EXCEPT ![c] = NULL]
  PROVE  pDBConn' = pDBConn
  BY DEF TypeOK, Underway

\* Only three calls and the destructor move connections.
LEMMA StepsThatMove ==
  ASSUME TypeOK, Exclusive, Underway, [Next]_vars
  PROVE  \/ UNCHANGED places
         \/ \E c \in Clients : GetFree(c) \/ GetOpen(c) \/ RelDBConn(c)
         \/ DestructorBody
  <1>1. ASSUME NEW c \in Clients, NEW reason, pc[c] \notin {"have", "undefined"},
               ReturnNull(c, reason)
        PROVE  UNCHANGED places
    BY <1>1, NullToNobody DEF ReturnNull, Return, places
  <1>2. ASSUME NEW c \in Clients, GetAborted(c) \/ GetTimedOut(c) \/ GetOpenFailed(c)
        PROVE  UNCHANGED places
    <2>1. pc[c] \notin {"have", "undefined"}
      BY <1>2 DEF GetAborted, GetTimedOut, GetOpenFailed, Holding
    <2> QED
      BY <1>1, <1>2, <2>1 DEF GetAborted, GetTimedOut, GetOpenFailed
  <1>3. ASSUME NEW c \in Clients, RelDBConnFailed(c) \/ SkipRelease(c)
        PROVE  UNCHANGED places
    <2>1. pDBConn[c] = NULL
      BY <1>3 DEF RelDBConnFailed, SkipRelease, Exclusive
    <2> QED
      BY <1>3, <2>1, NullToNobody DEF RelDBConnFailed, SkipRelease, Forget, places
  <1>4. ASSUME NEW c \in Clients, \/ CallGetDBConn(c) \/ GetWait(c) \/ UseAfterDelete(c)
                                 \/ SpuriousWakeup(c) \/ Timeout(c)
        PROVE  UNCHANGED places
    BY <1>4 DEF CallGetDBConn, GetWait, UseAfterDelete, SpuriousWakeup, Timeout, pool, places
  <1>5. CASE DestructorMembers \/ UNCHANGED vars
    BY <1>5 DEF DestructorMembers, vars, pool, places
  <1> QED
    BY <1>2, <1>3, <1>4, <1>5 DEF Next, GetDBConn, Release, Terminating

\* A connection is opened under a name that is not in use.
LEMMA NewIsNew ==
  ASSUME TypeOK, Underway, Accounted, NEW c \in Clients, GetOpen(c)
  PROVE  LET k == m_db_cur_conn_cnt + 1 IN
         /\ k \in Conns /\ k # NULL
         /\ \A d \in Clients : pDBConn[d] # k
         /\ m_used_list[k] = 0
  <1> DEFINE k == m_db_cur_conn_cnt + 1
  <1>1. k \in Conns /\ k # NULL
    BY MaxOpenBounds, NullAssumption DEF GetOpen, MayOpen, TypeOK, Conns
  <1>2. \A d \in Clients : pDBConn[d] # k
    BY <1>1, MaxOpenBounds DEF Underway, TypeOK, Conns
  <1>3. {d \in Clients : pDBConn[d] = k} = {}
    BY <1>2
  <1> QED
    BY <1>1, <1>2, <1>3, FS_EmptySet DEF Accounted

LEMMA ExclusiveStep ==
  ASSUME TypeOK, Exclusive, Underway, Accounted, [Next]_vars
  PROVE  Exclusive'
  <1>1. ASSUME NEW c \in Clients, GetFree(c) PROVE Exclusive'
    <2> DEFINE k == Head(m_free_list)
    <2>1. /\ m_free_list' = Tail(m_free_list)
          /\ pDBConn' = [pDBConn EXCEPT ![c] = k]
      BY <1>1 DEF GetFree, PopFree, Return
    <2>2. /\ Len(m_free_list') = Len(m_free_list) - 1 /\ Len(m_free_list) \in Nat \ {0}
          /\ \A i \in 1 .. Len(m_free_list') : m_free_list'[i] = m_free_list[i + 1]
          /\ k = m_free_list[1]
      BY <1>1, <2>1, TailOfList DEF GetFree, TypeOK
    <2>3. \A i \in 1 .. Len(m_free_list') : m_free_list'[i] # k
      BY <2>2 DEF Exclusive
    <2>4. \A i \in 1 .. Len(m_free_list') : \A d \in Clients :
            pDBConn[d] # NULL => m_free_list'[i] # pDBConn[d]
      BY <2>2 DEF Exclusive, InFreeList
    <2>5. \A d \in Clients : pDBConn[d] # NULL => pDBConn[d] # k
      BY <2>2 DEF Exclusive, InFreeList
    <2>6. \A i, j \in 1 .. Len(m_free_list') : m_free_list'[i] = m_free_list'[j] => i = j
      BY <2>2, SMTT(30) DEF Exclusive
    <2>7. \A d \in Clients : pDBConn'[d] = IF d = c THEN k ELSE pDBConn[d]
      BY <2>1 DEF TypeOK
    <2> QED
      BY <2>3, <2>4, <2>5, <2>6, <2>7 DEF Exclusive, InFreeList
  <1>2. ASSUME NEW c \in Clients, GetOpen(c) PROVE Exclusive'
    <2> DEFINE k == m_db_cur_conn_cnt + 1
    <2>1. m_free_list = <<>> /\ m_free_list' = m_free_list
      BY <1>2 DEF GetOpen
    <2>2. \A d \in Clients : pDBConn'[d] = IF d = c THEN k ELSE pDBConn[d]
      BY <1>2 DEF GetOpen, Return, TypeOK
    <2> QED
      BY <1>2, <2>1, <2>2, NewIsNew DEF Exclusive, InFreeList
  <1>3. ASSUME NEW c \in Clients, RelDBConn(c) PROVE Exclusive'
    <2> DEFINE k == pDBConn[c]
    <2>1. /\ m_free_list' = Append(m_free_list, k) /\ ~InFreeList(k)
          /\ k \in Conns \cup {NULL}
          /\ \A d \in Clients : pDBConn'[d] = IF d = c THEN NULL ELSE pDBConn[d]
      BY <1>3 DEF RelDBConn, Forget, TypeOK
    <2>2. /\ Len(m_free_list') = Len(m_free_list) + 1 /\ Len(m_free_list) \in Nat
          /\ \A i \in 1 .. Len(m_free_list) : m_free_list'[i] = m_free_list[i]
          /\ m_free_list'[Len(m_free_list) + 1] = k
      BY <2>1, AppendToList DEF TypeOK
    <2>3. \A i, j \in 1 .. Len(m_free_list') : m_free_list'[i] = m_free_list'[j] => i = j
      BY <2>1, <2>2 DEF Exclusive, InFreeList
    <2>4. \A d \in Clients \ {c} : pDBConn[d] # NULL => pDBConn[d] # k
      BY DEF Exclusive
    <2>5. \A d \in Clients : \A i \in 1 .. Len(m_free_list') :
            pDBConn'[d] # NULL => m_free_list'[i] # pDBConn'[d]
      BY <2>1, <2>2, <2>4 DEF Exclusive, InFreeList
    <2>6. \A d, e \in Clients : pDBConn'[d] = pDBConn'[e] /\ pDBConn'[d] # NULL => d = e
      BY <2>1 DEF Exclusive
    <2> QED
      BY <2>3, <2>5, <2>6 DEF Exclusive, InFreeList
  <1>4. CASE DestructorBody
    BY <1>4 DEF DestructorBody, Exclusive, InFreeList
  <1>5. CASE UNCHANGED places
    BY <1>5 DEF places, Exclusive, InFreeList
  <1> QED
    BY <1>1, <1>2, <1>3, <1>4, <1>5, StepsThatMove

\* The clients that have k, when a step gives it to c or takes it from c.
Holders(k) == {c \in Clients : pDBConn[c] = k}

LEMMA AccountedStep ==
  ASSUME TypeOK, Exclusive, Underway, Accounted, [Next]_vars
  PROVE  Accounted'
  <1>0. \A k \in Conns : m_used_list[k] = Cardinality(Holders(k))
    BY DEF Accounted, Holders
  <1>a. \A k \in Conns : k # NULL
    BY NullAssumption, MaxOpenBounds DEF Conns
  <1>1. ASSUME NEW c \in Clients, GetFree(c) PROVE Accounted'
    <2> DEFINE k == Head(m_free_list)
    <2>1. /\ m_free_list' = Tail(m_free_list)
          /\ m_used_list' = [m_used_list EXCEPT ![k] = @ + 1]
          /\ UNCHANGED <<m_db_cur_conn_cnt, m_abort_request>>
          /\ pDBConn' = [pDBConn EXCEPT ![c] = k]
          /\ pDBConn[c] = NULL
      BY <1>1 DEF GetFree, PopFree, Return, Holding, Underway
    <2>2. /\ Len(m_free_list') = Len(m_free_list) - 1 /\ Len(m_free_list) \in Nat \ {0}
          /\ \A i \in 1 .. Len(m_free_list') : m_free_list'[i] = m_free_list[i + 1]
          /\ k = m_free_list[1] /\ k \in Conns \cup {NULL}
      BY <1>1, <2>1, TailOfList DEF GetFree, TypeOK
    <2>3. \A d \in Clients : pDBConn'[d] = IF d = c THEN k ELSE pDBConn[d]
      BY <2>1 DEF TypeOK
    <2>4. \A j \in 1 .. m_db_cur_conn_cnt :
            InFreeList(j) => j = k \/ InFreeList(j)'
      <3> SUFFICES ASSUME NEW j \in 1 .. m_db_cur_conn_cnt,
                          NEW i \in 1 .. Len(m_free_list), m_free_list[i] = j, j # k
                   PROVE  \E n \in 1 .. Len(m_free_list') : m_free_list'[n] = j
        BY DEF InFreeList
      <3>1. i - 1 \in 1 .. Len(m_free_list') /\ m_free_list'[i - 1] = j
        BY <2>2
      <3> QED
        BY <3>1
    <2>5. ~m_abort_request' => \A j \in 1 .. m_db_cur_conn_cnt' :
            InFreeList(j)' \/ \E d \in Clients : pDBConn'[d] = j
      <3> SUFFICES ASSUME ~m_abort_request, NEW j \in 1 .. m_db_cur_conn_cnt
                   PROVE  InFreeList(j)' \/ \E d \in Clients : pDBConn'[d] = j
        BY <2>1
      <3>1. CASE InFreeList(j)
        BY <3>1, <2>3, <2>4
      <3>2. ASSUME NEW d \in Clients, pDBConn[d] = j PROVE pDBConn'[d] = j
        BY <3>2, <2>1, <2>3, NullAssumption, MaxOpenBounds DEF TypeOK
      <3> QED
        BY <3>1, <3>2 DEF Accounted
    <2>6. ASSUME NEW j \in Conns PROVE m_used_list'[j] = Cardinality(Holders(j)')
      <3>1. CASE j # k
        <4>1. Holders(j)' = Holders(j)
          BY <3>1, <2>1, <2>3, <1>a DEF Holders
        <4> QED
          BY <3>1, <4>1, <2>1, <1>0 DEF TypeOK
      <3>2. CASE j = k
        <4>1. \A d \in Clients : pDBConn[d] # k
          BY <3>2, <2>2, <1>a DEF Exclusive, InFreeList
        <4>2. Holders(j) = {} /\ Holders(j)' = {c}
          BY <3>2, <4>1, <2>3 DEF Holders
        <4>3. Cardinality(Holders(j)) = 0 /\ Cardinality(Holders(j)') = 1
          BY <4>2, FS_EmptySet, FS_Singleton
        <4>4. m_used_list'[j] = m_used_list[j] + 1
          BY <3>2, <2>1 DEF TypeOK
        <4> QED
          BY <4>3, <4>4, <1>0
      <3> QED
        BY <3>1, <3>2
    <2> QED
      BY <2>5, <2>6 DEF Accounted, Holders
  <1>2. ASSUME NEW c \in Clients, GetOpen(c) PROVE Accounted'
    <2> DEFINE k == m_db_cur_conn_cnt + 1
    <2>1. /\ m_free_list = <<>> /\ m_free_list' = m_free_list
          /\ m_used_list' = [m_used_list EXCEPT ![k] = @ + 1]
          /\ m_db_cur_conn_cnt' = k /\ m_abort_request' = m_abort_request
          /\ pDBConn' = [pDBConn EXCEPT ![c] = k]
          /\ pDBConn[c] = NULL
      BY <1>2 DEF GetOpen, Return, Underway
    <2>2. \A d \in Clients : pDBConn'[d] = IF d = c THEN k ELSE pDBConn[d]
      BY <2>1 DEF TypeOK
    <2>3. k \in Conns /\ k # NULL /\ Holders(k) = {} /\ m_used_list[k] = 0
      BY <1>2, NewIsNew DEF Holders
    <2>4. ~m_abort_request' => \A j \in 1 .. m_db_cur_conn_cnt' :
            InFreeList(j)' \/ \E d \in Clients : pDBConn'[d] = j
      <3> SUFFICES ASSUME ~m_abort_request, NEW j \in 1 .. k
                   PROVE  \E d \in Clients : pDBConn'[d] = j
        BY <2>1
      <3>1. CASE j = k
        BY <3>1, <2>2
      <3>2. CASE j # k
        <4>1. j \in 1 .. m_db_cur_conn_cnt /\ j # NULL
          BY <3>2, MaxOpenBounds, NullAssumption DEF TypeOK
        <4>2. ~InFreeList(j)
          BY <2>1 DEF InFreeList
        <4>3. PICK d \in Clients : pDBConn[d] = j
          BY <4>1, <4>2 DEF Accounted
        <4> QED
          BY <4>1, <4>3, <2>1, <2>2
      <3> QED
        BY <3>1, <3>2
    <2>5. ASSUME NEW j \in Conns PROVE m_used_list'[j] = Cardinality(Holders(j)')
      <3>1. CASE j # k
        <4>1. Holders(j)' = Holders(j)
          BY <3>1, <2>1, <2>2, <1>a DEF Holders
        <4> QED
          BY <3>1, <4>1, <2>1, <1>0 DEF TypeOK
      <3>2. CASE j = k
        <4>1. Holders(j)' = {c}
          BY <3>2, <2>2, <2>3 DEF Holders
        <4>2. Cardinality(Holders(j)') = 1
          BY <4>1, FS_Singleton
        <4>3. m_used_list'[j] = m_used_list[j] + 1
          BY <3>2, <2>1 DEF TypeOK
        <4> QED
          BY <3>2, <4>2, <4>3, <2>3
      <3> QED
        BY <3>1, <3>2
    <2> QED
      BY <2>4, <2>5 DEF Accounted, Holders
  <1>3. ASSUME NEW c \in Clients, RelDBConn(c) PROVE Accounted'
    <2> DEFINE k == pDBConn[c]
    <2>1. /\ m_free_list' = Append(m_free_list, k)
          /\ m_used_list' = [m_used_list EXCEPT ![k] = 0]
          /\ UNCHANGED <<m_db_cur_conn_cnt, m_abort_request>>
          /\ k \in Conns \cup {NULL}
          /\ \A d \in Clients : pDBConn'[d] = IF d = c THEN NULL ELSE pDBConn[d]
      BY <1>3 DEF RelDBConn, UsedWithout, Forget, TypeOK
    <2>2. /\ Len(m_free_list') = Len(m_free_list) + 1 /\ Len(m_free_list) \in Nat
          /\ \A i \in 1 .. Len(m_free_list) : m_free_list'[i] = m_free_list[i]
          /\ m_free_list'[Len(m_free_list) + 1] = k
      BY <2>1, AppendToList DEF TypeOK
    <2>3. \A j : j = k \/ InFreeList(j) => InFreeList(j)'
      BY <2>2 DEF InFreeList
    <2>4. ~m_abort_request' => \A j \in 1 .. m_db_cur_conn_cnt' :
            InFreeList(j)' \/ \E d \in Clients : pDBConn'[d] = j
      <3> SUFFICES ASSUME ~m_abort_request, NEW j \in 1 .. m_db_cur_conn_cnt, j # k
                   PROVE  InFreeList(j)' \/ \E d \in Clients : pDBConn'[d] = j
        BY <2>1, <2>3
      <3>1. \/ InFreeList(j)
            \/ \E d \in Clients : pDBConn[d] = j
        BY DEF Accounted
      <3> QED
        BY <3>1, <2>1, <2>3
    <2>5. ASSUME NEW j \in Conns PROVE m_used_list'[j] = Cardinality(Holders(j)')
      <3>1. CASE j # k
        <4>1. Holders(j)' = Holders(j)
          BY <3>1, <2>1, <1>a DEF Holders
        <4> QED
          BY <3>1, <4>1, <2>1, <1>0 DEF TypeOK
      <3>2. CASE j = k
        <4>1. \A d \in Clients \ {c} : pDBConn[d] # k
          BY <3>2, <1>a DEF Exclusive
        <4>2. Holders(j)' = {}
          BY <3>2, <4>1, <2>1, <1>a DEF Holders
        <4> QED
          BY <3>2, <4>2, <2>1, FS_EmptySet DEF TypeOK
      <3> QED
        BY <3>1, <3>2
    <2> QED
      BY <2>4, <2>5 DEF Accounted, Holders
  <1>4. CASE DestructorBody
    BY <1>4 DEF DestructorBody, Accounted
  <1>5. CASE UNCHANGED places
    BY <1>5 DEF places, Accounted, InFreeList
  <1> QED
    BY <1>1, <1>2, <1>3, <1>4, <1>5, StepsThatMove

-----------------------------------------------------------------------------
(* The calls, and m_cond_var                                                *)

LEMMA UnderwayStep ==
  ASSUME TypeOK, Exclusive, Underway, [Next]_vars
  PROVE  Underway'
  <1> USE MaxOpenBounds, NullAssumption
  <1>1. ASSUME NEW c \in Clients, CallGetDBConn(c) PROVE Underway'
    BY <1>1 DEF CallGetDBConn, pool, Underway, TypeOK
  <1>2. ASSUME NEW c \in Clients, NEW reason, Holding(c), ReturnNull(c, reason)
        PROVE  Underway'
    BY <1>2 DEF ReturnNull, Return, Holding, Underway, TypeOK
  <1>3. ASSUME NEW c \in Clients, GetFree(c) PROVE Underway'
    <2> DEFINE k == Head(m_free_list)
    <2>1. /\ m_free_list' = Tail(m_free_list) /\ Holding(c)
          /\ UNCHANGED <<m_db_cur_conn_cnt, m_abort_request, destroyed, calls>>
          /\ \A d \in Clients : /\ pDBConn'[d] = IF d = c THEN k ELSE pDBConn[d]
                                /\ pc'[d] = IF d = c THEN "have" ELSE pc[d]
      BY <1>3 DEF GetFree, PopFree, Return, TypeOK
    <2>2. /\ Len(m_free_list') = Len(m_free_list) - 1 /\ Len(m_free_list) \in Nat \ {0}
          /\ \A i \in 1 .. Len(m_free_list') : m_free_list'[i] = m_free_list[i + 1]
          /\ k = m_free_list[1]
      BY <1>3, <2>1, TailOfList DEF GetFree, TypeOK
    <2>3. /\ k # NULL => k <= m_db_cur_conn_cnt
          /\ \A i \in 1 .. Len(m_free_list') : m_free_list'[i] # NULL =>
                                               m_free_list'[i] <= m_db_cur_conn_cnt
      BY <2>2 DEF Underway
    <2> QED
      BY <2>1, <2>3 DEF Underway, Holding
  <1>4. ASSUME NEW c \in Clients, GetWait(c) PROVE Underway'
    BY <1>4 DEF GetWait, pool, Underway, TypeOK
  <1>5. ASSUME NEW c \in Clients, GetOpen(c) PROVE Underway'
    <2>1. /\ m_free_list = <<>> /\ m_free_list' = m_free_list /\ pc[c] = "enter"
          /\ m_db_cur_conn_cnt' = m_db_cur_conn_cnt + 1
          /\ UNCHANGED <<m_abort_request, destroyed, calls>>
          /\ \A d \in Clients : /\ pDBConn'[d] = IF d = c THEN m_db_cur_conn_cnt + 1
                                                   ELSE pDBConn[d]
                                /\ pc'[d] = IF d = c THEN "have" ELSE pc[d]
      BY <1>5 DEF GetOpen, Return, TypeOK
    <2>2. \A d \in Clients : pDBConn'[d] # NULL => pDBConn'[d] <= m_db_cur_conn_cnt + 1
      BY <2>1 DEF Underway, TypeOK, Conns
    <2> QED
      BY <2>1, <2>2 DEF Underway
  <1>6. ASSUME NEW c \in Clients, UseAfterDelete(c) PROVE Underway'
    BY <1>6 DEF UseAfterDelete, pool, Underway, TypeOK
  <1>7. ASSUME NEW c \in Clients, RelDBConn(c) PROVE Underway'
    <2> DEFINE k == pDBConn[c]
    <2>1. /\ m_free_list' = Append(m_free_list, k)
          /\ k \in Conns \cup {NULL}
          /\ k # NULL => k <= m_db_cur_conn_cnt
          /\ Forget(c)
      BY <1>7 DEF RelDBConn, Underway, TypeOK
    <2>2. /\ Len(m_free_list') = Len(m_free_list) + 1 /\ Len(m_free_list) \in Nat
          /\ \A i \in 1 .. Len(m_free_list) : m_free_list'[i] = m_free_list[i]
          /\ m_free_list'[Len(m_free_list) + 1] = k
      BY <2>1, AppendToList DEF TypeOK
    <2>3. \A i \in 1 .. Len(m_free_list') : m_free_list'[i] # NULL =>
                                            m_free_list'[i] <= m_db_cur_conn_cnt
      BY <2>1, <2>2 DEF Underway
    <2>4. PICK set \in RelNotifies : Move(c, "idle", set)
      BY <1>7 DEF RelDBConn
    <2>5. \A d \in Clients : pc'[d] \notin {"idle", "undefined"} =>
                             d # c /\ pc[d] \notin {"idle", "undefined"}
      BY <2>4 DEF Move, RelNotifies, NotifyOne, Waiting, TypeOK
    <2>6. \A d \in Clients : /\ pDBConn'[d] = IF d = c THEN NULL ELSE pDBConn[d]
                             /\ d # c => calls'[d] = calls[d]
      BY <2>1 DEF Forget, TypeOK
    <2>7. \A d \in Clients : pDBConn'[d] # NULL => pc'[d] = pc[d]
      BY <2>4, <2>6 DEF Move, RelNotifies, NotifyOne, Waiting, TypeOK, Underway
    <2>8. UNCHANGED <<m_db_cur_conn_cnt, m_abort_request, destroyed>>
      BY <2>1 DEF Forget
    <2> QED
      BY <2>3, <2>5, <2>6, <2>7, <2>8 DEF Underway
  <1>8. ASSUME NEW c \in Clients, RelDBConnFailed(c) \/ SkipRelease(c) PROVE Underway'
    <2>1. /\ pc' = [pc EXCEPT ![c] = "idle"] /\ m_free_list' = m_free_list
          /\ Forget(c)
      BY <1>8 DEF RelDBConnFailed, SkipRelease
    <2> QED
      BY <2>1 DEF Forget, Underway, TypeOK
  <1>9. ASSUME NEW c \in Clients, SpuriousWakeup(c) \/ Timeout(c) PROVE Underway'
    <2>1. PICK label \in {"woken", "woken_for", "timed_out"} : pc' = [pc EXCEPT ![c] = label]
      BY <1>9 DEF SpuriousWakeup, Timeout, Woken
    <2>2. /\ pc[c] \in {"wait", "wait_for", "woken_for"}
          /\ UNCHANGED <<pool, pDBConn, calls>>
      BY <1>9 DEF SpuriousWakeup, Timeout, Waiting
    <2> QED
      BY <2>1, <2>2 DEF pool, Underway, TypeOK
  <1>10. CASE DestructorBody
    BY <1>10 DEF DestructorBody, Woken, Waiting, Underway, TypeOK
  <1>11. CASE DestructorMembers \/ UNCHANGED vars
    BY <1>11 DEF DestructorMembers, vars, pool, Underway
  <1>12. ASSUME NEW c \in Clients, GetAborted(c) \/ GetTimedOut(c) \/ GetOpenFailed(c)
         PROVE  Underway'
    BY <1>2, <1>12 DEF GetAborted, GetTimedOut, GetOpenFailed, Holding
  <1> QED
    BY <1>1, <1>3, <1>4, <1>5, <1>6, <1>7, <1>8, <1>9, <1>10, <1>11, <1>12
    DEF Next, GetDBConn, Release, Terminating

\* A client that leaves m_cond_var is one more to look at the list, and one that
\* takes the front is at most one less.
LEMMA Counting ==
  ASSUME NEW c
  PROVE  /\ Cardinality(Resuming) \in Nat /\ Cardinality(Resuming') \in Nat
         /\ Resuming \subseteq Resuming' => Cardinality(Resuming) <= Cardinality(Resuming')
         /\ Resuming \ {c} \subseteq Resuming' =>
               Cardinality(Resuming) - 1 <= Cardinality(Resuming')
         /\ Resuming \cup {c} \subseteq Resuming' /\ c \notin Resuming =>
               Cardinality(Resuming) + 1 <= Cardinality(Resuming')
  <1>1. IsFiniteSet(Resuming) /\ IsFiniteSet(Resuming')
    <2>1. Resuming \subseteq Clients /\ Resuming' \subseteq Clients
      BY DEF Resuming
    <2> QED
      BY <2>1, ClientsAssumption, FS_Subset
  <1>2. Cardinality(Resuming) \in Nat /\ Cardinality(Resuming') \in Nat
    BY <1>1, FS_CardinalityType
  <1>3. \A S : S \subseteq Resuming' => Cardinality(S) <= Cardinality(Resuming')
    BY <1>1, FS_Subset
  <1>4. Resuming \ {c} \subseteq Resuming' => Cardinality(Resuming) - 1 <= Cardinality(Resuming')
    <2>1. Cardinality(Resuming \ {c}) =
            IF c \in Resuming THEN Cardinality(Resuming) - 1 ELSE Cardinality(Resuming)
      BY <1>1, FS_RemoveElement
    <2>2. Resuming \ {c} \subseteq Resuming' =>
            Cardinality(Resuming \ {c}) <= Cardinality(Resuming')
      BY <1>3
    <2> QED
      BY <2>1, <2>2, <1>2
  <1>5. Resuming \cup {c} \subseteq Resuming' /\ c \notin Resuming =>
          Cardinality(Resuming) + 1 <= Cardinality(Resuming')
    <2>1. c \notin Resuming => Cardinality(Resuming \cup {c}) = Cardinality(Resuming) + 1
      BY <1>1, FS_AddElement
    <2>2. Resuming \cup {c} \subseteq Resuming' =>
            Cardinality(Resuming \cup {c}) <= Cardinality(Resuming')
      BY <1>3
    <2> QED
      BY <2>1, <2>2
  <1> QED
    BY <1>2, <1>3, <1>4, <1>5

LEMMA WakeupStep ==
  ASSUME TypeOK, Underway, NoMissedWakeup, [Next]_vars
  PROVE  NoMissedWakeup'
  <1>0. Len(m_free_list) \in Nat
    BY DEF TypeOK
  <1> USE DEF NoMissedWakeup
  <1>1. ASSUME NEW c \in Clients, CallGetDBConn(c) PROVE NoMissedWakeup'
    <2>1. Waiting' = Waiting /\ Resuming' = Resuming
      BY <1>1 DEF CallGetDBConn, Waiting, Resuming, TypeOK
    <2> QED
      BY <1>1, <2>1 DEF CallGetDBConn, pool
  <1>2. ASSUME NEW c \in Clients, NEW reason, ReturnNull(c, reason),
               m_abort_request \/ m_free_list = <<>>
        PROVE  NoMissedWakeup'
    <2>1. Waiting' \subseteq Waiting
      BY <1>2 DEF ReturnNull, Return, Waiting, TypeOK
    <2>2. Len(<<>>) = 0
      OBVIOUS
    <2> QED
      BY <1>2, <2>1, <2>2, Counting DEF ReturnNull, Return
  <1>3. ASSUME NEW c \in Clients, GetFree(c) PROVE NoMissedWakeup'
    <2>1. Waiting' \subseteq Waiting /\ Resuming \ {c} \subseteq Resuming'
      BY <1>3 DEF GetFree, PopFree, Return, Waiting, Resuming, Holding, TypeOK
    <2>2. Len(m_free_list') = Len(m_free_list) - 1 /\ m_abort_request' = m_abort_request
      BY <1>3, TailOfList DEF GetFree, PopFree, Return, TypeOK
    <2>3. Cardinality(Resuming) - 1 <= Cardinality(Resuming')
      BY <2>1, Counting
    <2> QED
      BY <2>1, <2>2, <2>3, <1>0, Counting
  <1>4. ASSUME NEW c \in Clients, GetWait(c) \/ GetOpen(c) PROVE NoMissedWakeup'
    <2>1. m_free_list' = <<>> /\ ~m_abort_request'
      BY <1>4 DEF GetWait, GetOpen, Return, pool
    <2>2. Len(<<>>) = 0
      OBVIOUS
    <2> QED
      BY <2>1, <2>2, Counting
  <1>5. ASSUME NEW c \in Clients, UseAfterDelete(c) PROVE NoMissedWakeup'
    <2>1. Waiting' \subseteq Waiting /\ m_abort_request
      BY <1>5 DEF UseAfterDelete, Waiting, Underway, TypeOK
    <2> QED
      BY <2>1
  <1>6. ASSUME NEW c \in Clients, RelDBConn(c) PROVE NoMissedWakeup'
    <2>1. PICK set \in NotifyOne : Move(c, "idle", set)
      BY <1>6 DEF RelDBConn, RelNotifies
    <2>2. pc[c] = "have"
      BY <1>6 DEF RelDBConn
    <2>3. Waiting' = Waiting \ set /\ Resuming' = Resuming \cup set
      BY <2>1, <2>2 DEF NotifyOne, Move, Woken, Waiting, Resuming, TypeOK
    <2>4. Len(m_free_list') = Len(m_free_list) + 1 /\ m_abort_request' = m_abort_request
      BY <1>6, AppendToList DEF RelDBConn, Forget, TypeOK
    <2>5. CASE Waiting = {}
      BY <2>3, <2>5
    <2>6. CASE Waiting # {}
      <3>1. PICK d \in Waiting : set = {d}
        BY <2>1, <2>6 DEF NotifyOne
      <3>2. d \notin Resuming
        BY <3>1 DEF Waiting, Resuming
      <3>3. Resuming \cup {d} \subseteq Resuming'
        BY <2>3, <3>1
      <3>4. Cardinality(Resuming) + 1 <= Cardinality(Resuming')
        BY <3>2, <3>3, Counting
      <3>5. Len(m_free_list) <= Cardinality(Resuming) /\ ~m_abort_request
        BY <2>6
      <3>6. Cardinality(Resuming) \in Nat /\ Cardinality(Resuming') \in Nat
        BY Counting
      <3> QED
        BY <2>4, <3>4, <3>5, <3>6, <1>0
    <2> QED
      BY <2>5, <2>6
  <1>7. ASSUME NEW c \in Clients, RelDBConnFailed(c) \/ SkipRelease(c) PROVE NoMissedWakeup'
    <2>1. /\ pc' = [pc EXCEPT ![c] = "idle"] /\ pc[c] = "have"
          /\ UNCHANGED <<m_free_list, m_abort_request>>
      BY <1>7 DEF RelDBConnFailed, SkipRelease, Forget
    <2>2. Waiting' = Waiting /\ Resuming' = Resuming
      BY <2>1 DEF Waiting, Resuming, TypeOK
    <2> QED
      BY <2>1, <2>2
  <1>8. ASSUME NEW c \in Clients, SpuriousWakeup(c) \/ Timeout(c) PROVE NoMissedWakeup'
    <2>1. Waiting' \subseteq Waiting /\ Resuming \subseteq Resuming'
      BY <1>8 DEF SpuriousWakeup, Timeout, Woken, Waiting, Resuming, TypeOK
    <2>2. UNCHANGED <<m_free_list, m_abort_request>>
      BY <1>8 DEF SpuriousWakeup, Timeout, pool
    <2> QED
      BY <2>1, <2>2, <1>0, Counting
  <1>9. CASE DestructorBody
    BY <1>9 DEF DestructorBody, Woken, Waiting
  <1>10. CASE DestructorMembers \/ UNCHANGED vars
    BY <1>10 DEF DestructorMembers, vars, pool, Waiting, Resuming
  <1>11. ASSUME NEW c \in Clients, GetAborted(c) \/ GetTimedOut(c) \/ GetOpenFailed(c)
         PROVE  NoMissedWakeup'
    BY <1>2, <1>11 DEF GetAborted, GetTimedOut, GetOpenFailed
  <1> QED
    BY <1>1, <1>3, <1>4, <1>5, <1>6, <1>7, <1>8, <1>9, <1>10, <1>11
    DEF Next, GetDBConn, Release, Terminating

-----------------------------------------------------------------------------
(* The invariant                                                            *)

LEMMA InitInv == Init => Inv
  <1> SUFFICES ASSUME Init PROVE Inv
    OBVIOUS
  <1> USE MaxOpenBounds, NullAssumption
  <1>1. TypeOK
    BY InitTyped
  <1>2. /\ Len(m_free_list) = MIN_DB_CONN_CNT
        /\ \A i \in 1 .. Len(m_free_list) : m_free_list[i] = i
    BY DEF Init
  <1>3. Exclusive
    BY <1>2 DEF Init, Exclusive, InFreeList
  <1>4. Accounted
    <2>1. \A k \in 1 .. m_db_cur_conn_cnt : InFreeList(k)
      BY <1>2 DEF Init, InFreeList
    <2>2. ASSUME NEW k \in Conns PROVE m_used_list[k] = Cardinality(Holders(k))
      <3>1. Holders(k) = {}
        BY DEF Init, Holders, Conns
      <3> QED
        BY <3>1, FS_EmptySet DEF Init
    <2> QED
      BY <2>1, <2>2 DEF Accounted, Holders
  <1>5. NoMissedWakeup
    BY DEF Init, NoMissedWakeup, Waiting
  <1>6. Underway
    BY <1>2 DEF Init, Underway
  <1> QED
    BY <1>1, <1>3, <1>4, <1>5, <1>6 DEF Inv

LEMMA Invariance == SafetySpec => []Inv
  <1>1. Inv /\ [Next]_vars => Inv'
    BY NextTyped, ExclusiveStep, AccountedStep, WakeupStep, UnderwayStep DEF Inv
  <1> QED
    BY <1>1, InitInv, PTL DEF SafetySpec

\* Every list and counter of the pool stays within its bounds, and the calls of
\* the clients stay in the steps of GetDBConn (DBPool.cpp:400-552).
THEOREM PoolTyped == Spec => []TypeOK
  BY Invariance, PTL DEF Spec, Inv

\* No connection is ever with two clients, or with one and in the free list, or in
\* the free list twice (DBPool.cpp:469-548).
THEOREM ConnectionsExclusive == Spec => []Exclusive
  BY Invariance, PTL DEF Spec, Inv

\* The pool loses none of the connections it counts, and m_used_list tells who is
\* with a client (DBPool.cpp:469-548).
THEOREM ConnectionsAccounted == Spec => []Accounted
  BY Invariance, PTL DEF Spec, Inv

\* One notify_one for each connection given back is enough, whoever else comes in
\* between and whichever time limit passes (DBPool.cpp:466-492, 545).
THEOREM WakeupsReachWaiters == Spec => []NoMissedWakeup
  BY Invariance, PTL DEF Spec, Inv

-----------------------------------------------------------------------------
(* The refinement of LeasePool                                              *)

LEMMA HeldBy ==
  ASSUME NEW k \in Conns, NEW c \in Clients, pDBConn[c] = k, Exclusive
  PROVE  Owner(k) = c
  <1>1. k # NULL
    BY NullAssumption, MaxOpenBounds DEF Conns
  <1>2. \A d \in Clients : pDBConn[d] = k => d = c
    BY <1>1 DEF Exclusive
  <1> QED
    BY <1>2 DEF Owner

LEMMA HeldByAfter ==
  ASSUME NEW k \in Conns, NEW c \in Clients, pDBConn'[c] = k, Exclusive'
  PROVE  Owner(k)' = c
  <1>1. k # NULL
    BY NullAssumption, MaxOpenBounds DEF Conns
  <1>2. \A d \in Clients : pDBConn'[d] = k => d = c
    BY <1>1 DEF Exclusive
  <1> QED
    BY <1>2 DEF Owner

\* Whoever has nothing owns nothing: the other values are no clients.
LEMMA OwnsNothing ==
  ASSUME NEW c \in Clients, pDBConn[c] = NULL, Exclusive
  PROVE  \A k \in Conns : Owner(k) # c
  <1> SUFFICES ASSUME NEW k \in Conns PROVE Owner(k) # c
    OBVIOUS
  <1>1. k # NULL
    BY NullAssumption, MaxOpenBounds DEF Conns
  <1>2. CASE \E d \in Clients : pDBConn[d] = k
    BY <1>1, <1>2, HeldBy
  <1>3. CASE ~\E d \in Clients : pDBConn[d] = k
    BY <1>3, ClientsAssumption DEF Owner
  <1> QED
    BY <1>2, <1>3

LEMMA LeaseStep == Inv /\ [Next]_vars => [Lease!Next]_Lease!vars
  <1> SUFFICES ASSUME Inv, [Next]_vars PROVE [Lease!Next]_Lease!vars
    OBVIOUS
  <1> USE MaxOpenBounds, NullAssumption DEF Inv
  <1>0. Exclusive' /\ TypeOK'
    BY ExclusiveStep, NextTyped
  <1>a. \A k \in Conns : k # NULL
    BY DEF Conns
  <1>1. ASSUME NEW c \in Clients, GetFree(c) PROVE [Lease!Next]_Lease!vars
    <2>0. PICK k : k = Head(m_free_list)
      OBVIOUS
    <2>1. /\ m_free_list' = Tail(m_free_list) /\ ~m_abort_request
          /\ UNCHANGED <<m_db_cur_conn_cnt, m_abort_request>>
          /\ pDBConn[c] = NULL
          /\ \A d \in Clients : pDBConn'[d] = IF d = c THEN k ELSE pDBConn[d]
      BY <1>1, <2>0 DEF GetFree, PopFree, Return, Holding, Underway, TypeOK
    <2>2. k = m_free_list[1] /\ Len(m_free_list) \in Nat \ {0} /\ k \in Conns \cup {NULL}
      BY <1>1, <2>0, <2>1, TailOfList DEF GetFree, TypeOK
    <2>3. ASSUME NEW j \in Conns, j # k PROVE Owner(j)' = Owner(j)
      <3>1. \A d \in Clients : pDBConn'[d] = j <=> pDBConn[d] = j
        BY <2>1, <2>3, <1>a
      <3>2. (CHOOSE d \in Clients : pDBConn'[d] = j) = (CHOOSE d \in Clients : pDBConn[d] = j)
        BY <3>1
      <3> QED
        BY <2>1, <3>1, <3>2 DEF Owner
    <2>4. CASE k = NULL
      <3>1. \A j \in Conns : Owner(j)' = Owner(j)
        BY <2>3, <2>4, <1>a
      <3> QED
        BY <2>1, <3>1 DEF Lease!vars
    <2>5. CASE k # NULL
      <3>1. k \in Conns /\ Owner(k)' = c
        <4>1. k \in Conns /\ pDBConn'[c] = k
          BY <2>1, <2>2, <2>5
        <4> QED
          BY <4>1, <1>0, HeldByAfter
      <3>2. Owner(k) = "idle"
        <4>1. InFreeList(k) /\ k <= m_db_cur_conn_cnt
          BY <2>2, <2>5 DEF InFreeList, Underway
        <4>2. \A d \in Clients : pDBConn[d] # k
          BY <2>5, <4>1 DEF Exclusive
        <4> QED
          BY <2>1, <3>1, <4>1, <4>2 DEF Owner, TypeOK, Conns
      <3>3. \A j \in Conns : Owner(j) # c
        BY <2>1, OwnsNothing
      <3>4. Lease!Lease(c, k)
        BY <2>1, <2>3, <3>1, <3>2, <3>3 DEF Lease!Lease, Lease!HasNone
      <3> QED
        BY <3>1, <3>4 DEF Lease!Next
    <2> QED
      BY <2>4, <2>5
  <1>2. ASSUME NEW c \in Clients, GetOpen(c) PROVE [Lease!Next]_Lease!vars
    <2>0. PICK k : k = m_db_cur_conn_cnt + 1
      OBVIOUS
    <2>1. /\ m_db_cur_conn_cnt' = k /\ ~m_abort_request /\ m_abort_request' = m_abort_request
          /\ pDBConn[c] = NULL
          /\ \A d \in Clients : pDBConn'[d] = IF d = c THEN k ELSE pDBConn[d]
      BY <1>2, <2>0 DEF GetOpen, Return, Underway, TypeOK
    <2>2. k \in Conns /\ Owner(k)' = c
      <3>1. k \in Conns /\ pDBConn'[c] = k
        BY <1>2, <2>0, <2>1, NewIsNew
      <3> QED
        BY <3>1, <1>0, HeldByAfter
    <2>3. ASSUME NEW j \in Conns, j # k PROVE Owner(j)' = Owner(j)
      <3>1. \A d \in Clients : pDBConn'[d] = j <=> pDBConn[d] = j
        BY <2>1, <2>3, <1>a
      <3>2. (CHOOSE d \in Clients : pDBConn'[d] = j) = (CHOOSE d \in Clients : pDBConn[d] = j)
        BY <3>1
      <3>3. j > k <=> j > m_db_cur_conn_cnt
        BY <2>0, <2>3 DEF Conns, TypeOK
      <3> QED
        BY <2>1, <3>1, <3>2, <3>3 DEF Owner
    <2>4. Owner(k) = "unopened"
      <3>1. \A d \in Clients : pDBConn[d] # k
        BY <1>2, <2>0, NewIsNew
      <3>2. k > m_db_cur_conn_cnt
        BY <2>0 DEF TypeOK
      <3> QED
        BY <3>1, <3>2 DEF Owner
    <2>5. \A j \in Conns : Owner(j) # c
      BY <2>1, OwnsNothing
    <2>6. Lease!Lease(c, k)
      BY <2>1, <2>2, <2>3, <2>4, <2>5 DEF Lease!Lease, Lease!HasNone
    <2> QED
      BY <2>2, <2>6 DEF Lease!Next
  <1>3. ASSUME NEW c \in Clients, RelDBConn(c) PROVE [Lease!Next]_Lease!vars
    <2>0. PICK k : k = pDBConn[c]
      OBVIOUS
    <2>1. /\ m_free_list' = Append(m_free_list, k)
          /\ UNCHANGED <<m_db_cur_conn_cnt, m_abort_request>>
          /\ k \in Conns \cup {NULL}
          /\ \A d \in Clients : pDBConn'[d] = IF d = c THEN NULL ELSE pDBConn[d]
      BY <1>3, <2>0 DEF RelDBConn, Forget, TypeOK
    <2>2. /\ Len(m_free_list') = Len(m_free_list) + 1 /\ Len(m_free_list) \in Nat
          /\ \A i \in 1 .. Len(m_free_list) : m_free_list'[i] = m_free_list[i]
          /\ m_free_list'[Len(m_free_list) + 1] = k
      BY <2>1, AppendToList DEF TypeOK
    <2>3. ASSUME NEW j \in Conns, j # k PROVE Owner(j)' = Owner(j)
      <3>1. \A d \in Clients : pDBConn'[d] = j <=> pDBConn[d] = j
        BY <2>0, <2>1, <2>3, <1>a
      <3>2. (CHOOSE d \in Clients : pDBConn'[d] = j) = (CHOOSE d \in Clients : pDBConn[d] = j)
        BY <3>1
      <3>3. InFreeList(j)' <=> InFreeList(j)
        BY <2>2, <2>3 DEF InFreeList
      <3> QED
        BY <2>1, <3>1, <3>2, <3>3 DEF Owner
    <2>4. CASE k = NULL
      <3>1. \A j \in Conns : Owner(j)' = Owner(j)
        BY <2>3, <2>4, <1>a
      <3> QED
        BY <2>1, <3>1 DEF Lease!vars
    <2>5. CASE k # NULL
      <3>1. k \in Conns /\ Owner(k) = c
        BY <2>0, <2>1, <2>5, HeldBy
      <3>2. Owner(k)' = "idle"
        <4>1. InFreeList(k)' /\ k <= m_db_cur_conn_cnt
          BY <2>0, <2>2, <2>5 DEF InFreeList, Underway
        <4>2. \A d \in Clients : pDBConn'[d] # k
          BY <2>0, <2>1, <2>5 DEF Exclusive
        <4> QED
          BY <2>1, <3>1, <4>1, <4>2 DEF Owner, TypeOK, Conns
      <3>3. Lease!Return(c, k)
        BY <2>1, <2>3, <3>1, <3>2 DEF Lease!Return
      <3> QED
        BY <3>1, <3>3 DEF Lease!Next
    <2> QED
      BY <2>4, <2>5
  <1>4. CASE DestructorBody
    <2>1. /\ ~m_abort_request /\ m_abort_request' /\ m_free_list' = <<>>
          /\ UNCHANGED <<m_db_cur_conn_cnt, pDBConn>>
      BY <1>4 DEF DestructorBody
    <2>2. ASSUME NEW k \in Conns
          PROVE  Owner(k)' = IF Owner(k) = "idle" THEN "deleted" ELSE Owner(k)
      <3>1. ~InFreeList(k)'
        BY <2>1 DEF InFreeList
      <3>2. ASSUME NEW c \in Clients, pDBConn[c] = k
            PROVE  Owner(k) = c /\ Owner(k)' = c /\ c # "idle"
        BY <2>1, <3>2, <1>0, HeldBy, HeldByAfter, ClientsAssumption
      <3>3. CASE ~\E c \in Clients : pDBConn[c] = k
        BY <2>1, <3>1, <3>3 DEF Owner
      <3> QED
        BY <3>2, <3>3
    <2>3. Lease!Close
      BY <1>4, <2>1, <2>2 DEF Lease!Close, DestructorBody
    <2> QED
      BY <2>3 DEF Lease!Next
  <1>5. CASE UNCHANGED places
    <2>1. \A k \in Conns : Owner(k)' = Owner(k)
      BY <1>5 DEF places, Owner, InFreeList
    <2> QED
      BY <1>5, <2>1 DEF places, Lease!vars
  <1> QED
    BY <1>1, <1>2, <1>3, <1>4, <1>5, StepsThatMove

LEMMA LeaseInit == Init => Lease!Init
  <1> SUFFICES ASSUME Init PROVE Lease!Init
    OBVIOUS
  <1>1. \A k \in Conns : Owner(k) \in {"unopened", "idle"}
    BY NullAssumption, MaxOpenBounds DEF Init, Owner, Conns
  <1> QED
    BY <1>1 DEF Init, Lease!Init

\* Whatever calls, limits and failures meet, the pool opens a connection once, leases
\* it to one client at a time and only while it is open, takes it from the client
\* that has it, and deletes only those that nobody has (DBPool.cpp:400-552).
THEOREM PoolImplementsLease == Spec => ImplementsLease
  <1>1. SafetySpec => Lease!Spec
    BY InitInv, Invariance, LeaseInit, LeaseStep, PTL DEF SafetySpec, Lease!Spec
  <1> QED
    BY <1>1 DEF Spec, ImplementsLease

-----------------------------------------------------------------------------
(* The client as the runs compose it                                       *)

Queries == {"StartTransaction", "Commit", "Rollback", "ExecuteUpdate", "Prepare",
            "ExecuteStatement"}

\* The call under way: only a connected client has one, it knows nothing of its end,
\* and what it is about has not changed since it began.
CallsMatch ==
  /\ call \in [name : Queries \cup {"none"}, row : Rows \cup {"none", "init"},
               care : BOOLEAN, pinged : BOOLEAN]
  /\ call = Conn!NoCall \/ call.name \in Queries
  /\ call.name \in Queries => m_mysql = "connected" /\ told = <<call.name, FALSE>>
  /\ m_mysql # "connected" => ~link
  /\ call.name = "StartTransaction" => ~begun
  /\ call.name \in {"ExecuteUpdate", "Prepare"} => call.row \in Rows
  /\ call.name = "ExecuteUpdate" => call.row \notin table \cup claimed \cup kept
  /\ call.name = "ExecuteStatement" => call.row = m_stmt /\ call.care /\ call.pinged

\* The server has a transaction open only for a client that believes so, and what
\* was changed in one that is still open is not committed.
Uncommitted == /\ intrans => begun
               /\ ~begun => claimed = {}
               /\ begun /\ ~lost => claimed \cap table = {}

\* TransactionsWhole lets a client believe in a transaction the server has lost, so
\* what the two know of each other has to be said on both sides of a call.
ConnInv == /\ Conn!TypeOK /\ CallsMatch /\ Uncommitted
           /\ Conn!TransactionsWhole /\ Conn!UpdatesKept

-----------------------------------------------------------------------------
(* Types                                                                    *)

FlagsTyped == /\ m_mysql \in {"NULL", "init", "connected"}
              /\ link \in BOOLEAN /\ intrans \in BOOLEAN
              /\ begun \in BOOLEAN /\ lost \in BOOLEAN

RowsTyped == /\ open \subseteq Rows /\ table \subseteq Rows
             /\ m_stmt \in Rows \cup {Conn!None, "init"}
             /\ claimed \subseteq Rows /\ ended \subseteq Rows /\ kept \subseteq Rows
             /\ ~link => ~intrans
             /\ ~intrans => open = {}

CountsTyped == losses \in 0 .. MaxLosses /\ told[2] \in BOOLEAN

LEMMA ConnTypes == Conn!TypeOK <=> FlagsTyped /\ RowsTyped /\ CountsTyped
  BY Zenon DEF Conn!TypeOK, FlagsTyped, RowsTyped, CountsTyped

LEMMA ConnTypesAfter == Conn!TypeOK' <=> FlagsTyped' /\ RowsTyped' /\ CountsTyped'
  BY ConnTypes, PTL

LEMMA ConnInitInv == Conn!Init => ConnInv
  <1> SUFFICES ASSUME Conn!Init PROVE ConnInv
    OBVIOUS
  <1>1. FlagsTyped /\ RowsTyped
    BY DEF Conn!Init, FlagsTyped, RowsTyped, Conn!None
  <1>2. CountsTyped
    BY LossesAssumption DEF Conn!Init, CountsTyped
  <1>3. CallsMatch
    BY DEF Conn!Init, CallsMatch, Conn!NoCall, Conn!None, Queries
  <1>4. Uncommitted /\ Conn!TransactionsWhole /\ Conn!UpdatesKept
    BY DEF Conn!Init, Uncommitted, Conn!TransactionsWhole, Conn!UpdatesKept
  <1> QED
    BY <1>1, <1>2, <1>3, <1>4, ConnTypes DEF ConnInv

-----------------------------------------------------------------------------
(* Steps                                                                    *)

\* A step that is not the beginning of a call.
Within == \/ Conn!InitConn \/ Conn!LinkLost \/ Conn!Ping \/ Conn!QueryFails
          \/ Conn!QuerySucceeds \/ Conn!CloseStatement

LEMMA CallBegins ==
  ASSUME ConnInv, NEW name \in Queries, NEW row \in Rows \cup {"none", "init"},
         NEW care \in BOOLEAN, Conn!Call(name, row, care),
         name = "StartTransaction" => ~begun,
         name \in {"ExecuteUpdate", "Prepare"} => row \in Rows,
         name = "ExecuteUpdate" => row \notin table \cup claimed \cup kept,
         name = "ExecuteStatement" => row = m_stmt /\ care
  PROVE  ConnInv'
  <1> USE DEF ConnInv, Conn!Call, Conn!server
  <1>1. Conn!TypeOK'
    BY DEF Conn!TypeOK
  <1>2. CallsMatch'
    BY DEF CallsMatch, Conn!NoCall, Conn!None, Queries
  <1>3. Uncommitted'
    BY DEF Uncommitted
  <1>4. Conn!TransactionsWhole'
    <2>1. told' # <<"Commit", TRUE>> /\ told' # <<"Rollback", TRUE>>
      OBVIOUS
    <2> QED
      BY <2>1 DEF Conn!TransactionsWhole
  <1>5. Conn!UpdatesKept'
    BY DEF Conn!UpdatesKept
  <1> QED
    BY <1>1, <1>2, <1>3, <1>4, <1>5

LEMMA CallSteps == ConnInv /\ Conn!Next => ConnInv' \/ Within
  <1> SUFFICES ASSUME ConnInv, Conn!Next, ~Within PROVE ConnInv'
    OBVIOUS
  <1> USE DEF Queries, Conn!None
  <1>1. CASE Conn!StartTransaction \/ Conn!Commit \/ Conn!Rollback
    BY <1>1, CallBegins DEF Conn!StartTransaction, Conn!Commit, Conn!Rollback
  <1>2. CASE \E r \in Rows : \/ Conn!Prepare(r)
                            \/ \E care \in BOOLEAN : Conn!ExecuteUpdate(r, care)
    BY <1>2, CallBegins DEF Conn!Prepare, Conn!ExecuteUpdate
  <1>3. CASE Conn!ExecuteStatement
    <2>1. m_stmt \in Rows \cup {"none", "init"}
      BY ConnTypes DEF ConnInv, RowsTyped
    <2> QED
      BY <1>3, <2>1, CallBegins DEF Conn!ExecuteStatement
  <1> QED
    BY <1>1, <1>2, <1>3 DEF Conn!Next, Within

LEMMA FlagsStep == ConnInv /\ Within => FlagsTyped'
  <1> SUFFICES ASSUME ConnInv, Within PROVE FlagsTyped'
    OBVIOUS
  <1> USE ConnTypes DEF ConnInv, FlagsTyped, Conn!server, Conn!ghosts
  <1>1. CASE Conn!InitConn \/ Conn!LinkLost \/ Conn!CloseStatement
    BY <1>1 DEF Conn!InitConn, Conn!LinkLost, Conn!CloseStatement
  <1>2. CASE Conn!Ping
    BY <1>2 DEF Conn!Ping
  <1>3. CASE Conn!QueryFails
    BY <1>3 DEF Conn!QueryFails, Conn!Believe, Conn!FailureAnswer, Conn!Ends
  <1>4. CASE Conn!QuerySucceeds
    BY <1>4 DEF Conn!QuerySucceeds, Conn!Executed, Conn!Believe, Conn!Ends
  <1> QED
    BY <1>1, <1>2, <1>3, <1>4 DEF Within

LEMMA RowsStep == ConnInv /\ Within => RowsTyped'
  <1> SUFFICES ASSUME ConnInv, Within PROVE RowsTyped'
    OBVIOUS
  <1> USE ConnTypes
      DEF ConnInv, FlagsTyped, RowsTyped, CallsMatch, Conn!server, Conn!ghosts, Conn!None, Queries
  <1>1. CASE Conn!InitConn \/ Conn!LinkLost \/ Conn!CloseStatement
    BY <1>1 DEF Conn!InitConn, Conn!LinkLost, Conn!CloseStatement
  <1>2. CASE Conn!Ping
    BY <1>2 DEF Conn!Ping, Conn!Detached
  <1>3. CASE Conn!QueryFails
    BY <1>3 DEF Conn!QueryFails, Conn!Believe, Conn!FailureAnswer, Conn!Ends, Conn!Updates
  <1>4. CASE Conn!QuerySucceeds
    BY <1>4 DEF Conn!QuerySucceeds, Conn!Executed, Conn!Believe, Conn!Ends, Conn!Updates,
                Conn!Detached
  <1> QED
    BY <1>1, <1>2, <1>3, <1>4 DEF Within

LEMMA CountsStep == ConnInv /\ Within => CountsTyped'
  <1> SUFFICES ASSUME ConnInv, Within PROVE CountsTyped'
    OBVIOUS
  <1> USE ConnTypes, LossesAssumption DEF ConnInv, CountsTyped, Conn!ghosts
  <1>1. CASE Conn!InitConn \/ Conn!LinkLost \/ Conn!CloseStatement \/ Conn!Ping
    BY <1>1 DEF Conn!InitConn, Conn!LinkLost, Conn!CloseStatement, Conn!Ping
  <1>2. CASE Conn!QueryFails
    BY <1>2 DEF Conn!QueryFails, Conn!Believe, Conn!FailureAnswer
  <1>3. CASE Conn!QuerySucceeds
    BY <1>3 DEF Conn!QuerySucceeds, Conn!Believe, Conn!Acknowledged
  <1> QED
    BY <1>1, <1>2, <1>3 DEF Within

LEMMA CallsStep == ConnInv /\ Within => CallsMatch'
  <1> SUFFICES ASSUME ConnInv, Within PROVE CallsMatch'
    OBVIOUS
  <1> USE DEF ConnInv, CallsMatch, Queries, Conn!NoCall, Conn!None, Conn!server, Conn!ghosts
  <1>1. CASE Conn!InitConn
    <2>1. call' = call /\ call.name = "none"
      BY <1>1 DEF Conn!InitConn
    <2> QED
      BY <1>1, <2>1 DEF Conn!InitConn
  <1>2. CASE Conn!LinkLost
    BY <1>2 DEF Conn!LinkLost
  <1>3. CASE Conn!Ping
    <2>1. /\ call' \in [name : Queries, row : Rows \cup {"none", "init"},
                        care : BOOLEAN, pinged : BOOLEAN]
          /\ call'.name = call.name /\ call'.row = call.row /\ call'.care = call.care
      BY <1>3 DEF Conn!Ping
    <2>2. call.name \in Queries /\ call.name # "ExecuteStatement"
      BY <1>3 DEF Conn!Ping
    <2> QED
      BY <1>3, <2>1, <2>2 DEF Conn!Ping
  <1>4. CASE Conn!QueryFails \/ Conn!QuerySucceeds
    <2>1. call' = Conn!NoCall /\ m_mysql' = "connected"
      BY <1>4 DEF Conn!QueryFails, Conn!QuerySucceeds
    <2> QED
      BY <2>1
  <1>5. CASE Conn!CloseStatement
    BY <1>5 DEF Conn!CloseStatement
  <1> QED
    BY <1>1, <1>2, <1>3, <1>4, <1>5 DEF Within

\* What the server and the client make of a query that succeeds.
LEMMA BeginSucceeds ==
  ASSUME ConnInv, Conn!QuerySucceeds, call.name = "StartTransaction"
  PROVE  /\ told' = <<"StartTransaction", TRUE>> /\ begun' /\ ~lost'
         /\ intrans' /\ open' = {} /\ table' = table \cup open
         /\ UNCHANGED <<claimed, ended, kept>>
  BY ConnTypes
  DEF ConnInv, FlagsTyped, Conn!QuerySucceeds, Conn!Believe, Conn!Executed, Conn!Updates,
      Conn!Ends

LEMMA EndSucceeds ==
  ASSUME ConnInv, Conn!QuerySucceeds, call.name \in {"Commit", "Rollback"}
  PROVE  /\ told' = <<call.name, TRUE>> /\ ~begun' /\ lost' = lost
         /\ ~intrans' /\ open' = {}
         /\ call.name = "Commit" => table' = table \cup open
         /\ call.name = "Rollback" => table' = table
         /\ claimed' = {} /\ ended' = claimed /\ kept' = kept
  BY ConnTypes
  DEF ConnInv, FlagsTyped, Conn!QuerySucceeds, Conn!Believe, Conn!Executed, Conn!Updates,
      Conn!Ends

LEMMA PrepareSucceeds ==
  ASSUME ConnInv, Conn!QuerySucceeds, call.name = "Prepare"
  PROVE  /\ told' = <<"Prepare", TRUE>>
         /\ UNCHANGED <<intrans, open, table, begun, claimed, ended, lost, kept>>
  BY ConnTypes
  DEF ConnInv, FlagsTyped, Conn!QuerySucceeds, Conn!Believe, Conn!Executed, Conn!Updates,
      Conn!Ends

LEMMA UpdateSucceeds ==
  ASSUME ConnInv, Conn!QuerySucceeds, call.name \in Conn!Updates
  PROVE  /\ \E ok \in BOOLEAN : told' = <<call.name, ok>>
         /\ UNCHANGED <<intrans, begun, ended, lost>>
         /\ intrans => open' = open \cup {call.row} /\ table' = table
         /\ ~intrans => table' = table \cup {call.row} /\ open' = open
         /\ claimed' # claimed => /\ begun /\ call.row \notin table
                                  /\ claimed' = claimed \cup {call.row}
         /\ kept' # kept => ~begun /\ kept' = kept \cup {call.row}
  <1> DEFINE ok == call.name \in Conn!Updates => Conn!Acknowledged(Conn!Affects(call.row))
  <1> USE ConnTypes
      DEF ConnInv, FlagsTyped, Conn!QuerySucceeds, Conn!Believe, Conn!Updates, Conn!Ends
  <1>1. ok \in BOOLEAN /\ (ok => call.row \notin table)
    BY DEF Conn!Acknowledged, Conn!Affects, ConnInv, CallsMatch
  <1> HIDE DEF ok
  <1>2. Conn!Believe(call.name, call.row, ok)
    BY DEF ok
  <1>3. /\ told' = <<call.name, ok>> /\ UNCHANGED <<begun, ended>>
        /\ claimed' = IF ok /\ begun THEN claimed \cup {call.row} ELSE claimed
        /\ kept' = IF ok /\ ~begun THEN kept \cup {call.row} ELSE kept
    BY <1>2
  <1>4. /\ UNCHANGED <<intrans, lost>>
        /\ intrans => open' = open \cup {call.row} /\ table' = table
        /\ ~intrans => table' = table \cup {call.row} /\ open' = open
    BY DEF Conn!Executed
  <1> QED
    BY <1>1, <1>3, <1>4

LEMMA SuccessKinds ==
  ASSUME ConnInv, Conn!QuerySucceeds
  PROVE  \/ call.name = "StartTransaction" \/ call.name \in {"Commit", "Rollback"}
         \/ call.name = "Prepare" \/ call.name \in Conn!Updates
  BY DEF Conn!QuerySucceeds, Conn!Executed

LEMMA UncommittedStep == ConnInv /\ Within => Uncommitted'
  <1> SUFFICES ASSUME ConnInv, Within PROVE Uncommitted'
    OBVIOUS
  <1> USE ConnTypes DEF ConnInv, FlagsTyped, Uncommitted, Conn!server, Conn!ghosts
  <1>1. CASE Conn!InitConn \/ Conn!LinkLost \/ Conn!CloseStatement \/ Conn!Ping
    BY <1>1 DEF Conn!InitConn, Conn!LinkLost, Conn!CloseStatement, Conn!Ping
  <1>2. CASE Conn!QueryFails
    BY <1>2 DEF Conn!QueryFails, Conn!Believe, Conn!FailureAnswer, Conn!Updates, Conn!Ends
  <1>3. CASE Conn!QuerySucceeds
    <2>1. CASE call.name = "StartTransaction"
      BY <1>3, <2>1, BeginSucceeds DEF CallsMatch
    <2>2. CASE call.name \in {"Commit", "Rollback"}
      BY <1>3, <2>2, EndSucceeds
    <2>3. CASE call.name = "Prepare"
      <3>1. UNCHANGED <<intrans, open, table, begun, claimed, lost>>
        BY <1>3, <2>3, PrepareSucceeds
      <3> QED
        BY <3>1
    <2>4. CASE call.name \in Conn!Updates
      <3>1. /\ UNCHANGED <<intrans, begun, lost>>
            /\ intrans => table' = table
            /\ claimed' # claimed => /\ begun /\ call.row \notin table
                                     /\ claimed' = claimed \cup {call.row}
        BY <1>3, <2>4, UpdateSucceeds
      <3>2. begun /\ ~lost => intrans
        BY DEF Conn!TransactionsWhole
      <3> QED
        BY <3>1, <3>2
    <2> QED
      BY <1>3, <2>1, <2>2, <2>3, <2>4, SuccessKinds
  <1> QED
    BY <1>1, <1>2, <1>3 DEF Within

LEMMA WholeStep == ConnInv /\ Within => Conn!TransactionsWhole'
  <1> SUFFICES ASSUME ConnInv, Within PROVE Conn!TransactionsWhole'
    OBVIOUS
  <1> USE ConnTypes DEF ConnInv, FlagsTyped, Conn!TransactionsWhole, Conn!server, Conn!ghosts
  <1>1. CASE Conn!InitConn
    <2>1. told' # <<"Commit", TRUE>> /\ told' # <<"Rollback", TRUE>>
      BY <1>1 DEF Conn!InitConn
    <2> QED
      BY <1>1, <2>1 DEF Conn!InitConn
  <1>2. CASE Conn!LinkLost
    BY <1>2 DEF Conn!LinkLost
  <1>3. CASE Conn!Ping \/ Conn!CloseStatement
    BY <1>3 DEF Conn!Ping, Conn!CloseStatement
  <1>4. CASE Conn!QueryFails
    <2>1. told' = <<call.name, FALSE>> /\ UNCHANGED <<begun, claimed>>
      BY <1>4 DEF Conn!QueryFails, Conn!Believe, Conn!FailureAnswer
    <2>2. told' # <<"Commit", TRUE>> /\ told' # <<"Rollback", TRUE>>
      BY <2>1
    <2>3. ~lost' => UNCHANGED <<intrans, open, table, lost>>
      BY <1>4 DEF Conn!QueryFails
    <2> QED
      BY <2>1, <2>2, <2>3
  <1>5. CASE Conn!QuerySucceeds
    <2>1. CASE call.name = "StartTransaction"
      <3>1. told' = <<"StartTransaction", TRUE>> /\ intrans' /\ claimed' = {}
        BY <1>5, <2>1, BeginSucceeds DEF CallsMatch, Uncommitted
      <3> QED
        BY <3>1
    <2>2. CASE call.name = "Commit"
      <3>1. /\ told' = <<"Commit", TRUE>> /\ ~begun' /\ lost' = lost
            /\ table' = table \cup open /\ ended' = claimed
        BY <1>5, <2>2, EndSucceeds
      <3>2. ~lost /\ begun => claimed \subseteq open \cup table
        OBVIOUS
      <3>3. ~begun => claimed = {}
        BY DEF Uncommitted
      <3> QED
        BY <3>1, <3>2, <3>3
    <2>3. CASE call.name = "Rollback"
      <3>1. /\ told' = <<"Rollback", TRUE>> /\ ~begun' /\ lost' = lost
            /\ table' = table /\ ended' = claimed
        BY <1>5, <2>3, EndSucceeds
      <3>2. ~lost => claimed \cap table = {}
        BY DEF Uncommitted
      <3> QED
        BY <3>1, <3>2
    <2>4. CASE call.name = "Prepare"
      <3>1. /\ told' = <<"Prepare", TRUE>>
            /\ UNCHANGED <<intrans, open, table, begun, claimed, lost>>
        BY <1>5, <2>4, PrepareSucceeds
      <3> QED
        BY <3>1
    <2>5. CASE call.name \in Conn!Updates
      <3>1. PICK ok \in BOOLEAN : told' = <<call.name, ok>>
        BY <1>5, <2>5, UpdateSucceeds
      <3>2. told' # <<"Commit", TRUE>> /\ told' # <<"Rollback", TRUE>>
        BY <2>5, <3>1 DEF Conn!Updates
      <3>3. /\ UNCHANGED <<intrans, begun, lost>>
            /\ intrans => open' = open \cup {call.row} /\ table' = table
            /\ claimed' \subseteq claimed \cup {call.row}
        BY <1>5, <2>5, UpdateSucceeds
      <3>4. begun' /\ ~lost' => intrans /\ claimed \subseteq open \cup table
        BY <3>3
      <3> QED
        BY <3>2, <3>3, <3>4
    <2> QED
      BY <1>5, <2>1, <2>2, <2>3, <2>4, <2>5, SuccessKinds
  <1> QED
    BY <1>1, <1>2, <1>3, <1>4, <1>5 DEF Within

LEMMA KeptStep == ConnInv /\ Within => Conn!UpdatesKept'
  <1> SUFFICES ASSUME ConnInv, Within PROVE Conn!UpdatesKept'
    OBVIOUS
  <1> USE ConnTypes DEF ConnInv, FlagsTyped, Conn!UpdatesKept, Conn!server, Conn!ghosts
  <1>1. CASE Conn!InitConn \/ Conn!LinkLost \/ Conn!CloseStatement \/ Conn!Ping
    BY <1>1 DEF Conn!InitConn, Conn!LinkLost, Conn!CloseStatement, Conn!Ping
  <1>2. CASE Conn!QueryFails
    BY <1>2 DEF Conn!QueryFails, Conn!Believe, Conn!FailureAnswer, Conn!Updates
  <1>3. CASE Conn!QuerySucceeds
    BY <1>3 DEF Uncommitted, Conn!QuerySucceeds, Conn!Executed, Conn!Believe, Conn!Updates
  <1> QED
    BY <1>1, <1>2, <1>3 DEF Within

LEMMA ConnInvStep == ConnInv /\ [Conn!Next]_Conn!vars => ConnInv'
  <1> SUFFICES ASSUME ConnInv, [Conn!Next]_Conn!vars PROVE ConnInv'
    OBVIOUS
  <1>1. CASE Conn!Next
    <2>1. CASE Within
      BY <2>1, FlagsStep, RowsStep, CountsStep, ConnTypesAfter, CallsStep, UncommittedStep,
         WholeStep, KeptStep DEF ConnInv
    <2> QED
      BY <1>1, <2>1, CallSteps
  <1>2. CASE UNCHANGED Conn!vars
    <2>1. UNCHANGED <<m_mysql, link, intrans, open, table, m_stmt, call, losses, told, begun,
                      claimed, ended, lost, kept>>
      BY <1>2 DEF Conn!vars, Conn!server, Conn!ghosts
    <2>2. Conn!TypeOK'
      BY <2>1 DEF ConnInv, Conn!TypeOK
    <2>3. CallsMatch'
      BY <2>1 DEF ConnInv, CallsMatch
    <2>4. Uncommitted' /\ Conn!TransactionsWhole' /\ Conn!UpdatesKept'
      BY <2>1 DEF ConnInv, Uncommitted, Conn!TransactionsWhole, Conn!UpdatesKept
    <2> QED
      BY <2>2, <2>3, <2>4 DEF ConnInv
  <1> QED
    BY <1>1, <1>2

LEMMA ConnInvariance == Conn!Spec => []ConnInv
  BY ConnInitInv, ConnInvStep, PTL DEF Conn!Spec

-----------------------------------------------------------------------------
(* The composition                                                          *)

\* Each part behaves as it does alone, or rests.
LEMMA PartsAlone == PartsSpec => SafetySpec /\ Conn!Spec
  <1>1. PartsInit => Init /\ Conn!Init
    BY DEF PartsInit
  <1>2. [PoolStep \/ ConnStep \/ Stopped]_<<vars, connVars, part>>
          => [Next]_vars /\ [Conn!Next]_Conn!vars
    BY DEF PoolStep, ConnStep, Stopped, connVars, Conn!vars, Conn!server, Conn!ghosts
  <1> QED
    BY <1>1, <1>2, PTL DEF PartsSpec, SafetySpec, Conn!Spec

\* Whatever the clients, the server and the link do, the pool and a connection keep
\* their bounds, and a connection is with the one client it was given to or else in
\* the free list, once (DBPool.cpp:450-552).
THEOREM MySQLConnections == PartsSpec => []ConnectionsInOnePlace
  <1>1. Inv /\ ConnInv => ConnectionsInOnePlace
    BY DEF Inv, ConnInv, ConnectionsInOnePlace
  <1> QED
    BY <1>1, PartsAlone, Invariance, ConnInvariance, PTL

\* While the session lasts, Commit leaves all of what the client was told and Rollback
\* none of it, however many links are lost and sessions replaced in between; and what
\* was acknowledged outside a transaction is in the table (DBPool.cpp:246-398).
THEOREM MySQLTransactions == PartsSpec => []TransactionsKept
  <1>1. ConnInv => TransactionsKept
    BY DEF ConnInv, TransactionsKept
  <1> QED
    BY <1>1, PartsAlone, ConnInvariance, PTL
=============================================================================
