----------------------------- MODULE RedisProofs -----------------------------
(***************************************************************************)
(* Theorems about the redis client: the pool, for any finite set of         *)
(* clients, any size and any number of calls, over connections that fail at *)
(* any time; then the client as the runs compose it, the pool with its      *)
(* clients, the connections as they are used and set up again, and what the *)
(* commands make of their replies.                                          *)
(***************************************************************************)
EXTENDS MCRedis, FiniteSetTheorems, TLAPS

\* Where the clients are, and that the connections beyond the counter are not made.
Underway ==
  /\ \A c \in Clients : /\ pConn[c] # NULL => pc[c] \in {"have", "undefined"}
                        /\ pc[c] = "have" => pConn[c] # NULL
                        /\ deleted => pc[c] \in {"idle", "have", "undefined"}
                        /\ pc[c] \in {"lock", "wait", "have"} => calls[c] \in 1 .. Calls
  /\ ~deleted => /\ \A c \in Clients : pConn[c] # NULL => pConn[c] <= m_cur_conn_cnt
                 /\ \A i \in 1 .. Len(m_free_list) : m_free_list[i] <= m_cur_conn_cnt
                 /\ \A k \in Conns : k > m_cur_conn_cnt => m_pContext[k] = NULL

\* A connection is new because of the counter, and the contexts are those of the
\* connections because each is deleted or used by one.
Inv == TypeOK /\ Exclusive /\ NoMissedWakeup /\ ContextsOwned /\ Underway

-----------------------------------------------------------------------------
(* Lists and sets                                                           *)

LEMMA MaxOpenBounds ==
  /\ MaxOpen \in Nat
  /\ MIN_CACHE_CONN_CNT <= MaxOpen /\ m_max_conn_cnt <= MaxOpen
  /\ MIN_CACHE_CONN_CNT \in Nat /\ m_max_conn_cnt \in Nat /\ Calls \in Nat
  /\ Conns = 1 .. MaxOpen /\ NULL \notin Conns
  BY PoolAssumption DEF MaxOpen

\* What is left of a list when its front is gone.
LEMMA TailOfList ==
  ASSUME NEW S, NEW s \in Seq(S), s # <<>>
  PROVE  /\ Tail(s) \in Seq(S) /\ Len(Tail(s)) = Len(s) - 1
         /\ Len(s) \in Nat \ {0}
         /\ \A i \in 1 .. Len(Tail(s)) : Tail(s)[i] = s[i + 1]
         /\ Head(s) = s[1] /\ Head(s) \in S
  OBVIOUS

LEMMA AppendToList ==
  ASSUME NEW S, NEW s \in Seq(S), NEW k \in S
  PROVE  /\ Append(s, k) \in Seq(S) /\ Len(Append(s, k)) = Len(s) + 1
         /\ Len(s) \in Nat
         /\ \A i \in 1 .. Len(s) : Append(s, k)[i] = s[i]
         /\ Append(s, k)[Len(s) + 1] = k
  OBVIOUS

\* The connections that have a context.
Live == {k \in Conns : m_pContext[k] # NULL}

LEMMA LiveIsFinite ==
  /\ IsFiniteSet(Live) /\ Cardinality(Live) \in Nat
  /\ IsFiniteSet(Live') /\ Cardinality(Live') \in Nat
  <1>1. IsFiniteSet(Conns)
    BY MaxOpenBounds, FS_Interval
  <1>2. Live \subseteq Conns /\ Live' \subseteq Conns
    BY DEF Live
  <1> QED
    BY <1>1, <1>2, FS_Subset, FS_CardinalityType

\* One context more, one less.
LEMMA OneMore ==
  ASSUME NEW k \in Conns, m_pContext[k] = NULL, Live' = Live \cup {k}
  PROVE  Cardinality(Live') = Cardinality(Live) + 1
  BY LiveIsFinite, FS_AddElement DEF Live

LEMMA OneLess ==
  ASSUME NEW k \in Conns, m_pContext[k] # NULL, Live' = Live \ {k}
  PROVE  Cardinality(Live') = Cardinality(Live) - 1
  <1>1. k \in Live
    BY DEF Live
  <1>2. Cardinality(Live \ {k}) = Cardinality(Live) - 1
    BY <1>1, LiveIsFinite, FS_RemoveElement
  <1> QED
    BY <1>2

-----------------------------------------------------------------------------
(* The connections                                                          *)

\* What Init may come to.
LEMMA InitComesTo ==
  ASSUME ConnTypeOK, NEW k \in Conns, NEW result \in InitResults(k)
  PROVE  /\ result.context \in {NULL, "open", "rejected", "broken"}
         /\ result.ret = 0 => result.context # NULL
         /\ m_pContext[k] # NULL => result.context = m_pContext[k]
  BY NullAssumption DEF InitResults, Connect, ConnTypeOK

\* What Init and a reply, or none, do to the connection.
LEMMA GoingKeeps ==
  ASSUME ConnTypeOK, ContextsOwned, NEW k \in Conns, NEW result \in InitResults(k), NEW reply,
         CommandGoes(k, result, reply), reply = NULL => result.context # NULL
  PROVE  /\ ConnTypeOK' /\ ContextsOwned'
         /\ \A j \in Conns : j # k => m_pContext'[j] = m_pContext[j]
  <1> USE NullAssumption
  <1>3. /\ result.context \in {NULL, "open", "rejected", "broken"}
        /\ m_pContext[k] # NULL => result.context = m_pContext[k]
    BY InitComesTo
  <1>4. reply = NULL => result.context # NULL
    OBVIOUS
  <1> DEFINE now == AfterReply(result, reply)
  <1>5. now \in {NULL, "open", "rejected", "broken"}
    BY <1>3 DEF AfterReply
  <1>6. /\ m_pContext' = [m_pContext EXCEPT ![k] = now]
        /\ contexts' = contexts + Created(k, result) - (IF reply = NULL THEN 1 ELSE 0)
        /\ recent' = [recent EXCEPT ![k] = @ \/ m_pContext[k] = NULL]
        /\ healthy' = healthy
    BY DEF CommandGoes, Attempted
  <1>7. \A j \in Conns : m_pContext'[j] = IF j = k THEN now ELSE m_pContext[j]
    BY <1>6 DEF ConnTypeOK
  <1>8. contexts = Cardinality(Live)
    BY DEF ContextsOwned, Live
  <1>9. contexts' = Cardinality(Live')
    <2>1. CASE m_pContext[k] = NULL /\ now # NULL
      <3>1. Live' = Live \cup {k}
        BY <2>1, <1>7 DEF Live
      <3>2. contexts' = contexts + 1
        BY <2>1, <1>3, <1>6, <1>8, LiveIsFinite DEF Created, AfterReply
      <3> QED
        BY <2>1, <3>1, <3>2, <1>8, OneMore
    <2>2. CASE m_pContext[k] # NULL /\ now = NULL
      <3>1. Live' = Live \ {k}
        BY <2>2, <1>7 DEF Live
      <3>2. contexts' = contexts - 1
        BY <2>2, <1>3, <1>6, <1>8, LiveIsFinite DEF Created, AfterReply
      <3> QED
        BY <2>2, <3>1, <3>2, <1>8, OneLess
    <2>3. CASE m_pContext[k] = NULL <=> now = NULL
      <3>1. Live' = Live
        BY <2>3, <1>7 DEF Live
      <3>2. contexts' = contexts
        BY <2>3, <1>3, <1>4, <1>6, <1>8, LiveIsFinite DEF Created, AfterReply
      <3> QED
        BY <3>1, <3>2, <1>8
    <2> QED
      BY <2>1, <2>2, <2>3
  <1>10. ConnTypeOK'
    <2>1. m_pContext' \in [Conns -> {NULL, "open", "rejected", "broken"}]
      BY <1>5, <1>6 DEF ConnTypeOK
    <2>2. recent' \in [Conns -> BOOLEAN]
      BY <1>6, Zenon DEF ConnTypeOK
    <2>3. contexts' \in Nat
      BY <1>9, LiveIsFinite
    <2> QED
      BY <2>1, <2>2, <2>3, <1>6 DEF ConnTypeOK
  <1> QED
    BY <1>7, <1>9, <1>10 DEF ContextsOwned, Live

\* What a command does to the connection it goes over.
LEMMA CommandKeeps ==
  ASSUME ConnTypeOK, ContextsOwned, NEW k \in Conns, Command(k)
  PROVE  /\ ConnTypeOK' /\ ContextsOwned'
         /\ \A j \in Conns : j # k => m_pContext'[j] = m_pContext[j]
  <1>1. PICK result \in InitResults(k) : \E reply \in RepliesAfter(result) :
               CommandGoes(k, result, reply)
    BY DEF Command
  <1>2. PICK reply \in RepliesAfter(result) : CommandGoes(k, result, reply)
    BY <1>1
  <1>3. reply = NULL => result.context # NULL
    BY InitComesTo, NullAssumption DEF RepliesAfter
  <1> QED
    BY <1>2, <1>3, GoingKeeps

-----------------------------------------------------------------------------
(* Types                                                                    *)

LEMMA InitTyped == Init => TypeOK
  <1> SUFFICES ASSUME Init PROVE TypeOK
    OBVIOUS
  <1> USE MaxOpenBounds
  <1>1. m_free_list \in Seq(Conns)
    BY DEF Init
  <1>2. m_pContext \in [Conns -> {NULL, "open", "rejected", "broken"}]
    BY DEF Init
  <1>3. recent \in [Conns -> BOOLEAN] /\ healthy \in BOOLEAN /\ deleted \in BOOLEAN
    <2>1. \A k \in Conns : (k <= MIN_CACHE_CONN_CNT) \in BOOLEAN
      OBVIOUS
    <2> QED
      BY <2>1, Zenon DEF Init
  <1>4. /\ contexts \in Nat /\ m_cur_conn_cnt \in 0 .. MaxOpen
        /\ calls \in [Clients -> 0 .. Calls]
        /\ pConn \in [Clients -> Conns \cup {NULL}]
        /\ pc \in [Clients -> {"idle", "lock", "wait", "have", "undefined"}]
    BY DEF Init
  <1> QED
    BY <1>1, <1>2, <1>3, <1>4 DEF TypeOK, ConnTypeOK

\* A step that opens a connection.
LEMMA OpenResult ==
  ASSUME NEW result \in Connect
  PROVE  /\ result.ret = 0 => result.context = "open"
         /\ result.context \in {NULL, "open", "rejected", "broken"}
  BY DEF Connect

LEMMA NextTyped == Inv /\ [Next]_vars => TypeOK' /\ ContextsOwned'
  <1> SUFFICES ASSUME Inv, [Next]_vars PROVE TypeOK' /\ ContextsOwned'
    OBVIOUS
  <1> USE MaxOpenBounds, NullAssumption DEF Inv
  <1>0. UNCHANGED connVars => ConnTypeOK' /\ ContextsOwned'
    BY DEF connVars, TypeOK, ConnTypeOK, ContextsOwned
  <1>1. ASSUME NEW c \in Clients, CallGetCacheConn(c) PROVE TypeOK' /\ ContextsOwned'
    BY <1>0, <1>1 DEF CallGetCacheConn, TypeOK
  <1>2. ASSUME NEW c \in Clients, GetFree(c) PROVE TypeOK' /\ ContextsOwned'
    <2>1. Head(m_free_list) \in Conns /\ m_free_list' \in Seq(Conns)
      BY <1>2, TailOfList DEF GetFree, Popped, TypeOK
    <2> QED
      BY <1>0, <1>2, <2>1 DEF GetFree, Lease, TypeOK
  <1>3. ASSUME NEW c \in Clients, GetWait(c) \/ SpuriousWakeup(c) \/ UseAfterDelete(c)
        PROVE  TypeOK' /\ ContextsOwned'
    <2>1. PICK label \in {"lock", "wait", "undefined"} : pc' = [pc EXCEPT ![c] = label]
      BY <1>3 DEF GetWait, SpuriousWakeup, UseAfterDelete
    <2>2. UNCHANGED <<connVars, m_free_list, m_cur_conn_cnt, deleted, pConn, calls>>
      BY <1>3 DEF GetWait, SpuriousWakeup, UseAfterDelete
    <2> QED
      BY <1>0, <2>1, <2>2 DEF TypeOK
  <1>4. ASSUME NEW c \in Clients, GetOpen(c) PROVE TypeOK' /\ ContextsOwned'
    <2>0. PICK k : k = m_cur_conn_cnt + 1
      OBVIOUS
    <2>1. PICK result \in Connect :
            IF result.ret = 0
            THEN /\ Lease(c, k)
                 /\ m_cur_conn_cnt' = k
                 /\ m_pContext' = [m_pContext EXCEPT ![k] = result.context]
                 /\ recent' = [recent EXCEPT ![k] = TRUE]
                 /\ contexts' = contexts + 1
            ELSE /\ pc' = [pc EXCEPT ![c] = "undefined"]
                 /\ contexts' = contexts + (IF result.context # NULL THEN 1 ELSE 0)
                                 - Destructor(result.context)
                 /\ UNCHANGED <<m_cur_conn_cnt, m_pContext, recent, pConn>>
      BY <1>4, <2>0 DEF GetOpen
    <2>2. /\ UNCHANGED <<m_free_list, deleted, healthy, calls>>
          /\ k \in Conns /\ k > m_cur_conn_cnt /\ pc[c] = "lock"
      BY <1>4, <2>0 DEF GetOpen, MayOpen, TypeOK
    <2>3. CASE result.ret = 0
      <3>1. m_pContext[k] = NULL
        BY <2>2 DEF Underway
      <3>2. /\ m_pContext' \in [Conns -> {NULL, "open", "rejected", "broken"}]
            /\ \A j \in Conns : m_pContext'[j] = IF j = k THEN "open" ELSE m_pContext[j]
        BY <2>1, <2>2, <2>3, OpenResult DEF TypeOK, ConnTypeOK
      <3>3. Live' = Live \cup {k}
        BY <2>2, <3>1, <3>2 DEF Live
      <3>4. contexts' = Cardinality(Live')
        BY <2>1, <2>2, <2>3, <3>1, <3>3, OneMore DEF ContextsOwned, Live
      <3>5. recent' \in [Conns -> BOOLEAN]
        BY <2>1, <2>3, Zenon DEF TypeOK, ConnTypeOK
      <3>6. ConnTypeOK'
        BY <2>2, <3>2, <3>4, <3>5, LiveIsFinite DEF ConnTypeOK, TypeOK
      <3>7. /\ pc' \in [Clients -> {"idle", "lock", "wait", "have", "undefined"}]
            /\ pConn' \in [Clients -> Conns \cup {NULL}]
        BY <2>1, <2>2, <2>3 DEF Lease, TypeOK
      <3> QED
        BY <2>1, <2>2, <2>3, <3>4, <3>6, <3>7 DEF TypeOK, ContextsOwned, Live
    <2>4. CASE result.ret # 0
      <3>1. UNCHANGED <<connVars, m_free_list, m_cur_conn_cnt, deleted, pConn, calls>>
        BY <2>1, <2>2, <2>4 DEF Destructor, connVars, TypeOK, ConnTypeOK
      <3> QED
        BY <1>0, <2>1, <2>4, <3>1 DEF TypeOK
    <2> QED
      BY <2>3, <2>4
  <1>5. ASSUME NEW c \in Clients, Use(c) PROVE TypeOK' /\ ContextsOwned'
    <2>1. pConn[c] \in Conns
      BY <1>5 DEF Use, Underway, TypeOK
    <2>2. ConnTypeOK' /\ ContextsOwned'
      BY <1>5, <2>1, CommandKeeps DEF Use, TypeOK
    <2> QED
      BY <1>5, <2>2 DEF Use, poolVars, TypeOK
  <1>6. ASSUME NEW c \in Clients, RelCacheConn(c) PROVE TypeOK' /\ ContextsOwned'
    <2>1. pConn[c] \in Conns
      BY <1>6 DEF RelCacheConn, Underway, TypeOK
    <2>2. m_free_list' \in Seq(Conns)
      BY <1>6, <2>1, AppendToList DEF RelCacheConn, TypeOK
    <2>3. PICK woken : Move(c, "idle", woken)
      BY <1>6 DEF RelCacheConn
    <2>4. pc' \in [Clients -> {"idle", "lock", "wait", "have", "undefined"}]
      BY <2>3 DEF Move, TypeOK
    <2> QED
      BY <1>0, <1>6, <2>2, <2>4 DEF RelCacheConn, TypeOK
  <1>7. CASE DeletePool
    <2> DEFINE Free == {k \in Conns : InFreeList(k) /\ m_pContext[k] # NULL}
    <2>1. Live' = Live \ Free
      BY <1>7 DEF DeletePool, Live
    <2>2. Live \cap Free = Free
      BY DEF Live
    <2>3. Cardinality(Live') = Cardinality(Live) - Cardinality(Free)
      <3>1. Cardinality(Live \ Free) = Cardinality(Live) - Cardinality(Live \cap Free)
        BY LiveIsFinite, FS_Difference
      <3> QED
        BY <2>1, <2>2, <3>1
    <2>4. contexts' = Cardinality(Live')
      BY <1>7, <2>3 DEF DeletePool, ContextsOwned, Live
    <2>5. m_pContext' \in [Conns -> {NULL, "open", "rejected", "broken"}]
      BY <1>7 DEF DeletePool, TypeOK, ConnTypeOK
    <2>6. ConnTypeOK'
      BY <1>7, <2>4, <2>5, LiveIsFinite DEF DeletePool, ConnTypeOK, TypeOK
    <2> QED
      BY <1>7, <2>4, <2>6 DEF DeletePool, TypeOK, ContextsOwned, Live
  <1>8. CASE (Tick \/ Heal) /\ UNCHANGED poolVars
    <2>1. ConnTypeOK' /\ ContextsOwned'
      BY <1>8 DEF Tick, Heal, TypeOK, ConnTypeOK, ContextsOwned
    <2> QED
      BY <1>8, <2>1 DEF poolVars, TypeOK
  <1>9. CASE UNCHANGED vars
    BY <1>0, <1>9 DEF vars, poolVars, TypeOK
  <1> QED
    BY <1>1, <1>2, <1>3, <1>4, <1>5, <1>6, <1>7, <1>8, <1>9
    DEF Next, GetCacheConn, Terminating

-----------------------------------------------------------------------------
(* Where the connections are                                                *)

places == <<m_free_list, m_cur_conn_cnt, deleted, pConn>>

\* A connection is opened for the client, or the call fails and nothing moves.
LEMMA OpenCases ==
  ASSUME Inv, NEW c \in Clients, GetOpen(c)
  PROVE  /\ pc[c] = "lock" /\ MayOpen /\ ~deleted
         /\ m_free_list = <<>> /\ UNCHANGED <<m_free_list, deleted, calls>>
         /\ \/ /\ m_cur_conn_cnt + 1 \in Conns
               /\ m_cur_conn_cnt' = m_cur_conn_cnt + 1
               /\ pConn' = [pConn EXCEPT ![c] = m_cur_conn_cnt + 1]
               /\ pc' = [pc EXCEPT ![c] = "have"]
               /\ \A j \in Conns : j # m_cur_conn_cnt + 1 => m_pContext'[j] = m_pContext[j]
            \/ /\ pc' = [pc EXCEPT ![c] = "undefined"]
               /\ UNCHANGED <<m_cur_conn_cnt, pConn, m_pContext>>
  <1>1. /\ pc[c] = "lock" /\ MayOpen /\ ~deleted
        /\ m_free_list = <<>> /\ UNCHANGED <<m_free_list, deleted, calls>>
    BY DEF GetOpen, Inv, Underway
  <1>2. m_cur_conn_cnt + 1 \in Conns
    BY <1>1, MaxOpenBounds DEF MayOpen, Inv, TypeOK
  <1> QED
    BY <1>1, <1>2 DEF GetOpen, Lease, Inv, TypeOK, ConnTypeOK

\* Only these steps move connections.
LEMMA StepsThatMove ==
  ASSUME [Next]_vars
  PROVE  \/ UNCHANGED places
         \/ \E c \in Clients : GetFree(c) \/ GetOpen(c) \/ RelCacheConn(c)
         \/ DeletePool
  BY DEF Next, GetCacheConn, CallGetCacheConn, GetWait, SpuriousWakeup, UseAfterDelete, Use,
         Tick, Heal, Terminating, vars, poolVars, places

\* What GetFree does, in terms of the places in the list.
LEMMA FreeTaken ==
  ASSUME Inv, NEW c \in Clients, GetFree(c), NEW k, k = Head(m_free_list)
  PROVE  /\ Len(m_free_list') = Len(m_free_list) - 1 /\ Len(m_free_list) \in Nat \ {0}
         /\ \A i \in 1 .. Len(m_free_list') : m_free_list'[i] = m_free_list[i + 1]
         /\ k = m_free_list[1] /\ k \in Conns
         /\ \A d \in Clients : /\ pConn'[d] = IF d = c THEN k ELSE pConn[d]
                               /\ pc'[d] = IF d = c THEN "have" ELSE pc[d]
         /\ pConn[c] = NULL /\ pc[c] = "lock" /\ ~deleted
         /\ UNCHANGED <<m_cur_conn_cnt, deleted, calls, m_pContext>>
  <1>1. m_free_list \in Seq(Conns) /\ m_free_list # <<>> /\ m_free_list' = Tail(m_free_list)
    BY DEF GetFree, Popped, Inv, TypeOK
  <1> QED
    BY <1>1, TailOfList DEF GetFree, Lease, Inv, TypeOK, Underway, connVars

\* What RelCacheConn does: the connection of c is not in the list already.
LEMMA Released ==
  ASSUME Inv, NEW c \in Clients, RelCacheConn(c), NEW k, k = pConn[c]
  PROVE  /\ Len(m_free_list') = Len(m_free_list) + 1 /\ Len(m_free_list) \in Nat
         /\ \A i \in 1 .. Len(m_free_list) : m_free_list'[i] = m_free_list[i]
         /\ m_free_list'[Len(m_free_list) + 1] = k
         /\ k \in Conns /\ ~InFreeList(k)
         /\ \A d \in Clients : pConn'[d] = IF d = c THEN NULL ELSE pConn[d]
         /\ pc[c] = "have" /\ ~deleted
         /\ UNCHANGED <<m_cur_conn_cnt, deleted, calls, m_pContext>>
  <1>1. /\ k \in Conns /\ ~InFreeList(k)
        /\ pc[c] = "have" /\ ~deleted
        /\ UNCHANGED <<m_cur_conn_cnt, deleted, calls, m_pContext>>
        /\ \A d \in Clients : pConn'[d] = IF d = c THEN NULL ELSE pConn[d]
    BY DEF RelCacheConn, Inv, Underway, TypeOK, Exclusive, connVars
  <1>2. m_free_list' = Append(m_free_list, k) /\ m_free_list \in Seq(Conns)
    BY <1>1 DEF RelCacheConn, Inv, TypeOK
  <1> QED
    BY <1>1, <1>2, AppendToList

LEMMA ExclusiveStep == Inv /\ [Next]_vars => Exclusive'
  <1> SUFFICES ASSUME Inv, [Next]_vars PROVE Exclusive'
    OBVIOUS
  <1> USE MaxOpenBounds DEF Inv
  <1>0. \A i \in 1 .. Len(m_free_list) : m_free_list[i] # NULL
    BY DEF TypeOK
  <1>1. ASSUME NEW c \in Clients, GetFree(c) PROVE Exclusive'
    <2>0. PICK k : k = Head(m_free_list)
      OBVIOUS
    <2>1. \A i \in 1 .. Len(m_free_list') : m_free_list'[i] # k
      BY <1>1, <2>0, FreeTaken DEF Exclusive
    <2>2. \A i \in 1 .. Len(m_free_list') : \A d \in Clients : m_free_list'[i] # pConn[d]
      BY <1>1, <2>0, FreeTaken DEF Exclusive, InFreeList
    <2>3. \A d \in Clients : pConn[d] # k
      BY <1>1, <2>0, FreeTaken DEF Exclusive, InFreeList
    <2>4. \A i, j \in 1 .. Len(m_free_list') : m_free_list'[i] = m_free_list'[j] => i = j
      <3>1. /\ Len(m_free_list') = Len(m_free_list) - 1 /\ Len(m_free_list) \in Nat \ {0}
            /\ \A i \in 1 .. Len(m_free_list') : m_free_list'[i] = m_free_list[i + 1]
        BY <1>1, <2>0, FreeTaken
      <3>2. ASSUME NEW i \in 1 .. Len(m_free_list'), NEW j \in 1 .. Len(m_free_list'),
                   m_free_list'[i] = m_free_list'[j]
            PROVE  i = j
        <4>1. i + 1 \in 1 .. Len(m_free_list) /\ j + 1 \in 1 .. Len(m_free_list)
          BY <3>1
        <4>2. i + 1 = j + 1
          BY <3>1, <3>2, <4>1 DEF Exclusive
        <4> QED
          BY <4>2
      <3> QED
        BY <3>2
    <2> QED
      BY <1>1, <2>0, <2>1, <2>2, <2>3, <2>4, FreeTaken DEF Exclusive, InFreeList
  <1>2. ASSUME NEW c \in Clients, GetOpen(c) PROVE Exclusive'
    <2>1. CASE UNCHANGED pConn
      BY <1>2, <2>1, OpenCases DEF Exclusive, InFreeList
    <2>2. CASE m_cur_conn_cnt + 1 \in Conns /\ pConn' = [pConn EXCEPT ![c] = m_cur_conn_cnt + 1]
      <3>1. ~deleted /\ m_free_list' = <<>>
        BY <1>2, OpenCases
      <3>2. \A d \in Clients : pConn[d] # m_cur_conn_cnt + 1
        BY <2>2, <3>1 DEF Underway, TypeOK
      <3>3. \A d \in Clients : pConn'[d] = IF d = c THEN m_cur_conn_cnt + 1 ELSE pConn[d]
        BY <2>2 DEF TypeOK
      <3> QED
        BY <3>1, <3>2, <3>3 DEF Exclusive, InFreeList
    <2> QED
      BY <1>2, <2>1, <2>2, OpenCases
  <1>3. ASSUME NEW c \in Clients, RelCacheConn(c) PROVE Exclusive'
    <2>0. PICK k : k = pConn[c]
      OBVIOUS
    <2>1. \A i, j \in 1 .. Len(m_free_list') : m_free_list'[i] = m_free_list'[j] => i = j
      <3>1. /\ Len(m_free_list') = Len(m_free_list) + 1 /\ Len(m_free_list) \in Nat
            /\ \A i \in 1 .. Len(m_free_list) : /\ m_free_list'[i] = m_free_list[i]
                                                /\ m_free_list[i] # k
            /\ m_free_list'[Len(m_free_list) + 1] = k
        BY <1>3, <2>0, Released DEF InFreeList
      <3>2. \A i \in 1 .. Len(m_free_list') :
              i = Len(m_free_list) + 1 \/ i \in 1 .. Len(m_free_list)
        BY <3>1
      <3> QED
        BY <3>1, <3>2 DEF Exclusive
    <2>2. \A d \in Clients \ {c} : pConn[d] # k
      BY <1>3, <2>0, Released DEF Exclusive
    <2>3. \A d \in Clients : \A i \in 1 .. Len(m_free_list') : m_free_list'[i] # pConn'[d]
      BY <1>0, <1>3, <2>0, <2>2, Released DEF Exclusive, InFreeList
    <2>4. \A d, e \in Clients : pConn'[d] = pConn'[e] /\ pConn'[d] # NULL => d = e
      BY <1>3, <2>0, Released DEF Exclusive
    <2> QED
      BY <2>1, <2>3, <2>4 DEF Exclusive, InFreeList
  <1>4. CASE DeletePool
    BY <1>4 DEF DeletePool, Exclusive, InFreeList
  <1>5. CASE UNCHANGED places
    BY <1>5 DEF places, Exclusive, InFreeList
  <1> QED
    BY <1>1, <1>2, <1>3, <1>4, <1>5, StepsThatMove

-----------------------------------------------------------------------------
(* The calls, and the condition variable                                    *)

LEMMA UnderwayStep == Inv /\ [Next]_vars => Underway'
  <1> SUFFICES ASSUME Inv, [Next]_vars PROVE Underway'
    OBVIOUS
  <1> USE MaxOpenBounds DEF Inv
  <1>1. ASSUME NEW c \in Clients, CallGetCacheConn(c) PROVE Underway'
    BY <1>1 DEF CallGetCacheConn, connVars, Underway, TypeOK
  <1>2. ASSUME NEW c \in Clients, GetFree(c) PROVE Underway'
    <2>0. PICK k : k = Head(m_free_list)
      OBVIOUS
    <2>1. /\ k <= m_cur_conn_cnt
          /\ \A i \in 1 .. Len(m_free_list') : m_free_list'[i] <= m_cur_conn_cnt
      BY <1>2, <2>0, FreeTaken, SMTT(30) DEF Underway
    <2>2. /\ \A d \in Clients : /\ pConn'[d] = IF d = c THEN k ELSE pConn[d]
                                /\ pc'[d] = IF d = c THEN "have" ELSE pc[d]
          /\ pc[c] = "lock" /\ k # NULL /\ ~deleted
          /\ UNCHANGED <<m_cur_conn_cnt, deleted, calls, m_pContext>>
      BY <1>2, <2>0, FreeTaken
    <2>3. \A d \in Clients : /\ pConn'[d] # NULL => pc'[d] \in {"have", "undefined"}
                             /\ pc'[d] = "have" => pConn'[d] # NULL
                             /\ pc'[d] \in {"lock", "wait", "have"} => calls'[d] \in 1 .. Calls
      BY <2>2 DEF Underway
    <2>4. \A d \in Clients : pConn'[d] # NULL => pConn'[d] <= m_cur_conn_cnt
      BY <2>1, <2>2 DEF Underway
    <2>5. \A j \in Conns : j > m_cur_conn_cnt' => m_pContext'[j] = NULL
      BY <2>2 DEF Underway
    <2> QED
      BY <2>1, <2>2, <2>3, <2>4, <2>5 DEF Underway
  <1>3. ASSUME NEW c \in Clients, GetWait(c) \/ SpuriousWakeup(c) \/ UseAfterDelete(c)
        PROVE  Underway'
    <2>1. PICK label \in {"lock", "wait", "undefined"} :
            /\ pc' = [pc EXCEPT ![c] = label]
            /\ label # "undefined" => pc[c] \in {"lock", "wait"}
      BY <1>3 DEF GetWait, SpuriousWakeup, UseAfterDelete
    <2>2. UNCHANGED <<connVars, m_free_list, m_cur_conn_cnt, deleted, pConn, calls>>
      BY <1>3 DEF GetWait, SpuriousWakeup, UseAfterDelete
    <2> QED
      BY <2>1, <2>2 DEF connVars, Underway, TypeOK
  <1>4. ASSUME NEW c \in Clients, GetOpen(c) PROVE Underway'
    <2>1. CASE m_cur_conn_cnt' = m_cur_conn_cnt
      <3>1. /\ pc' = [pc EXCEPT ![c] = "undefined"] /\ ~deleted
            /\ UNCHANGED <<m_free_list, deleted, calls, m_cur_conn_cnt, pConn, m_pContext>>
        BY <1>4, <2>1, OpenCases DEF TypeOK
      <3> QED
        BY <3>1 DEF Underway, TypeOK
    <2>2. CASE m_cur_conn_cnt' = m_cur_conn_cnt + 1
      <3>1. /\ m_cur_conn_cnt + 1 \in Conns /\ pc[c] = "lock" /\ ~deleted
            /\ UNCHANGED <<m_free_list, deleted, calls>> /\ m_free_list = <<>>
            /\ \A d \in Clients : /\ pConn'[d] = IF d = c THEN m_cur_conn_cnt + 1 ELSE pConn[d]
                                  /\ pc'[d] = IF d = c THEN "have" ELSE pc[d]
            /\ \A j \in Conns : j # m_cur_conn_cnt + 1 => m_pContext'[j] = m_pContext[j]
        BY <1>4, <2>2, OpenCases DEF TypeOK
      <3>2. \A d \in Clients : pConn'[d] # NULL => pConn'[d] <= m_cur_conn_cnt + 1
        BY <3>1 DEF Underway, TypeOK
      <3> QED
        BY <2>2, <3>1, <3>2 DEF Underway, TypeOK
    <2> QED
      BY <1>4, <2>1, <2>2, OpenCases
  <1>5. ASSUME NEW c \in Clients, Use(c) PROVE Underway'
    <2>1. pConn[c] \in Conns
      BY <1>5 DEF Use, Underway, TypeOK
    <2>2. \A j \in Conns : j # pConn[c] => m_pContext'[j] = m_pContext[j]
      BY <1>5, <2>1, CommandKeeps DEF Use, TypeOK
    <2>3. UNCHANGED <<m_free_list, m_cur_conn_cnt, deleted, pc, pConn, calls>>
      BY <1>5 DEF Use, poolVars
    <2>4. ASSUME ~deleted, NEW j \in Conns, j > m_cur_conn_cnt PROVE m_pContext'[j] = NULL
      <3>1. m_pContext[j] = NULL /\ pConn[c] <= m_cur_conn_cnt
        BY <2>1, <2>4, MaxOpenBounds DEF Underway
      <3>2. j # pConn[c]
        BY <2>1, <2>4, <3>1 DEF TypeOK
      <3> QED
        BY <2>2, <3>1, <3>2
    <2> QED
      BY <2>3, <2>4 DEF Underway
  <1>6. ASSUME NEW c \in Clients, RelCacheConn(c) PROVE Underway'
    <2>0. PICK k : k = pConn[c]
      OBVIOUS
    <2>1. \A i \in 1 .. Len(m_free_list') : m_free_list'[i] <= m_cur_conn_cnt
      BY <1>6, <2>0, Released DEF Underway
    <2>2. PICK woken \in RelSignals : Move(c, "idle", woken)
      BY <1>6 DEF RelCacheConn
    <2>3. \A d \in Clients : pc'[d] = IF d = c THEN "idle"
                                      ELSE IF d \in woken THEN "lock" ELSE pc[d]
      BY <2>2 DEF Move
    <2>4. \A d \in woken : d \in Clients /\ pc[d] = "wait"
      BY DEF RelSignals, Signal, Waiting
    <2> QED
      BY <1>6, <2>0, <2>1, <2>3, <2>4, Released DEF Underway
  <1>7. CASE DeletePool
    BY <1>7 DEF DeletePool, Underway
  <1>8. CASE (Tick \/ Heal) /\ UNCHANGED poolVars
    BY <1>8 DEF Tick, Heal, poolVars, Underway
  <1>9. CASE UNCHANGED vars
    BY <1>9 DEF vars, poolVars, connVars, Underway
  <1> QED
    BY <1>1, <1>2, <1>3, <1>4, <1>5, <1>6, <1>7, <1>8, <1>9
    DEF Next, GetCacheConn, Terminating

\* One more to look at the list, one less.
LEMMA Counting ==
  ASSUME NEW c
  PROVE  /\ Cardinality(Resuming) \in Nat /\ Cardinality(Resuming') \in Nat
         /\ Resuming \subseteq Resuming' => Cardinality(Resuming) <= Cardinality(Resuming')
         /\ Resuming \ {c} \subseteq Resuming' =>
               Cardinality(Resuming) - 1 <= Cardinality(Resuming')
         /\ Resuming \cup {c} \subseteq Resuming' /\ c \notin Resuming =>
               Cardinality(Resuming) + 1 <= Cardinality(Resuming')
  <1>1. IsFiniteSet(Resuming) /\ IsFiniteSet(Resuming')
    <2>1. Resuming \subseteq Clients /\ Resuming' \subseteq Clients
      BY DEF Resuming
    <2> QED
      BY <2>1, ClientsAssumption, FS_Subset
  <1>2. Cardinality(Resuming) \in Nat /\ Cardinality(Resuming') \in Nat
    BY <1>1, FS_CardinalityType
  <1>3. \A S : S \subseteq Resuming' => Cardinality(S) <= Cardinality(Resuming')
    BY <1>1, FS_Subset
  <1>4. Resuming \ {c} \subseteq Resuming' => Cardinality(Resuming) - 1 <= Cardinality(Resuming')
    <2>1. Cardinality(Resuming \ {c}) =
            IF c \in Resuming THEN Cardinality(Resuming) - 1 ELSE Cardinality(Resuming)
      BY <1>1, FS_RemoveElement
    <2>2. Resuming \ {c} \subseteq Resuming' =>
            Cardinality(Resuming \ {c}) <= Cardinality(Resuming')
      BY <1>3
    <2> QED
      BY <2>1, <2>2, <1>2
  <1>5. Resuming \cup {c} \subseteq Resuming' /\ c \notin Resuming =>
          Cardinality(Resuming) + 1 <= Cardinality(Resuming')
    <2>1. c \notin Resuming => Cardinality(Resuming \cup {c}) = Cardinality(Resuming) + 1
      BY <1>1, FS_AddElement
    <2>2. Resuming \cup {c} \subseteq Resuming' =>
            Cardinality(Resuming \cup {c}) <= Cardinality(Resuming')
      BY <1>3
    <2> QED
      BY <2>1, <2>2
  <1> QED
    BY <1>2, <1>3, <1>4, <1>5

LEMMA WakeupStep == Inv /\ [Next]_vars => NoMissedWakeup'
  <1> SUFFICES ASSUME Inv, [Next]_vars PROVE NoMissedWakeup'
    OBVIOUS
  <1>0. TypeOK /\ NoMissedWakeup /\ Len(m_free_list) \in Nat /\ Len(<<>>) = 0
    BY DEF Inv, TypeOK
  <1> USE <1>0
  <1>1. ASSUME NEW c \in Clients, CallGetCacheConn(c) PROVE NoMissedWakeup'
    <2>1. Waiting' = Waiting /\ Resuming \subseteq Resuming'
      BY <1>1 DEF CallGetCacheConn, Waiting, Resuming, TypeOK
    <2>2. UNCHANGED <<m_free_list, MayOpen>>
      BY <1>1 DEF CallGetCacheConn, MayOpen
    <2> QED
      BY <2>1, <2>2, Counting DEF NoMissedWakeup
  <1>2. ASSUME NEW c \in Clients, GetFree(c) PROVE NoMissedWakeup'
    <2>1. Waiting' \subseteq Waiting /\ Resuming \ {c} \subseteq Resuming'
      BY <1>2 DEF GetFree, Lease, Waiting, Resuming, TypeOK
    <2>2. Len(m_free_list') = Len(m_free_list) - 1 /\ MayOpen' = MayOpen
      BY <1>2, TailOfList DEF GetFree, Popped, MayOpen, TypeOK
    <2>3. /\ Cardinality(Resuming) - 1 <= Cardinality(Resuming')
          /\ Cardinality(Resuming) \in Nat /\ Cardinality(Resuming') \in Nat
      BY <2>1, Counting
    <2>4. CASE Waiting # {}
      <3>1. ~MayOpen' /\ Len(m_free_list) <= Cardinality(Resuming)
        BY <2>2, <2>4 DEF NoMissedWakeup
      <3>2. Len(m_free_list') <= Cardinality(Resuming')
        BY <2>2, <2>3, <3>1
      <3> QED
        BY <3>1, <3>2 DEF NoMissedWakeup
    <2> QED
      BY <2>1, <2>4 DEF NoMissedWakeup
  <1>3. ASSUME NEW c \in Clients, GetWait(c) PROVE NoMissedWakeup'
    <2>1. m_free_list' = <<>> /\ ~MayOpen'
      BY <1>3 DEF GetWait, MayOpen
    <2> QED
      BY <2>1, Counting DEF NoMissedWakeup
  <1>4. ASSUME NEW c \in Clients, GetOpen(c) PROVE NoMissedWakeup'
    <2>1. Waiting' = {}
      BY <1>4, OpenCases DEF Waiting, TypeOK, NoMissedWakeup
    <2> QED
      BY <2>1 DEF NoMissedWakeup
  <1>5. ASSUME NEW c \in Clients, Use(c) PROVE NoMissedWakeup'
    BY <1>5 DEF Use, poolVars, Waiting, Resuming, MayOpen, NoMissedWakeup
  <1>6. ASSUME NEW c \in Clients, RelCacheConn(c) PROVE NoMissedWakeup'
    <2>1. PICK woken \in Signal : Move(c, "idle", woken)
      BY <1>6 DEF RelCacheConn, RelSignals
    <2>2. pc[c] = "have"
      BY <1>6 DEF RelCacheConn
    <2>3. Waiting' = Waiting \ woken /\ Resuming' = Resuming \cup woken
      BY <2>1, <2>2 DEF Signal, Move, Waiting, Resuming, TypeOK
    <2>4. Len(m_free_list') = Len(m_free_list) + 1 /\ MayOpen' = MayOpen
      BY <1>6, Released DEF MayOpen
    <2>5. CASE Waiting = {}
      BY <2>3, <2>5 DEF NoMissedWakeup
    <2>6. CASE Waiting # {}
      <3>1. PICK d \in Waiting : woken = {d}
        BY <2>1, <2>6 DEF Signal
      <3>2. d \notin Resuming
        BY <3>1 DEF Waiting, Resuming
      <3>3. Resuming \cup {d} \subseteq Resuming'
        BY <2>3, <3>1
      <3>4. Cardinality(Resuming) + 1 <= Cardinality(Resuming')
        BY <3>2, <3>3, Counting
      <3>5. Cardinality(Resuming) \in Nat /\ Cardinality(Resuming') \in Nat
        BY Counting
      <3> QED
        BY <2>4, <2>6, <3>4, <3>5 DEF NoMissedWakeup
    <2> QED
      BY <2>5, <2>6
  <1>7. ASSUME NEW c \in Clients, UseAfterDelete(c) PROVE NoMissedWakeup'
    <2>1. Waiting' = {}
      BY <1>7 DEF UseAfterDelete, Waiting, Inv, Underway, TypeOK
    <2> QED
      BY <2>1 DEF NoMissedWakeup
  <1>8. ASSUME NEW c \in Clients, SpuriousWakeup(c) PROVE NoMissedWakeup'
    <2>1. Waiting' \subseteq Waiting /\ Resuming \subseteq Resuming'
      BY <1>8 DEF SpuriousWakeup, Waiting, Resuming, TypeOK
    <2>2. UNCHANGED <<m_free_list, MayOpen>>
      BY <1>8 DEF SpuriousWakeup, MayOpen
    <2> QED
      BY <2>1, <2>2, Counting DEF NoMissedWakeup
  <1>9. CASE DeletePool
    BY <1>9 DEF DeletePool, Waiting, NoMissedWakeup
  <1>10. ASSUME UNCHANGED poolVars PROVE NoMissedWakeup'
    BY <1>10 DEF poolVars, Waiting, Resuming, MayOpen, NoMissedWakeup
  <1> QED
    <2>1. CASE Next
      BY <2>1, <1>1, <1>2, <1>3, <1>4, <1>5, <1>6, <1>7, <1>8, <1>9, <1>10
      DEF Next, GetCacheConn, Terminating, vars
    <2>2. CASE UNCHANGED vars
      BY <2>2, <1>10 DEF vars
    <2> QED
      BY <2>1, <2>2

-----------------------------------------------------------------------------
(* The invariant                                                            *)

LEMMA InitInv == Init => Inv
  <1> SUFFICES ASSUME Init PROVE Inv
    OBVIOUS
  <1> USE MaxOpenBounds, NullAssumption
  <1>1. /\ Len(m_free_list) = MIN_CACHE_CONN_CNT
        /\ \A i \in 1 .. Len(m_free_list) : m_free_list[i] = i
    BY DEF Init
  <1>2. Exclusive
    BY <1>1 DEF Init, Exclusive, InFreeList
  <1>3. NoMissedWakeup
    BY DEF Init, NoMissedWakeup, Waiting
  <1>4. ContextsOwned
    <2>1. Live = 1 .. MIN_CACHE_CONN_CNT
      BY DEF Init, Live
    <2>2. Cardinality(1 .. MIN_CACHE_CONN_CNT) = MIN_CACHE_CONN_CNT
      BY FS_Interval
    <2> QED
      BY <2>1, <2>2 DEF Init, ContextsOwned, Live
  <1>5. Underway
    BY <1>1 DEF Init, Underway
  <1> QED
    BY <1>2, <1>3, <1>4, <1>5, InitTyped DEF Inv

LEMMA Invariance == SafetySpec => []Inv
  <1>1. Inv /\ [Next]_vars => Inv'
    BY NextTyped, ExclusiveStep, WakeupStep, UnderwayStep DEF Inv
  <1> QED
    BY <1>1, InitInv, PTL DEF SafetySpec

\* The lists and counters of the pool and of its connections stay within their
\* bounds (CachePool.cpp:720-820).
THEOREM PoolTyped == Spec => []TypeOK
  BY Invariance, PTL DEF Spec, Inv

\* No connection is with two clients, or in the free list as well, or twice in it
\* (CachePool.cpp:742-820).
THEOREM ConnectionsExclusive == Spec => []Exclusive
  BY Invariance, PTL DEF Spec, Inv

\* Under one mutex one signal for each connection given back is enough, whoever
\* else takes the connection first (CachePool.cpp:742-820).
THEOREM WakeupsReachWaiters == Spec => []NoMissedWakeup
  BY Invariance, PTL DEF Spec, Inv

\* The hiredis contexts that live are those the connections keep, whatever fails in
\* setting them up and whichever connections the pool deletes (CachePool.cpp:28-147).
THEOREM NoContextLost == Spec => []ContextsOwned
  BY Invariance, PTL DEF Spec, Inv

-----------------------------------------------------------------------------
(* The refinement of LeasePool                                              *)

LEMMA HeldBy ==
  ASSUME NEW k \in Conns, NEW c \in Clients, pConn[c] = k, Exclusive
  PROVE  Owner(k) = c
  <1>1. \A d \in Clients : pConn[d] = k => d = c
    BY MaxOpenBounds DEF Exclusive
  <1> QED
    BY <1>1 DEF Owner

LEMMA HeldByAfter ==
  ASSUME NEW k \in Conns, NEW c \in Clients, pConn'[c] = k, Exclusive'
  PROVE  Owner(k)' = c
  <1>1. \A d \in Clients : pConn'[d] = k => d = c
    BY MaxOpenBounds DEF Exclusive
  <1> QED
    BY <1>1 DEF Owner

\* Whoever has nothing owns nothing: the other values are no clients.
LEMMA OwnsNothing ==
  ASSUME NEW c \in Clients, pConn[c] = NULL, Exclusive
  PROVE  \A k \in Conns : Owner(k) # c
  <1> SUFFICES ASSUME NEW k \in Conns PROVE Owner(k) # c
    OBVIOUS
  <1>1. k # NULL
    BY MaxOpenBounds
  <1>2. CASE \E d \in Clients : pConn[d] = k
    BY <1>1, <1>2, HeldBy
  <1>3. CASE ~\E d \in Clients : pConn[d] = k
    BY <1>3, ClientsAssumption DEF Owner
  <1> QED
    BY <1>2, <1>3

\* A step that touches neither the holders of a connection nor its place.
LEMMA SameOwner ==
  ASSUME NEW k \in Conns, InFreeList(k)' <=> InFreeList(k),
         \A d \in Clients : pConn'[d] = k <=> pConn[d] = k
  PROVE  Owner(k)' = Owner(k)
  <1>1. (CHOOSE d \in Clients : pConn'[d] = k) = (CHOOSE d \in Clients : pConn[d] = k)
    OBVIOUS
  <1> QED
    BY <1>1 DEF Owner

LEMMA LeaseStep == Inv /\ [Next]_vars => [LeaseSpec!Next]_LeaseSpec!vars
  <1> SUFFICES ASSUME Inv, [Next]_vars PROVE [LeaseSpec!Next]_LeaseSpec!vars
    OBVIOUS
  <1>0. Exclusive /\ Exclusive'
    BY ExclusiveStep DEF Inv
  <1>1. ASSUME NEW c \in Clients, GetFree(c) PROVE [LeaseSpec!Next]_LeaseSpec!vars
    <2>0. PICK k : k = Head(m_free_list)
      OBVIOUS
    <2>1. /\ Len(m_free_list') = Len(m_free_list) - 1 /\ Len(m_free_list) \in Nat \ {0}
          /\ \A i \in 1 .. Len(m_free_list') : m_free_list'[i] = m_free_list[i + 1]
          /\ k = m_free_list[1] /\ k \in Conns
          /\ \A d \in Clients : pConn'[d] = IF d = c THEN k ELSE pConn[d]
          /\ pConn[c] = NULL /\ ~deleted /\ deleted' = deleted
      BY <1>1, <2>0, FreeTaken
    <2>2. ASSUME NEW j \in Conns, j # k PROVE Owner(j)' = Owner(j)
      <3>1. InFreeList(j)' <=> InFreeList(j)
        <4>1. ASSUME NEW i \in 1 .. Len(m_free_list), m_free_list[i] = j
              PROVE  i - 1 \in 1 .. Len(m_free_list') /\ m_free_list'[i - 1] = j
          BY <2>1, <2>2, <4>1
        <4>2. ASSUME NEW i \in 1 .. Len(m_free_list'), m_free_list'[i] = j
              PROVE  i + 1 \in 1 .. Len(m_free_list) /\ m_free_list[i + 1] = j
          BY <2>1, <4>2
        <4> QED
          BY <4>1, <4>2 DEF InFreeList
      <3>2. \A d \in Clients : pConn'[d] = j <=> pConn[d] = j
        BY <2>1, <2>2, MaxOpenBounds
      <3> QED
        BY <3>1, <3>2, SameOwner
    <2>3. Owner(k) = "idle"
      <3>1. InFreeList(k)
        BY <2>1 DEF InFreeList
      <3>2. \A d \in Clients : pConn[d] # k
        BY <1>0, <3>1 DEF Exclusive
      <3> QED
        BY <3>1, <3>2 DEF Owner
    <2>4. Owner(k)' = c
      <3>1. pConn'[c] = k
        BY <2>1
      <3> QED
        BY <1>0, <2>1, <3>1, HeldByAfter
    <2>5. \A j \in Conns : Owner(j) # c
      BY <1>0, <2>1, OwnsNothing
    <2>6. LeaseSpec!Lease(c, k)
      BY <2>1, <2>2, <2>3, <2>4, <2>5 DEF LeaseSpec!Lease, LeaseSpec!HasNone
    <2> QED
      BY <2>1, <2>6 DEF LeaseSpec!Next
  <1>2. ASSUME NEW c \in Clients, GetOpen(c) PROVE [LeaseSpec!Next]_LeaseSpec!vars
    <2>0. PICK k : k = m_cur_conn_cnt + 1
      OBVIOUS
    <2>1. UNCHANGED <<m_free_list, deleted>> /\ ~deleted /\ m_free_list = <<>> /\ pc[c] = "lock"
      BY <1>2, OpenCases
    <2>2. CASE UNCHANGED pConn
      <3>1. \A j \in Conns : Owner(j)' = Owner(j)
        BY <2>1, <2>2 DEF Owner, InFreeList
      <3> QED
        BY <2>1, <3>1 DEF LeaseSpec!vars
    <2>3. CASE k \in Conns /\ pConn' = [pConn EXCEPT ![c] = k]
      <3>1. \A d \in Clients : pConn'[d] = IF d = c THEN k ELSE pConn[d]
        BY <2>3 DEF Inv, TypeOK
      <3>2. pConn[c] = NULL /\ \A d \in Clients : pConn[d] # k
        BY <2>0, <2>1, <2>3, MaxOpenBounds DEF Inv, Underway, TypeOK
      <3>3. ASSUME NEW j \in Conns, j # k PROVE Owner(j)' = Owner(j)
        <4>1. InFreeList(j)' <=> InFreeList(j)
          BY <2>1 DEF InFreeList
        <4>2. \A d \in Clients : pConn'[d] = j <=> pConn[d] = j
          BY <3>1, <3>2, <3>3, MaxOpenBounds
        <4> QED
          BY <4>1, <4>2, SameOwner
      <3>4. Owner(k) = "none"
        BY <2>1, <3>2 DEF Owner, InFreeList
      <3>5. Owner(k)' = c
        <4>1. pConn'[c] = k
          BY <3>1
        <4> QED
          BY <1>0, <2>3, <4>1, HeldByAfter
      <3>6. \A j \in Conns : Owner(j) # c
        BY <1>0, <3>2, OwnsNothing
      <3>7. LeaseSpec!Lease(c, k)
        BY <2>1, <2>3, <3>3, <3>4, <3>5, <3>6 DEF LeaseSpec!Lease, LeaseSpec!HasNone
      <3> QED
        BY <2>3, <3>7 DEF LeaseSpec!Next
    <2> QED
      BY <1>2, <2>0, <2>2, <2>3, OpenCases
  <1>3. ASSUME NEW c \in Clients, RelCacheConn(c) PROVE [LeaseSpec!Next]_LeaseSpec!vars
    <2>0. PICK k : k = pConn[c]
      OBVIOUS
    <2>1. /\ Len(m_free_list') = Len(m_free_list) + 1 /\ Len(m_free_list) \in Nat
          /\ \A i \in 1 .. Len(m_free_list) : m_free_list'[i] = m_free_list[i]
          /\ m_free_list'[Len(m_free_list) + 1] = k
          /\ k \in Conns /\ deleted' = deleted
          /\ \A d \in Clients : pConn'[d] = IF d = c THEN NULL ELSE pConn[d]
      BY <1>3, <2>0, Released
    <2>2. ASSUME NEW j \in Conns, j # k PROVE Owner(j)' = Owner(j)
      <3>1. InFreeList(j)' <=> InFreeList(j)
        BY <2>1, <2>2 DEF InFreeList
      <3>2. \A d \in Clients : pConn'[d] = j <=> pConn[d] = j
        BY <2>0, <2>1, <2>2, MaxOpenBounds
      <3> QED
        BY <3>1, <3>2, SameOwner
    <2>3. Owner(k) = c
      BY <1>0, <2>0, <2>1, HeldBy
    <2>4. Owner(k)' = "idle"
      <3>1. InFreeList(k)'
        BY <2>1 DEF InFreeList
      <3>2. \A d \in Clients : pConn'[d] # k
        BY <1>0, <2>0, <2>1, MaxOpenBounds DEF Exclusive
      <3> QED
        BY <3>1, <3>2 DEF Owner
    <2>5. LeaseSpec!Return(c, k)
      BY <2>1, <2>2, <2>3, <2>4 DEF LeaseSpec!Return
    <2> QED
      BY <2>1, <2>5 DEF LeaseSpec!Next
  <1>4. CASE DeletePool
    <2>1. ~deleted /\ deleted' /\ m_free_list' = <<>> /\ pConn' = pConn
      BY <1>4 DEF DeletePool
    <2>2. ASSUME NEW k \in Conns
          PROVE  Owner(k)' = IF Owner(k) = "idle" THEN "none" ELSE Owner(k)
      <3>1. ~InFreeList(k)'
        BY <2>1 DEF InFreeList
      <3>2. ASSUME NEW c \in Clients, pConn[c] = k
            PROVE  Owner(k) = c /\ Owner(k)' = c /\ c # "idle"
        BY <2>1, <3>2, <1>0, HeldBy, HeldByAfter, ClientsAssumption
      <3>3. CASE ~\E c \in Clients : pConn[c] = k
        BY <2>1, <3>1, <3>3 DEF Owner
      <3> QED
        BY <3>2, <3>3
    <2>3. LeaseSpec!Close
      BY <1>4, <2>1, <2>2 DEF LeaseSpec!Close, DeletePool
    <2> QED
      BY <2>3 DEF LeaseSpec!Next
  <1>5. CASE UNCHANGED places
    <2>1. \A k \in Conns : Owner(k)' = Owner(k)
      BY <1>5 DEF places, Owner, InFreeList
    <2> QED
      BY <1>5, <2>1 DEF places, LeaseSpec!vars
  <1> QED
    BY <1>1, <1>2, <1>3, <1>4, <1>5, StepsThatMove

LEMMA LeaseInit == Init => LeaseSpec!Init
  <1> SUFFICES ASSUME Init PROVE LeaseSpec!Init
    OBVIOUS
  <1>1. \A k \in Conns : Owner(k) \in {"none", "idle"}
    BY MaxOpenBounds DEF Init, Owner
  <1> QED
    BY <1>1 DEF Init, LeaseSpec!Init

\* Whatever fails and whoever waits, the pool leases a connection to one client at a
\* time, takes it from the client that has it, and deletes only those nobody has
\* (CachePool.cpp:720-820).
THEOREM PoolImplementsLease == Spec => ImplementsLease
  <1>1. SafetySpec => LeaseSpec!Spec
    BY InitInv, Invariance, LeaseInit, LeaseStep, PTL DEF SafetySpec, LeaseSpec!Spec
  <1> QED
    BY <1>1 DEF Spec, ImplementsLease

-----------------------------------------------------------------------------
(* The client as the runs compose it                                       *)

Places == {"idle", "ready", "vector", "replied", "unreplied"}
Values == {"", "text"} \cup BOOLEAN \cup Int

\* The replies a command may meet.
Met(name) == Commands!Answers(name) \cup {Commands!ErrorReply}

ReplyTypes == {"status", "string", "nil", "array", "integer", "error", "none"}
ReplyRecords == [type : ReplyTypes, integer : Int]

CallTyped ==
  call \in [name : Commands!Names, at : Places, reply : ReplyRecords, value : Values]

\* A call has what it took and has not given back, and its value is that of the way
\* it went.
HasVector == \/ call.at = "vector"
             \/ call.at \in {"replied", "unreplied"} /\ call.name \in Commands!Vectors

CommandInv ==
  /\ CallTyped
  /\ lost \in Nat
  /\ call.at = "replied" => replies = lost + 1
  /\ call.at # "replied" => replies = lost
  /\ HasVector => argvs = 1
  /\ ~HasVector => argvs = 0
  /\ call.at = "vector" => call.name \in Commands!Vectors
  /\ call.at # "idle" => m_pContext[1] # NULL
  /\ call.at \in {"ready", "vector", "unreplied"} => call.reply = Commands!NoReply
  /\ call.at = "replied" => call.reply \in Met(call.name)
  /\ call.at = "idle" =>
       \/ call.reply = Commands!NoReply /\ call.value = Commands!Failure(call.name)
       \/ /\ call.reply \in Met(call.name)
          /\ call.value = Commands!Value(call.name, call.reply)

\* Connections that are used without the pool may have a context before the pool
\* would open them; all else holds of every part.
PartsInv == /\ TypeOK /\ Exclusive /\ NoMissedWakeup /\ ContextsOwned
            /\ part = "pool" => Underway
            /\ CommandInv
            /\ part # "commands" => call.at = "idle"

-----------------------------------------------------------------------------
(* The commands                                                             *)

\* The kinds of commands, one by one.
LEMMA NamesAre ==
  ASSUME NEW name \in Commands!Names
  PROVE  name \in {"get", "hget", "set", "setex", "hmset", "mget", "hgetAll", "hmget", "lrange",
                   "del", "hdel", "hset", "hincrBy", "incrBy", "incr", "decr", "lpush", "rpush",
                   "llen", "isExists", "flushdb"}
  BY DEF Commands!Names, Commands!Found, Commands!Texts, Commands!Done, Commands!Counted,
         Commands!Numbers

LEMMA ReplyIs ==
  ASSUME NEW type \in ReplyTypes, NEW integer \in Int
  PROVE  /\ Commands!Reply(type, integer).type = type
         /\ Commands!Reply(type, integer).integer = integer
         /\ Commands!Reply(type, integer) \in ReplyRecords
  BY DEF Commands!Reply, ReplyRecords

\* What the server answers each kind of command.
LEMMA AnswersAre ==
  ASSUME NEW name \in Commands!Names, NEW reply \in Commands!Answers(name)
  PROVE  \E type \in {"status", "string", "nil", "array", "integer"}, i \in {-1, 0, 1} :
           /\ reply = Commands!Reply(type, i)
           /\ name \in Commands!Texts => type = "status"
           /\ name \in {"hset", "lpush", "rpush", "llen"} => i \in {0, 1}
  <1> USE DEF Commands!Found, Commands!Texts, Commands!Done, Commands!Counted
  <1>1. CASE name \in {"get", "hget"}
    <2>1. Commands!Answers(name) = {Commands!Reply("string", 0), Commands!Reply("nil", 0)}
      BY <1>1 DEF Commands!Answers
    <2> QED
      BY <1>1, <2>1
  <1>2. CASE name \in {"set", "setex", "hmset", "flushdb"}
    <2>1. Commands!Answers(name) = {Commands!Reply("status", 0)}
      BY <1>2 DEF Commands!Answers
    <2> QED
      BY <1>2, <2>1
  <1>3. CASE name \in {"mget", "hgetAll", "hmget", "lrange"}
    <2>1. Commands!Answers(name) = {Commands!Reply("array", 0)}
      BY <1>3 DEF Commands!Answers
    <2> QED
      BY <1>3, <2>1
  <1>4. CASE name \in {"del", "hdel", "isExists", "hset", "lpush", "rpush", "llen"}
    <2>1. Commands!Answers(name) = {Commands!Reply("integer", i) : i \in {0, 1}}
      BY <1>4 DEF Commands!Answers
    <2>2. PICK i \in {0, 1} : reply = Commands!Reply("integer", i)
      BY <2>1
    <2> QED
      BY <1>4, <2>2
  <1>5. CASE name \in {"hincrBy", "incrBy", "incr", "decr"}
    <2>1. Commands!Answers(name) = {Commands!Reply("integer", i) : i \in {-1, 0, 1}}
      BY <1>5 DEF Commands!Answers
    <2>2. PICK i \in {-1, 0, 1} : reply = Commands!Reply("integer", i)
      BY <2>1
    <2> QED
      BY <1>5, <2>2
  <1> QED
    BY <1>1, <1>2, <1>3, <1>4, <1>5, NamesAre

\* An error is a reply to any of them.
LEMMA MetAre ==
  ASSUME NEW name \in Commands!Names, NEW reply \in Met(name)
  PROVE  /\ reply \in ReplyRecords /\ reply.type # "none" /\ reply.integer \in Int
         /\ name \in Commands!Texts => reply.type \in {"status", "error"}
         /\ name \in {"hset", "lpush", "rpush", "llen"} => reply.integer \in {0, 1}
  <1>1. PICK type \in {"status", "string", "nil", "array", "integer", "error"},
             i \in {-1, 0, 1} :
           /\ reply = Commands!Reply(type, i)
           /\ name \in Commands!Texts => type \in {"status", "error"}
           /\ name \in {"hset", "lpush", "rpush", "llen"} => i \in {0, 1}
    BY AnswersAre DEF Met, Commands!ErrorReply
  <1>2. type \in ReplyTypes /\ i \in Int
    BY DEF ReplyTypes
  <1>3. reply.type = type /\ reply.integer = i /\ reply \in ReplyRecords
    BY <1>1, <1>2, ReplyIs
  <1> QED
    BY <1>1, <1>2, <1>3

LEMMA NoneIs ==
  Commands!NoReply \in ReplyRecords /\ Commands!NoReply.type = "none"
  BY ReplyIs DEF Commands!NoReply, ReplyTypes

LEMMA ValuesAre ==
  /\ "" \in Values /\ "text" \in Values /\ TRUE \in Values /\ FALSE \in Values
  /\ \A i \in Int : i \in Values
  <1>1. TRUE \in BOOLEAN /\ FALSE \in BOOLEAN
    BY Zenon
  <1>2. "" \in {"", "text"} /\ "text" \in {"", "text"}
    OBVIOUS
  <1> QED
    BY <1>1, <1>2, Zenon DEF Values

LEMMA FailureIs ==
  ASSUME NEW name \in Commands!Names
  PROVE  /\ Commands!Failure(name) \in Values
         /\ name \in Commands!Found \cup Commands!Texts => Commands!Failure(name) = ""
         /\ name \in Commands!Counted => Commands!Failure(name) = 0
         /\ name \in Commands!Numbers => Commands!Failure(name) = -1
         /\ name \notin Commands!Found \cup Commands!Texts \cup Commands!Counted
                        \cup Commands!Numbers => Commands!Failure(name) = FALSE
  <1> USE DEF Commands!Found, Commands!Texts, Commands!Counted, Commands!Numbers
  <1>0. -1 \in Int /\ 0 \in Int
    OBVIOUS
  <1>1. CASE name \in Commands!Found \cup Commands!Texts
    <2>1. Commands!Failure(name) = ""
      BY <1>1 DEF Commands!Failure
    <2> QED
      BY <1>1, <2>1, ValuesAre
  <1>2. CASE name \in Commands!Counted
    <2>1. Commands!Failure(name) = 0
      BY <1>2 DEF Commands!Failure
    <2> QED
      BY <1>0, <1>2, <2>1, ValuesAre
  <1>3. CASE name \in Commands!Numbers
    <2>1. Commands!Failure(name) = -1
      BY <1>3 DEF Commands!Failure
    <2> QED
      BY <1>0, <1>3, <2>1, ValuesAre
  <1>4. CASE name \notin Commands!Found \cup Commands!Texts \cup Commands!Counted
                        \cup Commands!Numbers
    <2>1. Commands!Failure(name) = FALSE
      BY <1>4, Zenon DEF Commands!Failure
    <2> QED
      BY <1>4, <2>1, ValuesAre, Zenon
  <1> QED
    BY <1>1, <1>2, <1>3, <1>4

\* A reply is told by a value of its own where the commands are ToldApart.
LEMMA ValueIs ==
  ASSUME NEW name \in Commands!Names, NEW reply \in Met(name)
  PROVE  /\ Commands!Value(name, reply) \in Values
         /\ name \in Commands!ToldApart => Commands!Value(name, reply) # Commands!Failure(name)
  <1>1. CASE name \in Commands!Found
    <2>1. Commands!Value(name, reply) = IF reply.type = "string" THEN "text" ELSE ""
      BY <1>1 DEF Commands!Value, Commands!Found, Commands!Texts, Commands!Done,
                  Commands!Counted, Commands!Numbers
    <2>2. name \notin Commands!ToldApart
      BY <1>1 DEF Commands!Found, Commands!ToldApart, Commands!Texts, Commands!Done
    <2> QED
      BY <2>1, <2>2, ValuesAre
  <1>2. CASE name \in Commands!Texts
    <2>1. name \notin Commands!Found /\ reply.type \in {"status", "error"}
      BY <1>2, MetAre DEF Commands!Found, Commands!Texts
    <2>2. Commands!Text(reply) = "text"
      BY <2>1 DEF Commands!Text
    <2>3. Commands!Value(name, reply) = Commands!Text(reply)
      BY <1>2, <2>1 DEF Commands!Value, Commands!Found, Commands!Texts, Commands!Done,
                        Commands!Counted, Commands!Numbers
    <2> QED
      BY <1>2, <2>2, <2>3, FailureIs, ValuesAre
  <1>3. CASE name \in Commands!Counted \cup Commands!Numbers
    <2>1. Commands!Value(name, reply) = reply.integer
      BY <1>3 DEF Commands!Value, Commands!Found, Commands!Texts, Commands!Done,
                  Commands!Counted, Commands!Numbers
    <2>2. reply.integer \in Int
      BY MetAre
    <2>3. name \in Commands!ToldApart => name \in {"hset", "lpush", "rpush", "llen"}
      BY <1>3 DEF Commands!ToldApart, Commands!Texts, Commands!Done, Commands!Counted,
                  Commands!Numbers
    <2>4. name \in Commands!ToldApart => Commands!Failure(name) = -1
      BY <2>3, FailureIs DEF Commands!Numbers
    <2>5. name \in Commands!ToldApart => reply.integer \in {0, 1}
      BY <2>3, MetAre
    <2>6. name \in Commands!ToldApart => Commands!Value(name, reply) # Commands!Failure(name)
      BY <2>1, <2>4, <2>5
    <2> QED
      BY <2>1, <2>2, <2>6, ValuesAre
  <1>4. CASE name \in Commands!Done
    <2>1. Commands!Value(name, reply) = TRUE
      BY <1>4, Zenon DEF Commands!Value, Commands!Found, Commands!Texts, Commands!Done,
                  Commands!Counted, Commands!Numbers
    <2>2. Commands!Failure(name) = FALSE
      BY <1>4, FailureIs DEF Commands!Done, Commands!Found, Commands!Texts, Commands!Counted,
                             Commands!Numbers
    <2> QED
      BY <2>1, <2>2, ValuesAre, Zenon
  <1>5. CASE name \in {"isExists", "flushdb"}
    <2>1. Commands!Value(name, reply) \in BOOLEAN
      BY <1>5 DEF Commands!Value, Commands!Found, Commands!Texts, Commands!Done,
                  Commands!Counted, Commands!Numbers
    <2>2. name \notin Commands!ToldApart
      BY <1>5 DEF Commands!ToldApart, Commands!Texts, Commands!Done
    <2> QED
      BY <2>1, <2>2, Zenon DEF Values
  <1> QED
    BY <1>1, <1>2, <1>3, <1>4, <1>5 DEF Commands!Names

\* What a call that has returned tells.
LEMMA ReturnedTells ==
  ASSUME CommandInv PROVE Commands!UnansweredNotTold
  <1> SUFFICES ASSUME call.at = "idle"
               PROVE  /\ call.reply.type = "none" =>
                           CASE call.name \in Commands!Found \cup Commands!Texts ->
                                  call.value = ""
                             [] call.name \in Commands!Counted \cup Commands!Numbers ->
                                  call.value <= 0
                             [] OTHER -> call.value = FALSE
                      /\ call.name \in Commands!ToldApart /\ call.reply.type # "none" =>
                           call.value # Commands!Failure(call.name)
    BY DEF Commands!UnansweredNotTold
  <1>1. call.name \in Commands!Names
    BY DEF CommandInv, HasVector, CallTyped
  <1>2. CASE call.reply = Commands!NoReply /\ call.value = Commands!Failure(call.name)
    <2>1. call.reply.type = "none"
      BY <1>2, NoneIs
    <2>2. CASE call.name \in Commands!Found \cup Commands!Texts
      BY <1>1, <1>2, <2>1, <2>2, FailureIs
         DEF Commands!Found, Commands!Texts, Commands!Counted, Commands!Numbers
    <2>3. CASE call.name \in Commands!Counted \cup Commands!Numbers
      <3>1. call.value \in {0, -1}
        BY <1>1, <1>2, <2>3, FailureIs
      <3>2. call.name \notin Commands!Found \cup Commands!Texts
        BY <2>3 DEF Commands!Found, Commands!Texts, Commands!Counted, Commands!Numbers
      <3> QED
        BY <2>1, <2>3, <3>1, <3>2
    <2>4. CASE call.name \notin Commands!Found \cup Commands!Texts \cup Commands!Counted
                               \cup Commands!Numbers
      BY <1>1, <1>2, <2>1, <2>4, FailureIs
    <2> QED
      BY <2>2, <2>3, <2>4
  <1>3. CASE /\ call.reply \in Met(call.name)
             /\ call.value = Commands!Value(call.name, call.reply)
    BY <1>1, <1>3, MetAre, ValueIs
  <1> QED
    BY <1>2, <1>3 DEF CommandInv, HasVector

-----------------------------------------------------------------------------
(* The connections without the pool                                         *)

LEMMA DeInitKeeps ==
  ASSUME ConnTypeOK, ContextsOwned, NEW k \in Conns, DeInit(k)
  PROVE  ConnTypeOK' /\ ContextsOwned'
  <1>1. Live' = Live \ {k}
    BY DEF DeInit, Live, ConnTypeOK
  <1>2. contexts = Cardinality(Live) /\ contexts' = contexts - 1
    BY DEF ContextsOwned, Live, DeInit
  <1>3. contexts' = Cardinality(Live')
    BY <1>1, <1>2, OneLess DEF DeInit
  <1>4. m_pContext' \in [Conns -> {NULL, "open", "rejected", "broken"}]
    BY DEF DeInit, ConnTypeOK
  <1> QED
    BY <1>3, <1>4, LiveIsFinite DEF ConnTypeOK, ContextsOwned, Live, DeInit

LEMMA ClockKeeps ==
  ASSUME ConnTypeOK, ContextsOwned, Tick \/ Heal
  PROVE  ConnTypeOK' /\ ContextsOwned'
  <1>1. CASE Tick
    BY <1>1 DEF Tick, ConnTypeOK, ContextsOwned
  <1>2. CASE Heal
    BY <1>2 DEF Heal, ConnTypeOK, ContextsOwned
  <1> QED
    BY <1>1, <1>2

LEMMA ConnKeeps ==
  ASSUME ConnTypeOK, ContextsOwned, ConnNext
  PROVE  ConnTypeOK' /\ ContextsOwned'
  BY CommandKeeps, DeInitKeeps, ClockKeeps DEF ConnNext

\* A call that goes on, and one that returns.
LEMMA CallGoesOn ==
  ASSUME CallTyped, NEW place \in Places, Commands!At(place)
  PROVE  /\ CallTyped' /\ call'.at = place
         /\ call'.name = call.name /\ call'.reply = call.reply /\ call'.value = call.value
  BY DEF CallTyped, Commands!At, Places

LEMMA CallReturns ==
  ASSUME CallTyped, NEW value \in Values, Commands!Return(value)
  PROVE  /\ CallTyped' /\ call'.at = "idle" /\ call'.value = value
         /\ call'.name = call.name /\ call'.reply = call.reply
  <1>1. call \in [name : Commands!Names, at : Places, reply : ReplyRecords, value : Values]
    BY DEF CallTyped
  <1>2. call' = [call EXCEPT !.at = "idle", !.value = value] /\ "idle" \in Places
    BY DEF Commands!Return, Places
  <1>3. /\ call' \in [name : Commands!Names, at : Places, reply : ReplyRecords, value : Values]
        /\ call'.at = "idle" /\ call'.value = value
        /\ call'.name = call.name /\ call'.reply = call.reply
    BY <1>1, <1>2
  <1> QED
    BY <1>3 DEF CallTyped

LEMMA BeginKeeps ==
  ASSUME ConnTypeOK, ContextsOwned, CommandInv, NEW name \in Commands!Names,
         Commands!Begin(1, name)
  PROVE  ConnTypeOK' /\ ContextsOwned' /\ CommandInv'
  <1>1. 1 \in Conns
    BY MaxOpenBounds, PoolAssumption
  <1>2. PICK result \in Commands!InitResults(1) :
          /\ m_pContext' = [m_pContext EXCEPT ![1] = result.context]
          /\ contexts' = contexts + Commands!Created(1, result)
          /\ recent' = Commands!Attempted(1)
          /\ replies' = replies + Commands!LeftByInit(1, result)
          /\ lost' = lost + Commands!LeftByInit(1, result)
          /\ call' = [name |-> name, reply |-> Commands!NoReply,
                      value |-> Commands!Failure(name),
                      at |-> IF result.ret = 0 THEN "ready" ELSE "idle"]
    BY DEF Commands!Begin
  <1>3. result \in InitResults(1)
    BY DEF InitResults, Commands!InitResults, Connect, Commands!Connect
  <1>4. /\ call.at = "idle" /\ argvs' = argvs /\ healthy' = healthy
        /\ argvs = 0 /\ replies = lost /\ lost \in Nat
    BY DEF Commands!Begin, CommandInv, HasVector
  <1>5. contexts \in Nat /\ Created(1, result) \in Nat
    BY DEF ConnTypeOK, Created
  <1>6. "none" # NULL
    BY NullAssumption
  <1>6a. /\ Commands!Created(1, result) = Created(1, result)
         /\ Commands!Attempted(1) = Attempted(1)
    BY DEF Created, Commands!Created, Attempted, Commands!Attempted
  <1>6b. AfterReply(result, "none") = result.context
    BY <1>6 DEF AfterReply
  <1>6c. contexts' = contexts + Created(1, result) - (IF "none" = NULL THEN 1 ELSE 0)
    BY <1>2, <1>5, <1>6, <1>6a
  <1>6d. CommandGoes(1, result, "none")
    BY <1>2, <1>4, <1>6a, <1>6b, <1>6c DEF CommandGoes
  <1>7. ConnTypeOK' /\ ContextsOwned'
    BY <1>1, <1>3, <1>6, <1>6d, GoingKeeps
  <1>8. Commands!LeftByInit(1, result) \in Nat
    BY DEF Commands!LeftByInit
  <1>9. /\ call'.name = name /\ call'.reply = Commands!NoReply
        /\ call'.value = Commands!Failure(name)
        /\ call'.at = IF result.ret = 0 THEN "ready" ELSE "idle"
    BY <1>2
  <1>10. CallTyped'
    BY <1>2, NoneIs, FailureIs DEF CallTyped, Places
  <1>11. call'.at # "idle" => m_pContext'[1] # NULL
    BY <1>1, <1>2, <1>3, <1>9, InitComesTo DEF ConnTypeOK
  <1>12. lost' \in Nat /\ replies' = lost' /\ argvs' = 0
    BY <1>2, <1>4, <1>8
  <1>13. call'.at \in {"ready", "idle"}
    BY <1>9
  <1> QED
    <2> HIDE DEF CallTyped
    <2>1. /\ CallTyped' /\ lost' \in Nat
          /\ call'.at # "replied" /\ replies' = lost'
          /\ ~HasVector' /\ argvs' = 0
      <3>1. call'.at # "replied" /\ ~HasVector'
        BY <1>13 DEF HasVector
      <3> QED
        BY <1>10, <1>12, <3>1
    <2>2. /\ call'.at \in {"ready", "vector", "unreplied"} => call'.reply = Commands!NoReply
          /\ call'.at = "vector" => call'.name \in Commands!Vectors
          /\ call'.at = "replied" => call'.reply \in Met(call'.name)
      BY <1>9, <1>13
    <2>3. call'.at = "idle" =>
            call'.reply = Commands!NoReply /\ call'.value = Commands!Failure(call'.name)
      BY <1>9
    <2> QED
      BY <1>7, <1>11, <2>1, <2>2, <2>3 DEF CommandInv

LEMMA MgetKeeps ==
  ASSUME CommandInv, Commands!MgetNothing
  PROVE  CommandInv' /\ UNCHANGED connVars
  <1>1. /\ call.at = "ready" /\ call.name = "mget" /\ Commands!Return(FALSE)
        /\ UNCHANGED <<connVars, replies, argvs, lost>>
    BY DEF Commands!MgetNothing, Commands!connVars, connVars, Commands!memory
  <1>2. FALSE \in Values
    BY ValuesAre
  <1>3. /\ CallTyped' /\ call'.at = "idle" /\ call'.value = FALSE
        /\ call'.name = "mget" /\ call'.reply = Commands!NoReply
    BY <1>1, <1>2, CallReturns DEF CommandInv, HasVector
  <1>4. Commands!Failure("mget") = FALSE
    BY FailureIs DEF Commands!Names, Commands!Found, Commands!Texts, Commands!Done,
                     Commands!Counted, Commands!Numbers
  <1> QED
    BY <1>1, <1>3, <1>4 DEF CommandInv, HasVector

LEMMA VectorKeeps ==
  ASSUME CommandInv, Commands!BuildVector
  PROVE  CommandInv' /\ UNCHANGED connVars
  <1>1. /\ call.at = "ready" /\ call.name \in Commands!Vectors /\ Commands!At("vector")
        /\ argvs' = argvs + 1 /\ UNCHANGED <<connVars, replies, lost>>
    BY DEF Commands!BuildVector, Commands!connVars, connVars
  <1>2. /\ CallTyped' /\ call'.at = "vector"
        /\ call'.name = call.name /\ call'.reply = call.reply
    BY <1>1, CallGoesOn DEF CommandInv, HasVector, Places
  <1> QED
    BY <1>1, <1>2 DEF CommandInv, HasVector, connVars

\* Without a reply the context is broken until it is freed.
LEMMA SendKeeps ==
  ASSUME ConnTypeOK, ContextsOwned, CommandInv, Commands!Send(1)
  PROVE  ConnTypeOK' /\ ContextsOwned' /\ CommandInv'
  <1>1. 1 \in Conns
    BY MaxOpenBounds, PoolAssumption
  <1> DEFINE Goes(reply, form) ==
               IF reply = NULL
               THEN /\ m_pContext' = [m_pContext EXCEPT ![1] = "broken"]
                    /\ Commands!At("unreplied")
                    /\ UNCHANGED replies
               ELSE /\ replies' = replies + 1
                    /\ call' = [call EXCEPT !.at = "replied", !.reply = form]
                    /\ UNCHANGED m_pContext
  <1>0. PICK reply \in Commands!Replies(m_pContext[1]) :
          \E form \in Commands!Forms(call.name, reply) : Goes(reply, form)
    BY DEF Commands!Send
  <1>2. PICK form \in Commands!Forms(call.name, reply) : Goes(reply, form)
    BY <1>0
  <1>3. /\ call.at = IF call.name \in Commands!Vectors THEN "vector" ELSE "ready"
        /\ UNCHANGED <<recent, contexts, healthy, argvs, lost>>
    BY DEF Commands!Send
  <1>4. /\ m_pContext[1] # NULL /\ CallTyped /\ lost \in Nat /\ replies = lost
        /\ argvs = IF call.name \in Commands!Vectors THEN 1 ELSE 0
        /\ call.reply = Commands!NoReply /\ call.name \in Commands!Names
    BY <1>3 DEF CommandInv, HasVector, CallTyped
  <1>5. CASE reply = NULL
    <2>1. /\ m_pContext' = [m_pContext EXCEPT ![1] = "broken"] /\ Commands!At("unreplied")
          /\ replies' = replies
      BY <1>2, <1>5
    <2>2. \A k \in Conns : m_pContext'[k] = IF k = 1 THEN "broken" ELSE m_pContext[k]
      BY <2>1 DEF ConnTypeOK
    <2>3. Live' = Live
      BY <1>4, <2>2, NullAssumption DEF Live
    <2>4. ContextsOwned'
      BY <1>3, <2>3 DEF ContextsOwned, Live
    <2>5. ConnTypeOK'
      BY <1>3, <2>1 DEF ConnTypeOK
    <2>6. /\ CallTyped' /\ call'.at = "unreplied"
          /\ call'.name = call.name /\ call'.reply = Commands!NoReply
      BY <1>4, <2>1, CallGoesOn DEF Places
    <2>7. CommandInv'
      BY <1>1, <1>3, <1>4, <2>1, <2>2, <2>6, NullAssumption DEF CommandInv, HasVector
    <2> QED
      BY <2>4, <2>5, <2>7
  <1>6. CASE reply # NULL
    <2>1. /\ call' = [call EXCEPT !.at = "replied", !.reply = form]
          /\ replies' = replies + 1 /\ m_pContext' = m_pContext
      BY <1>2, <1>6
    <2>2. reply \in {"answer", "error"}
      BY <1>1, <1>4, <1>6 DEF Commands!Replies, ConnTypeOK
    <2>3. form \in Met(call.name)
      <3>1. CASE reply = "answer"
        BY <3>1 DEF Met, Commands!Forms
      <3>2. CASE reply = "error"
        BY <3>2 DEF Met, Commands!Forms
      <3> QED
        BY <2>2, <3>1, <3>2
    <2>4. form \in ReplyRecords
      BY <1>4, <2>3, MetAre
    <2>5. /\ CallTyped' /\ call'.at = "replied"
          /\ call'.name = call.name /\ call'.reply = form
      BY <1>4, <2>1, <2>4 DEF CallTyped, Places
    <2>6. ConnTypeOK' /\ ContextsOwned'
      BY <1>3, <2>1 DEF ConnTypeOK, ContextsOwned
    <2>7. CommandInv'
      BY <1>3, <1>4, <2>1, <2>3, <2>5 DEF CommandInv, HasVector
    <2> QED
      BY <2>6, <2>7
  <1> QED
    BY <1>5, <1>6

LEMMA UnrepliedKeeps ==
  ASSUME ConnTypeOK, ContextsOwned, CommandInv, Commands!Unreplied(1)
  PROVE  ConnTypeOK' /\ ContextsOwned' /\ CommandInv'
  <1>1. 1 \in Conns
    BY MaxOpenBounds, PoolAssumption
  <1>2. /\ call.at = "unreplied"
        /\ argvs' = IF call.name \in Commands!Vectors THEN argvs - 1 ELSE argvs
        /\ m_pContext' = [m_pContext EXCEPT ![1] = NULL] /\ contexts' = contexts - 1
        /\ Commands!Return(Commands!Failure(call.name))
        /\ UNCHANGED <<recent, healthy, replies, lost>>
    BY DEF Commands!Unreplied, Commands!DeletesUnreplied, Commands!Vectors
  <1>3. /\ m_pContext[1] # NULL /\ CallTyped /\ lost \in Nat /\ replies = lost
        /\ argvs = IF call.name \in Commands!Vectors THEN 1 ELSE 0
        /\ call.reply = Commands!NoReply /\ call.name \in Commands!Names
    BY <1>2 DEF CommandInv, HasVector, CallTyped
  <1>4. /\ CallTyped' /\ call'.at = "idle" /\ call'.name = call.name
        /\ call'.reply = Commands!NoReply /\ call'.value = Commands!Failure(call.name)
    BY <1>2, <1>3, FailureIs, CallReturns
  <1>5. CommandInv'
    BY <1>2, <1>3, <1>4 DEF CommandInv, HasVector
  <1>6. Live' = Live \ {1}
    BY <1>1, <1>2 DEF Live, ConnTypeOK
  <1>7. contexts' = Cardinality(Live')
    BY <1>1, <1>2, <1>3, <1>6, OneLess DEF ContextsOwned, Live
  <1>8. m_pContext' \in [Conns -> {NULL, "open", "rejected", "broken"}]
    BY <1>2 DEF ConnTypeOK
  <1> QED
    BY <1>2, <1>5, <1>7, <1>8, LiveIsFinite DEF ConnTypeOK, ContextsOwned, Live

LEMMA RepliedKeeps ==
  ASSUME CommandInv, Commands!Replied
  PROVE  CommandInv' /\ UNCHANGED connVars
  <1>1. /\ call.at = "replied"
        /\ argvs' = IF call.name \in Commands!Vectors THEN argvs - 1 ELSE argvs
        /\ replies' = replies - 1
        /\ Commands!Return(Commands!Value(call.name, call.reply))
        /\ UNCHANGED <<connVars, lost>>
    BY DEF Commands!Replied, Commands!DeletesReplied, Commands!Vectors, Commands!connVars,
           connVars
  <1>2. /\ CallTyped /\ lost \in Nat /\ replies = lost + 1 /\ call.name \in Commands!Names
        /\ argvs = IF call.name \in Commands!Vectors THEN 1 ELSE 0
        /\ call.reply \in Met(call.name)
    BY <1>1 DEF CommandInv, HasVector, CallTyped
  <1>3. /\ CallTyped' /\ call'.at = "idle" /\ call'.name = call.name
        /\ call'.reply = call.reply /\ call'.value = Commands!Value(call.name, call.reply)
    BY <1>1, <1>2, ValueIs, CallReturns
  <1> QED
    BY <1>1, <1>2, <1>3 DEF CommandInv, HasVector

LEMMA CommandsKeep ==
  ASSUME ConnTypeOK, ContextsOwned, CommandInv, Commands!NextOn(1)
  PROVE  ConnTypeOK' /\ ContextsOwned' /\ CommandInv'
  <1>0. UNCHANGED connVars => ConnTypeOK' /\ ContextsOwned'
    BY DEF connVars, ConnTypeOK, ContextsOwned
  <1>1. ASSUME NEW name \in Commands!Names, Commands!Begin(1, name)
        PROVE  ConnTypeOK' /\ ContextsOwned' /\ CommandInv'
    BY <1>1, BeginKeeps
  <1>2. CASE Commands!MgetNothing \/ Commands!BuildVector \/ Commands!Replied
    BY <1>0, <1>2, MgetKeeps, VectorKeeps, RepliedKeeps
  <1>3. CASE Commands!Send(1) \/ Commands!Unreplied(1)
    BY <1>3, SendKeeps, UnrepliedKeeps
  <1>4. CASE Commands!Other(1)
    <2>1. /\ (call.at = "idle" /\ DeInit(1)) \/ Tick \/ Heal
          /\ UNCHANGED <<replies, argvs, lost, call>>
      BY <1>4 DEF Commands!Other, Commands!DeInit, Commands!Tick, Commands!Heal, DeInit, Tick,
                  Heal, Commands!memory
    <2>2. ConnTypeOK' /\ ContextsOwned'
      BY <2>1, DeInitKeeps, ClockKeeps, MaxOpenBounds, PoolAssumption
    <2>3. call.at # "idle" => m_pContext' = m_pContext
      BY <2>1 DEF Tick, Heal
    <2> QED
      BY <2>1, <2>2, <2>3 DEF CommandInv, HasVector, CallTyped
  <1> QED
    BY <1>1, <1>2, <1>3, <1>4 DEF Commands!NextOn

-----------------------------------------------------------------------------
(* The composition                                                          *)

LEMMA PartsInitInv == PartsInit => PartsInv
  <1> SUFFICES ASSUME PartsInit PROVE PartsInv
    OBVIOUS
  <1>1. Inv
    BY InitInv DEF PartsInit
  <1>2. /\ call = [name |-> "get", at |-> "idle", reply |-> Commands!NoReply, value |-> ""]
        /\ replies = 0 /\ argvs = 0 /\ lost = 0
    BY DEF PartsInit, Commands!NoCommandYet
  <1>3. CommandInv
    <2>1. "get" \in Commands!Names /\ Commands!Failure("get") = ""
      BY FailureIs DEF Commands!Names, Commands!Found
    <2>2. CallTyped
      BY <1>2, <2>1, NoneIs, ValuesAre DEF CallTyped, Places
    <2>3. /\ call.at = "idle" /\ call.name = "get" /\ call.value = ""
          /\ call.reply = Commands!NoReply /\ ~HasVector
      BY <1>2 DEF HasVector
    <2> HIDE DEF CallTyped
    <2> QED
      BY <1>2, <2>1, <2>2, <2>3 DEF CommandInv
  <1>4. call.at = "idle"
    BY <1>2
  <1> QED
    BY <1>1, <1>3, <1>4 DEF Inv, PartsInv

LEMMA PartsInvStep ==
  PartsInv /\ [PoolStep \/ ConnStep \/ CommandStep]_<<vars, commandVars, part>> => PartsInv'
  <1> SUFFICES ASSUME PartsInv, [PoolStep \/ ConnStep \/ CommandStep]_<<vars, commandVars, part>>
               PROVE  PartsInv'
    OBVIOUS
  <1>1. CASE PoolStep
    <2>1. Inv /\ Next
      BY <1>1 DEF PoolStep, PartsInv, Inv
    <2>2. Inv'
      BY <2>1, NextTyped, ExclusiveStep, WakeupStep, UnderwayStep DEF Inv
    <2>3. call.at = "idle" /\ UNCHANGED <<replies, argvs, lost, call, part>>
      BY <1>1 DEF PoolStep, PartsInv, commandVars
    <2>4. CommandInv'
      BY <2>3 DEF PartsInv, CommandInv, HasVector, CallTyped
    <2> QED
      BY <2>2, <2>3, <2>4 DEF Inv, PartsInv
  <1>2. CASE ConnStep \/ CommandStep
    <2>1. part # "pool" /\ UNCHANGED <<poolVars, part>>
      BY <1>2 DEF ConnStep, CommandStep
    <2>2. Exclusive' /\ NoMissedWakeup'
      BY <2>1 DEF PartsInv, poolVars, Exclusive, InFreeList, NoMissedWakeup, Waiting,
                  Resuming, MayOpen
    <2>3. ConnTypeOK' /\ ContextsOwned' /\ CommandInv'
      <3>1. CASE ConnStep
        <4>1. CommandInv'
          BY <3>1 DEF ConnStep, PartsInv, CommandInv, HasVector, CallTyped, commandVars
        <4> QED
          BY <3>1, <4>1, ConnKeeps DEF ConnStep, PartsInv, TypeOK
      <3>2. CASE CommandStep
        BY <3>2, CommandsKeep DEF CommandStep, PartsInv, TypeOK
      <3> QED
        BY <1>2, <3>1, <3>2
    <2>4. TypeOK'
      BY <2>1, <2>3 DEF PartsInv, TypeOK, poolVars
    <2>5. part' # "commands" => call'.at = "idle"
      BY <1>2, <2>1 DEF ConnStep, CommandStep, PartsInv, commandVars
    <2> QED
      BY <2>1, <2>2, <2>3, <2>4, <2>5 DEF PartsInv
  <1>3. CASE UNCHANGED <<vars, commandVars, part>>
    <2>1. UNCHANGED vars /\ UNCHANGED commandVars /\ part' = part
      BY <1>3
    <2>2. TypeOK' /\ Exclusive' /\ NoMissedWakeup' /\ ContextsOwned'
      BY <2>1 DEF PartsInv, vars, connVars, poolVars, TypeOK, ConnTypeOK, Exclusive, InFreeList,
                  NoMissedWakeup, Waiting, Resuming, MayOpen, ContextsOwned
    <2>3. part' = "pool" => Underway'
      BY <2>1 DEF PartsInv, vars, connVars, poolVars, Underway
    <2>4. CommandInv' /\ (part' # "commands" => call'.at = "idle")
      BY <2>1 DEF PartsInv, CommandInv, HasVector, CallTyped, commandVars, vars, connVars
    <2> QED
      BY <2>2, <2>3, <2>4 DEF PartsInv
  <1> QED
    BY <1>1, <1>2, <1>3

LEMMA PartsInvariance == PartsSpec => []PartsInv
  BY PartsInitInv, PartsInvStep, PTL DEF PartsSpec

\* For any number of clients and connections, whatever fails: a connection is with one
\* client or in the free list (CachePool.cpp:742-820).
THEOREM RedisConnections == PartsSpec => []ConnectionsInOnePlace
  <1>1. PartsInv => ConnectionsInOnePlace
    BY DEF PartsInv, ConnectionsInOnePlace
  <1> QED
    BY <1>1, PartsInvariance, PTL

\* A call has at most one vector and one reply, and when it has returned, whichever way
\* it went, neither; only Init leaves a reply behind.  The contexts that live are those
\* the connections keep (CachePool.cpp:28-700).
THEOREM RedisResources == PartsSpec => []ResourcesReturned
  <1>1. PartsInv => ResourcesReturned
    BY DEF PartsInv, CommandInv, HasVector, ResourcesReturned, Commands!MemoryReturned
  <1> QED
    BY <1>1, PartsInvariance, PTL

\* A command without a reply tells of no text, success or positive number, and where
\* commands are ToldApart no reply is told as its lack is (CachePool.cpp:147-713).
THEOREM RedisUnanswered == PartsSpec => []UnansweredNotTold
  <1>1. PartsInv => UnansweredNotTold
    BY ReturnedTells DEF PartsInv, UnansweredNotTold
  <1> QED
    BY <1>1, PartsInvariance, PTL
=============================================================================
