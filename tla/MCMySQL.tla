------------------------------- MODULE MCMySQL -------------------------------
(***************************************************************************)
(* The mysql client for TLC: the pool and its clients, or one connection as  *)
(* the client that has it uses it.  part says which of the two a behaviour   *)
(* is about; the other keeps its initial state.                              *)
(***************************************************************************)
EXTENDS DBPool

CONSTANTS Rows, MaxLosses

ASSUME LossesAssumption == MaxLosses \in Nat

VARIABLES m_mysql, link, intrans, open, table, m_stmt, call, losses, told, begun, claimed,
          ended, lost, kept, part

Conn == INSTANCE DBConn

connVars == <<m_mysql, link, intrans, open, table, m_stmt, call, losses, told, begun,
              claimed, ended, lost, kept>>

PartsInit == Init /\ Conn!Init /\ part \in {"pool", "connection"}

PoolStep == part = "pool" /\ Next /\ UNCHANGED <<connVars, part>>
ConnStep == part = "connection" /\ Conn!Next /\ UNCHANGED <<vars, part>>

\* The bound on lost links may leave a connection with nothing to do.
Stopped == part = "connection" /\ UNCHANGED <<vars, connVars, part>>

PartsFairness == \A c \in Clients : /\ WF_vars(part = "pool" /\ GetDBConn(c))
                                    /\ WF_vars(part = "pool" /\ Release(c))

PartsSpec == /\ PartsInit /\ [][PoolStep \/ ConnStep \/ Stopped]_<<vars, connVars, part>>
             /\ PartsFairness

\* Both parts are well-typed, and every connection the pool has opened is with the
\* one client it was given to, or else in the free list, once (DBPool.cpp:450-552).
ConnectionsInOnePlace == TypeOK /\ Conn!TypeOK /\ Exclusive /\ Accounted

\* What the server has committed is the whole of what a client did between begin
\* and commit, and an update the client was told of is not lost unless the client
\* or the link took it back (DBPool.cpp:246-398).
TransactionsKept == Conn!TransactionsWhole /\ Conn!UpdatesKept
==============================================================================
