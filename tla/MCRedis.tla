------------------------------- MODULE MCRedis -------------------------------
(***************************************************************************)
(* The redis client for TLC: the pool and its clients, the connections as    *)
(* they are used and set up again, or the commands on one of them.  part     *)
(* says which of the three a behaviour is about; what only the others have   *)
(* keeps its initial state.                                                 *)
(***************************************************************************)
EXTENDS CachePool

CONSTANT MaxLost

VARIABLES replies, argvs, lost, call, part

Commands == INSTANCE CacheCommand

commandVars == <<replies, argvs, lost, call>>

PartsInit == Init /\ Commands!NoCommandYet /\ part \in {"pool", "connections", "commands"}

PoolStep == part = "pool" /\ Next /\ UNCHANGED <<commandVars, part>>
ConnStep == part = "connections" /\ ConnNext /\ UNCHANGED <<poolVars, commandVars, part>>
CommandStep == /\ part = "commands" /\ Commands!NextOn(1)
               /\ UNCHANGED <<poolVars, part>>

PartsFairness == /\ \A c \in Clients : /\ WF_vars(part = "pool" /\ GetCacheConn(c))
                                       /\ WF_vars(part = "pool" /\ RelCacheConn(c))
                 /\ WF_connVars(part = "connections" /\ Tick)
                 /\ \A k \in Conns : SF_connVars(part = "connections" /\ Command(k))

PartsSpec == /\ PartsInit /\ [][PoolStep \/ ConnStep \/ CommandStep]_<<vars, commandVars, part>>
             /\ PartsFairness

\* A client of the pool may keep its connection unused; one that goes on sending
\* commands over it has it back in the end.
ConnRecovers == part = "connections" => Recovers

\* A connection is with one client or in the free list (CachePool.cpp:742-820).
ConnectionsInOnePlace == TypeOK /\ Exclusive

\* What hiredis and the commands allocate has one owner until it is given back:
\* no context, reply or argument array is lost, and none is freed twice
\* (CachePool.cpp:28-700).
ResourcesReturned == ContextsOwned /\ Commands!MemoryReturned

\* A command that had no reply returns nothing that tells of one, and most say so
\* (CachePool.cpp:147-713).
UnansweredNotTold == Commands!UnansweredNotTold
==============================================================================
