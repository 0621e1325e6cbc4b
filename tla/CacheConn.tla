----------------------------- MODULE CacheConn -----------------------------
(***************************************************************************)
(* A redis connection: the hiredis context a CacheConn keeps, the reconnect *)
(* that every command begins with (CacheConn::Init, at most one attempt in  *)
(* a second), and what each command does with a context that failed.        *)
(*                                                                          *)
(* m_pContext[k] is NULL or tells what the server made of the context:      *)
(* "open", "rejected" (AUTH or SELECT was answered with an error), "broken" *)
(* (hiredis has set err: no command on it gets a reply any more).           *)
(***************************************************************************)
EXTENDS Integers, FiniteSets

CONSTANTS Conns,       \* the connections
          m_password,  \* TRUE when the password is not empty
          NULL

ASSUME PasswordAssumption == m_password \in BOOLEAN
ASSUME NullAssumption ==
  NULL \notin {"open", "rejected", "broken", "answer", "error", "none"}

VARIABLES m_pContext,
          recent,     \* recent[k]: m_last_connect_time is the current second
          contexts,   \* history: hiredis contexts created and not freed
          healthy     \* the server answers: from then on nothing fails

connVars == <<m_pContext, recent, contexts, healthy>>

ConnInit == /\ m_pContext = [k \in Conns |-> NULL]
            /\ recent = [k \in Conns |-> FALSE]
            /\ contexts = 0
            /\ healthy = FALSE

-----------------------------------------------------------------------------
(* CacheConn::Init                                                          *)

\* What an attempt to connect may come to: no context, AUTH without a reply or
\* refused, SELECT without a reply or refused, or a connection that works.
Connect ==
  {[ret |-> 0, context |-> "open"]}
  \cup IF healthy THEN {}
       ELSE {[ret |-> 1, context |-> NULL]}
            \cup {[ret |-> 2, context |-> x] : x \in {"rejected", "broken"}}
            \cup IF m_password
                 THEN {[ret |-> -1, context |-> x] : x \in {"rejected", "broken"}}
                 ELSE {}

\* Slip: the test of the last attempt's second is turned round.
InitResultsInverted(k) ==
  IF m_pContext[k] # NULL THEN {[ret |-> 0, context |-> m_pContext[k]]}
  ELSE IF ~recent[k] THEN {[ret |-> 1, context |-> NULL]}
  ELSE Connect

\* What CacheConn::Init returns, and the context it leaves.
InitResults(k) ==
  IF m_pContext[k] # NULL THEN {[ret |-> 0, context |-> m_pContext[k]]}
  ELSE IF recent[k] THEN {[ret |-> 1, context |-> NULL]}
  ELSE Connect

\* The second of the attempt is noted, and a new context counted.
Attempted(k) == [recent EXCEPT ![k] = @ \/ m_pContext[k] = NULL]
Created(k, result) == IF m_pContext[k] = NULL /\ result.context # NULL THEN 1 ELSE 0

-----------------------------------------------------------------------------
(* The commands: get, set, del, hset, lpush, flushdb and the others         *)

\* redisCommand on a context may return no reply; on one that is broken it does.
\* A rejected or a failing server may answer with an error.
Replies(context) ==
  CASE context = "broken"   -> {NULL}
    [] context = "rejected" -> {"answer", "error"} \cup (IF healthy THEN {} ELSE {NULL})
    [] context = "open"     -> IF healthy THEN {"answer"} ELSE {"answer", "error", NULL}

\* Without a reply the context is freed and m_pContext becomes NULL.
AfterReply(result, reply) == IF reply = NULL THEN NULL ELSE result.context

\* Init came to result, and redisCommand on the context to reply.
CommandGoes(k, result, reply) ==
  /\ m_pContext' = [m_pContext EXCEPT ![k] = AfterReply(result, reply)]
  /\ contexts' = contexts + Created(k, result) - (IF reply = NULL THEN 1 ELSE 0)
  /\ recent' = Attempted(k)
  /\ UNCHANGED healthy

\* No command is sent when Init fails.
RepliesAfter(result) == IF result.ret = 0 THEN Replies(result.context) ELSE {"none"}

\* Init, and unless it fails redisCommand on the context.
Command(k) == \E result \in InitResults(k) :
                \E reply \in RepliesAfter(result) : CommandGoes(k, result, reply)

DeInit(k) ==
  /\ m_pContext[k] # NULL
  /\ m_pContext' = [m_pContext EXCEPT ![k] = NULL]
  /\ contexts' = contexts - 1
  /\ UNCHANGED <<recent, healthy>>

\* time(NULL) goes on to the next second.
Tick == /\ \E k \in Conns : recent[k]
        /\ recent' = [k \in Conns |-> FALSE]
        /\ UNCHANGED <<m_pContext, contexts, healthy>>

Heal == /\ ~healthy
        /\ healthy' = TRUE
        /\ UNCHANGED <<m_pContext, recent, contexts>>

ConnNext == (\E k \in Conns : Command(k) \/ DeInit(k)) \/ Tick \/ Heal

\* The clock runs and a connection goes on being used.
ConnSpec == /\ ConnInit /\ [][ConnNext]_connVars
            /\ WF_connVars(Tick)
            /\ \A k \in Conns : SF_connVars(Command(k))
-----------------------------------------------------------------------------
(* Properties                                                               *)

ConnTypeOK == /\ m_pContext \in [Conns -> {NULL, "open", "rejected", "broken"}]
              /\ recent \in [Conns -> BOOLEAN]
              /\ contexts \in Nat
              /\ healthy \in BOOLEAN

\* Whichever step of connecting or of a command fails, no hiredis context is
\* leaked and none is freed twice: the connections hold exactly those that live.
ContextsOwned == contexts = Cardinality({k \in Conns : m_pContext[k] # NULL})

\* A connection whose context is gone or broken gets a new one that works once the
\* server answers, within a second of clock time and one further command.
Recovers ==
  \A k \in Conns :
    healthy /\ m_pContext[k] \in {NULL, "broken"} ~> m_pContext[k] = "open"
=============================================================================
