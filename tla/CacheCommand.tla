----------------------------- MODULE CacheCommand -----------------------------
(***************************************************************************)
(* The commands of a CacheConn one by one: the way each goes from Init to    *)
(* its return, the memory it takes and gives back on that way, and what it   *)
(* tells its caller.  The connection and its Init are CacheConn's.          *)
(*                                                                          *)
(* call.at is "idle" between two calls, "ready" after a successful Init,     *)
(* "vector" once argv is built, and "replied" or "unreplied" after           *)
(* redisCommand.  A reply is its type and its integer, which is 0 in a reply *)
(* of another type; a text is "" or "text".                                 *)
(***************************************************************************)
EXTENDS CacheConn

CONSTANT MaxLost   \* bound: how many replies Init leaves behind

VARIABLES replies,  \* history: the reply objects not freed
          argvs,    \* history: the argument vectors not deleted
          lost,     \* history: the replies Init left behind
          call      \* the call that is under way, or the last one and its value

memory == <<replies, argvs, lost>>
vars == <<connVars, memory, call>>

-----------------------------------------------------------------------------
(* The commands                                                             *)

Found == {"get", "hget"}                   \* the string that was found
Texts == {"set", "setex", "hmset"}         \* the text of the reply
Done == {"mget", "hgetAll", "hmget", "lrange"}
Counted == {"del", "hdel"}                 \* the integer of the reply, or 0
Numbers == {"hset", "hincrBy", "incrBy", "incr", "decr", "lpush", "rpush", "llen"}
Names == Found \cup Texts \cup Done \cup Counted \cup Numbers \cup {"isExists", "flushdb"}

\* Those that build an argument vector.
Vectors == {"hmset", "hmget"}

Reply(type, integer) == [type |-> type, integer |-> integer]
NoReply == Reply("none", 0)
ErrorReply == Reply("error", 0)

\* What a redis server answers a command that it executes with.
Answers(name) ==
  CASE name \in Found                 -> {Reply("string", 0), Reply("nil", 0)}
    [] name \in Texts \cup {"flushdb"} -> {Reply("status", 0)}
    [] name \in Done                  -> {Reply("array", 0)}
    [] name \in Counted \cup {"isExists", "hset", "lpush", "rpush", "llen"}
                                      -> {Reply("integer", i) : i \in {0, 1}}
    [] name \in {"hincrBy", "incrBy", "incr", "decr"}
                                      -> {Reply("integer", i) : i \in {-1, 0, 1}}

\* The replies that make one of CacheConn's replies, "answer", "error" or NULL.
Forms(name, reply) == CASE reply = "answer" -> Answers(name)
                        [] reply = "error"  -> {ErrorReply}
                        [] OTHER            -> {NoReply}

\* Slip: a command that returns a number fails with 0, as del and hdel do.
FailureZero(name) == CASE name \in Found \cup Texts   -> ""
                       [] name \in Counted \cup Numbers -> 0
                       [] OTHER                       -> FALSE

\* What a command returns when Init fails or redisCommand returns NULL.
Failure(name) == CASE name \in Found \cup Texts -> ""
                   [] name \in Counted        -> 0
                   [] name \in Numbers        -> -1
                   [] OTHER                   -> FALSE

\* The text of a reply: reply->str, empty in a reply of another type.
Text(reply) == IF reply.type \in {"status", "error", "string"} THEN "text" ELSE ""

\* What a command makes of its reply.  A FLUSHDB that succeeds is answered with a
\* status, which flushdb does not look for.
Value(name, reply) ==
  CASE name \in Found              -> IF reply.type = "string" THEN "text" ELSE ""
    [] name \in Texts              -> Text(reply)
    [] name \in Counted \cup Numbers -> reply.integer
    [] name \in Done               -> TRUE
    [] name = "isExists"           -> reply.integer # 0
    [] name = "flushdb"            -> reply.type = "string"

-----------------------------------------------------------------------------
(* A call on connection k                                                   *)

NoCommandYet == /\ replies = 0 /\ argvs = 0 /\ lost = 0
                /\ call = [name |-> "get", at |-> "idle", reply |-> NoReply, value |-> ""]

Init == ConnInit /\ NoCommandYet

At(place) == call' = [call EXCEPT !.at = place]
Return(value) == call' = [call EXCEPT !.at = "idle", !.value = value]

\* The reply objects Init leaves behind: that of a SELECT which was refused.
LeftByInit(k, result) ==
  IF m_pContext[k] = NULL /\ result.ret = 2 /\ result.context = "rejected" THEN 1 ELSE 0

\* Every command calls Init first, and returns if it fails.
Begin(k, name) ==
  /\ call.at = "idle"
  /\ \E result \in InitResults(k) :
       /\ lost + LeftByInit(k, result) <= MaxLost
       /\ m_pContext' = [m_pContext EXCEPT ![k] = result.context]
       /\ contexts' = contexts + Created(k, result)
       /\ recent' = Attempted(k)
       /\ replies' = replies + LeftByInit(k, result)
       /\ lost' = lost + LeftByInit(k, result)
       /\ call' = [name |-> name, reply |-> NoReply, value |-> Failure(name),
                   at |-> IF result.ret = 0 THEN "ready" ELSE "idle"]
  /\ UNCHANGED <<argvs, healthy>>

\* mget of no key, or of an empty one.
MgetNothing ==
  /\ call.at = "ready" /\ call.name = "mget"
  /\ Return(FALSE)
  /\ UNCHANGED <<connVars, memory>>

BuildVector ==
  /\ call.at = "ready" /\ call.name \in Vectors
  /\ argvs' = argvs + 1
  /\ At("vector")
  /\ UNCHANGED <<connVars, replies, lost>>

\* redisCommand, or redisCommandArgv with the vector.
Send(k) ==
  /\ call.at = IF call.name \in Vectors THEN "vector" ELSE "ready"
  /\ \E reply \in Replies(m_pContext[k]) : \E form \in Forms(call.name, reply) :
       IF reply = NULL
       THEN /\ m_pContext' = [m_pContext EXCEPT ![k] = "broken"]
            /\ At("unreplied")
            /\ UNCHANGED replies
       ELSE /\ replies' = replies + 1
            /\ call' = [call EXCEPT !.at = "replied", !.reply = form]
            /\ UNCHANGED m_pContext
  /\ UNCHANGED <<recent, contexts, healthy, argvs, lost>>

\* Slip: hmget returns without its reply before it has deleted argv.
DeletesUnrepliedHmset == {"hmset"}

\* The commands that delete argv when there is no reply, and when there is one.
DeletesUnreplied == {"hmset", "hmget"}
DeletesReplied == {"hmset", "hmget"}

\* No reply: the context is freed and the failure returned.
Unreplied(k) ==
  /\ call.at = "unreplied"
  /\ argvs' = IF call.name \in DeletesUnreplied THEN argvs - 1 ELSE argvs
  /\ m_pContext' = [m_pContext EXCEPT ![k] = NULL]
  /\ contexts' = contexts - 1
  /\ Return(Failure(call.name))
  /\ UNCHANGED <<recent, healthy, replies, lost>>

\* A reply: its value is read, argv deleted and the reply freed.
Replied ==
  /\ call.at = "replied"
  /\ argvs' = IF call.name \in DeletesReplied THEN argvs - 1 ELSE argvs
  /\ replies' = replies - 1
  /\ Return(Value(call.name, call.reply))
  /\ UNCHANGED <<connVars, lost>>

\* DeInit or the destructor between two calls; the clock and the server.
Other(k) == /\ (call.at = "idle" /\ DeInit(k)) \/ Tick \/ Heal
            /\ UNCHANGED <<memory, call>>

NextOn(k) == \/ \E name \in Names : Begin(k, name)
             \/ MgetNothing \/ BuildVector \/ Send(k) \/ Unreplied(k) \/ Replied
             \/ Other(k)

-----------------------------------------------------------------------------
(* Properties                                                               *)

\* Whichever way a command returns, it has given back what it took: the reply is
\* freed and the argument vector deleted on each of its paths, and neither twice.
\* Only Init leaves a reply behind, each time a SELECT is refused.
MemoryReturned == /\ argvs \in 0 .. 1 /\ replies - lost \in 0 .. 1
                  /\ call.at = "idle" => argvs = 0 /\ replies = lost

\* The commands whose failure no reply of the server looks like.
ToldApart == Texts \cup Done \cup {"hset", "lpush", "rpush", "llen"}

\* A command without a reply, which the server may have run or not, tells its caller
\* of no text, no success and no positive number; and of the commands ToldApart the
\* caller knows, because no reply, an error included, is told in the same way.
UnansweredNotTold ==
  call.at = "idle" =>
    /\ call.reply.type = "none" =>
         CASE call.name \in Found \cup Texts     -> call.value = ""
           [] call.name \in Counted \cup Numbers -> call.value <= 0
           [] OTHER                              -> call.value = FALSE
    /\ call.name \in ToldApart /\ call.reply.type # "none" =>
         call.value # Failure(call.name)
===============================================================================
