---------------------------- MODULE AsyncContext ----------------------------
(***************************************************************************)
(* The asynchronous redis client of async.c: one context, the event loop    *)
(* that calls its handlers, the user whose callbacks call back into it, and *)
(* the server at the other end of the connection.                           *)
(*                                                                          *)
(* A command is its number in cmds.  A callback is the number of the        *)
(* command it was given with (0 for one whose function is NULL) and its     *)
(* pending_subs.  The dictionaries of channels and patterns are one         *)
(* function: their names differ.  The server executes a command when its    *)
(* last byte is written; the way back keeps the replies in order.  A call   *)
(* that is refused changes nothing and is no step.                          *)
(***************************************************************************)
EXTENDS Integers, SequencesExt, TLC

CONSTANTS Names,          \* channels and patterns
          MaxCommands,    \* bound on the commands the user sends
          MaxNames,       \* bound on the names of one SUBSCRIBE
          MaxPublished,   \* bound on the messages the server publishes or feeds
          Unruly          \* may the user break the rules of Orderly?

ASSUME AsyncAssumption == /\ IsFiniteSet(Names)
                          /\ MaxCommands \in Nat /\ MaxNames \in Nat

VARIABLES flags,      \* c->flags
          err,        \* is c->err set?
          replies,    \* ac->replies
          invalid,    \* ac->sub.invalid
          subs,       \* ac->sub.channels and ac->sub.patterns
          obuf,       \* commands not yet written
          inbuf,      \* replies read and not yet processed
          reading,    \* is the read event armed?
          writing,    \* is the write event armed?
          onConnect,  \* is a connect callback set?
          pc,         \* loop, onConnect, process, callback (REDIS_IN_CALLBACK), and the
                      \* ends: gone, aborted, undefined (goes on with a freed context)
          cb,         \* the callback variable of redisProcessCallbacks
          cmds,       \* the commands accepted so far
          got         \* per command, what its callback was given

user == <<cmds, got>>
client == <<flags, err, replies, invalid, subs, obuf, inbuf, reading, writing, onConnect, pc, cb>>

VARIABLES sock,       \* the connect: pending, up or failed
          wire,       \* replies on their way back
          half,       \* has a part of Head(wire) been read?
          open,       \* has the server not closed the connection?
          ssubs,      \* what the server has this connection subscribed to
          smon,       \* does the server feed this connection as a monitor?
          published

server == <<sock, wire, half, open, ssubs, smon, published>>
vars == <<client, user, server>>

NoCb == [id |-> 0, pending |-> 0]
Kinds == {"get", "subscribe", "unsubscribe", "monitor"}
IsRegular(id) == cmds[id].kind = "get"

Init == /\ flags = {} /\ err = FALSE
        /\ replies = <<>> /\ invalid = <<>> /\ subs = <<>>
        /\ obuf = <<>> /\ inbuf = <<>> /\ cb = NoCb
        /\ reading = FALSE /\ writing = FALSE /\ onConnect = FALSE
        /\ pc = "loop" /\ cmds = <<>> /\ got = <<>>
        /\ sock = "pending" /\ wire = <<>> /\ half = FALSE /\ open = TRUE
        /\ ssubs = {} /\ smon = FALSE /\ published = 0

-----------------------------------------------------------------------------
(* The end of a context.                                                    *)

Occurrences(id, list) == {i \in DOMAIN list : list[i].id = id}

Pending == replies \o invalid

\* __redisAsyncFree: every callback left runs with a NULL reply.  It can call
\* nothing that matters: the flags of every caller refuse its commands.
Released(after) ==
  /\ got' = [id \in DOMAIN got |->
               got[id] \o [i \in 1 .. IF IsRegular(id) THEN Cardinality(Occurrences(id, Pending))
                                                       ELSE 0 |-> "null"]]
  /\ replies' = <<>> /\ invalid' = <<>> /\ subs' = <<>> /\ obuf' = <<>> /\ inbuf' = <<>>
  /\ reading' = FALSE /\ writing' = FALSE
  /\ pc' = after /\ cb' = NoCb
  /\ UNCHANGED <<cmds, onConnect>>

\* __redisAsyncDisconnect, whose assertion demands that a clean disconnect
\* leaves no callback behind.
Disconnected(e, fl, after) ==
  /\ err' = e
  /\ IF ~e /\ replies # <<>>
     THEN /\ pc' = "aborted" /\ flags' = fl
          /\ UNCHANGED <<replies, invalid, subs, obuf, inbuf, reading, writing, onConnect, cb, user>>
     ELSE /\ flags' = IF e THEN fl \cup {"DISCONNECTING"} ELSE fl
          /\ Released(after)

-----------------------------------------------------------------------------
(* What the user calls, from the event loop or from a callback.             *)

MayCall == pc \in {"loop", "onConnect", "callback"}

redisAsyncSetConnectCallback ==
  /\ MayCall /\ ~onConnect
  /\ onConnect' = TRUE /\ writing' = TRUE
  /\ UNCHANGED <<flags, err, replies, invalid, subs, obuf, inbuf, reading, pc, cb, user, server>>

\* The value of cb.pending_subs after j turns of the loop over the names of a
\* SUBSCRIBE: it is set once before the loop, and a name that has an entry adds
\* one to that of its entry and leaves the sum to the names after it.
PendingSubs(names, j) ==
  LET known == {i \in 1 .. j : names[i] \in DOMAIN subs}
  IN  IF known = {} THEN 1 ELSE subs[names[Max(known)]].pending + 1

\* Every name, of which none comes twice, gets an entry of the new callback.
Registered(id, names) ==
  [n \in DOMAIN subs \cup ToSet(names) |->
     IF n \in ToSet(names)
     THEN [id |-> id, pending |-> PendingSubs(names, CHOOSE j \in DOMAIN names : names[j] = n)]
     ELSE subs[n]]

\* Lists of names, none of them twice.
NameLists == UNION {{l \in [1 .. k -> Names] : IsInjective(l)} : k \in 1 .. MaxNames}

Subscribes(id, n) == cmds[id].kind = "subscribe" /\ n \in ToSet(cmds[id].names)
Unsubscribes(id, n) == cmds[id].kind = "unsubscribe" /\ n \in ToSet(cmds[id].names)

\* The names of the first k commands that none of them gave up later.
Wanted(k) == {n \in Names : \E i \in 1 .. k : /\ Subscribes(i, n)
                                             /\ \A j \in i + 1 .. k : ~Unsubscribes(j, n)}

\* What the library leaves to its user: to send nothing after MONITOR, and
\* MONITOR itself when no reply is pending, out of subscribed mode and not from
\* the callback of a reply; other commands only out of subscribed mode; and to
\* unsubscribe once from what it is subscribed to.
Orderly(kind, names) ==
  /\ \A c \in ToSet(cmds) : c.kind # "monitor"
  /\ kind = "get" => "SUBSCRIBED" \notin flags
  /\ kind = "monitor" => replies = <<>> /\ "SUBSCRIBED" \notin flags /\ pc # "callback"
  /\ kind = "unsubscribe" => ToSet(names) \subseteq Wanted(Len(cmds))

UserMay(kind, names) ==
  /\ kind \in {"get", "monitor"} => names = <<>>
  /\ kind \in {"subscribe", "unsubscribe"} => names # <<>>
  /\ Unruly \/ Orderly(kind, names)

redisAsyncCommand(kind, names) ==
  LET id == Len(cmds) + 1
      new == [id |-> id, pending |-> 1]
  IN  /\ MayCall /\ id <= MaxCommands /\ UserMay(kind, names)
      /\ flags \cap {"DISCONNECTING", "FREEING"} = {}
      /\ kind = "unsubscribe" => "SUBSCRIBED" \in flags
      /\ flags' = flags \cup (CASE kind = "subscribe" -> {"SUBSCRIBED"}
                                [] kind = "monitor" -> {"MONITORING"}
                                [] OTHER -> {})
      /\ subs' = IF kind = "subscribe" THEN Registered(id, names) ELSE subs
      /\ invalid' = IF kind = "get" /\ "SUBSCRIBED" \in flags THEN Append(invalid, new) ELSE invalid
      /\ replies' = IF kind = "monitor" \/ (kind = "get" /\ "SUBSCRIBED" \notin flags)
                    THEN Append(replies, new) ELSE replies
      /\ obuf' = Append(obuf, id)
      /\ writing' = TRUE
      /\ cmds' = Append(cmds, [kind |-> kind, names |-> names])
      /\ got' = Append(got, <<>>)
      /\ UNCHANGED <<err, inbuf, reading, onConnect, pc, cb, server>>

\* The caller whose context goes at once, with no flag to tell it: the handler
\* that called a connect callback uses it again.
AtOnce == IF pc = "onConnect" THEN "undefined" ELSE "gone"

\* An orderly user does not end a context from its connect callback.
MayEnd == MayCall /\ (pc = "onConnect" => Unruly)

redisAsyncDisconnect ==
  /\ MayCall
  /\ IF pc # "callback" /\ replies = <<>>
     THEN MayEnd /\ Disconnected(err, flags \cup {"DISCONNECTING"}, AtOnce)
     ELSE /\ flags' = flags \cup {"DISCONNECTING"}
          /\ UNCHANGED <<err, replies, invalid, subs, obuf, inbuf, reading, writing, onConnect, pc,
                         cb, user>>
  /\ UNCHANGED server

redisAsyncFree ==
  /\ MayEnd /\ "FREEING" \notin flags
  /\ flags' = flags \cup {"FREEING"}
  /\ IF pc # "callback"
     THEN Released(AtOnce)
     ELSE UNCHANGED <<replies, invalid, subs, obuf, inbuf, reading, writing, onConnect, pc, cb, user>>
  /\ UNCHANGED <<err, server>>

-----------------------------------------------------------------------------
(* The server.                                                              *)

Reply(kind, id) == [kind |-> kind, id |-> id]
PubSub(kind, n, left) == [kind |-> kind, name |-> n, left |-> left]

\* The effect of one command on the server, and what it answers.
Execute(s, id) ==
  LET c == cmds[id]
      After(j) == IF c.kind = "subscribe" THEN s.subs \cup ToSet(SubSeq(c.names, 1, j))
                                          ELSE s.subs \ ToSet(SubSeq(c.names, 1, j))
  IN  CASE c.kind = "get" ->
             [s EXCEPT !.out = Append(@, Reply(IF s.subs = {} THEN "value" ELSE "error", id))]
        [] c.kind = "monitor" ->
             IF s.subs = {} THEN [s EXCEPT !.mon = TRUE, !.out = Append(@, Reply("value", id))]
                            ELSE [s EXCEPT !.out = Append(@, Reply("error", id))]
        [] OTHER -> [s EXCEPT !.subs = After(Len(c.names)),
                              !.out = @ \o [j \in DOMAIN c.names |->
                                              PubSub(c.kind, c.names[j], Cardinality(After(j)))]]

\* What the first commands of obuf make of the server.
Executed[k \in 0 .. Len(obuf)] ==
  IF k = 0 THEN [subs |-> ssubs, mon |-> smon, out |-> <<>>] ELSE Execute(Executed[k - 1], obuf[k])

Published ==
  /\ open /\ published < MaxPublished
  /\ published' = published + 1
  /\ \/ \E n \in ssubs : wire' = Append(wire, PubSub("message", n, 0))
     \/ smon /\ wire' = Append(wire, [kind |-> "feed"])
  /\ UNCHANGED <<client, user, sock, half, open, ssubs, smon>>

\* The connection is closed: at once with an error for nobody, as when the
\* server has too many clients, or later.
Closed ==
  /\ open /\ sock = "up"
  /\ open' = FALSE
  /\ \/ wire' = wire
     \/ wire = <<>> /\ ssubs = {} /\ published = 0 /\ inbuf = <<>>
        /\ wire' = <<Reply("error", 0)>>
  /\ UNCHANGED <<client, user, sock, half, ssubs, smon, published>>

Connects == /\ sock = "pending"
            /\ sock' \in {"up", "failed"}
            /\ UNCHANGED <<client, user, wire, half, open, ssubs, smon, published>>

-----------------------------------------------------------------------------
(* The handlers of the event loop.                                          *)

\* Slip: the event is deleted after every write.
ArmedNever(left) == FALSE

Armed(left) == left # <<>>

\* __redisAsyncHandleConnect marks the context.
Connected == IF sock = "up" THEN flags \cup {"CONNECTED"} ELSE flags

\* A handler that knows how the connect ended: k commands fit into the socket.
Write ==
  IF sock = "failed"
  THEN Disconnected(TRUE, flags, "gone") /\ UNCHANGED server
  ELSE \/ \E k \in 0 .. Len(obuf) :
            /\ k = 0 => obuf = <<>>
            /\ LET left == SubSeq(obuf, k + 1, Len(obuf))
                   s == Executed[k]
               IN  /\ obuf' = left
                   /\ writing' = Armed(left)
                   /\ IF open
                      THEN /\ ssubs' = s.subs /\ smon' = s.mon
                           /\ wire' = wire \o s.out
                      ELSE UNCHANGED <<ssubs, smon, wire>>
            /\ flags' = Connected /\ pc' = "loop"
            /\ reading' = TRUE
            /\ UNCHANGED <<err, replies, invalid, subs, inbuf, onConnect, cb, user, sock, half, open,
                           published>>
       \/ ~open /\ obuf # <<>> /\ Disconnected(TRUE, Connected, "gone") /\ UNCHANGED server

\* redisAsyncHandleWrite: the first event, which comes before any to read, calls
\* the connect callback.
HandleWrite ==
  /\ pc = "loop" /\ writing /\ sock # "pending"
  /\ IF onConnect /\ "CONNECTED" \notin flags
     THEN /\ pc' = "onConnect"
          /\ flags' = Connected /\ err' = (sock = "failed")
          /\ UNCHANGED <<replies, invalid, subs, obuf, inbuf, reading, writing, onConnect, cb, user,
                         server>>
     ELSE Write

ConnectCallbackReturns == pc = "onConnect" /\ Write

\* redisAsyncHandleRead: k whole replies arrive, and redisProcessCallbacks starts.
HandleRead ==
  /\ pc = "loop" /\ reading
  /\ \E k \in 1 .. Len(wire) : /\ inbuf' = SubSeq(wire, 1, k)
                               /\ wire' = SubSeq(wire, k + 1, Len(wire))
  /\ half' = FALSE
  /\ pc' = "process" /\ cb' = NoCb
  /\ UNCHANGED <<flags, err, replies, invalid, subs, obuf, reading, writing, onConnect, user, sock, open,
                 ssubs, smon, published>>

\* The same when only the first bytes of a reply have arrived.
HandleReadPart ==
  /\ pc = "loop" /\ reading /\ wire # <<>> /\ ~half
  /\ half' = TRUE
  /\ pc' = "process" /\ cb' = NoCb
  /\ UNCHANGED <<flags, err, replies, invalid, subs, obuf, inbuf, reading, writing, onConnect, user, sock,
                 wire, open, ssubs, smon, published>>

\* redisBufferRead fails: the end of the stream.
HandleReadFails ==
  /\ pc = "loop" /\ reading /\ wire = <<>> /\ ~open
  /\ Disconnected(TRUE, flags, "gone")
  /\ UNCHANGED server

-----------------------------------------------------------------------------
(* redisProcessCallbacks, one reply a turn.                                 *)

NamesOf(id) == ToSet(cmds[id].names)

\* Is r an answer to the command whose callback c is?
Fits(c, r) == CASE r.kind \in {"value", "error"} -> r.id \in {0, c.id}
                [] r.kind = "feed" -> cmds[c.id].kind = "monitor"
                [] OTHER -> cmds[c.id].kind = "subscribe" /\ r.name \in NamesOf(c.id)

\* cb runs with reply r; one without a function is skipped.
Run(c, r) ==
  /\ cb' = c
  /\ inbuf' = Tail(inbuf)
  /\ IF c.id = 0 THEN pc' = "process" /\ got' = got
     ELSE /\ pc' = "callback"
          /\ got' = CASE ~Fits(c, r) -> [got EXCEPT ![c.id] = Append(@, "other")]
                      [] Fits(c, r) /\ IsRegular(c.id) -> [got EXCEPT ![c.id] = Append(@, "own")]
                      [] OTHER -> got
  /\ UNCHANGED <<err, obuf, reading, writing, onConnect, cmds, server>>

ReplyOf == Head(inbuf)
InTurn == pc = "process" /\ inbuf # <<>>

\* Slip: the queue of regular callbacks is served from its end.
NextCallbackLast(q) == q[Len(q)]

NextCallback(q) == Head(q)

\* Pending regular callbacks get a reply before anything else does.
ProcessRegular ==
  /\ InTurn /\ replies # <<>>
  /\ Run(NextCallback(replies), ReplyOf)
  /\ replies' = Tail(replies)
  /\ UNCHANGED <<flags, invalid, subs>>

\* An error nobody asked for ends the connection.
ProcessSpontaneousError ==
  /\ InTurn /\ replies = <<>> /\ ReplyOf.kind = "error"
  /\ Disconnected(TRUE, flags, "gone")
  /\ UNCHANGED server

Unasked == /\ InTurn /\ replies = <<>> /\ ReplyOf.kind # "error"

\* Slip: the count is compared as it was before a confirmation took one off.
LastOfOne(e) == e.pending = 1

LastOf(e) == e.pending = 0

\* The entry of a name after one message about it, and the mode.
ProcessPubSub ==
  /\ Unasked /\ "SUBSCRIBED" \in flags
  /\ LET r == ReplyOf
     IN  CASE r.kind \in {"value", "feed"} ->      \* not an array: a command that was invalid
                /\ invalid' = IF invalid = <<>> THEN <<>> ELSE Tail(invalid)
                /\ Run(IF invalid = <<>> THEN cb ELSE Head(invalid), r)
                /\ UNCHANGED <<subs, flags>>
           [] r.kind \in {"subscribe", "unsubscribe", "message"} /\ r.name \notin DOMAIN subs ->
                Run(cb, r) /\ UNCHANGED <<subs, flags, invalid>>
           [] OTHER ->
                LET e == [subs[r.name] EXCEPT !.pending = IF r.kind = "subscribe" THEN @ - 1 ELSE @]
                    s == IF r.kind = "unsubscribe" /\ LastOf(e)
                         THEN [n \in DOMAIN subs \ {r.name} |-> subs[n]]
                         ELSE [subs EXCEPT ![r.name] = e]
                IN  /\ subs' = s
                    /\ flags' = IF r.kind = "unsubscribe" /\ r.left = 0 /\ DOMAIN s = {}
                                THEN flags \ {"SUBSCRIBED"} ELSE flags
                    /\ Run(e, r) /\ UNCHANGED invalid
  /\ UNCHANGED replies

\* Out of subscribed mode the context must be a monitor, whose callback is
\* that of the reply before: assert(c->flags & REDIS_SUBSCRIBED || ...).
ProcessMonitor ==
  /\ Unasked /\ "SUBSCRIBED" \notin flags
  /\ IF "MONITORING" \in flags
     THEN Run(cb, ReplyOf)
     ELSE /\ pc' = "aborted"
          /\ UNCHANGED <<err, obuf, inbuf, reading, writing, onConnect, cb, user, server>>
  /\ UNCHANGED <<flags, replies, invalid, subs>>

\* The user's callback returns; a redisAsyncFree it called takes effect now.
CallbackReturns ==
  /\ pc = "callback"
  /\ IF "FREEING" \in flags
     THEN Released("gone")
     ELSE /\ pc' = "process"
          /\ UNCHANGED <<replies, invalid, subs, obuf, inbuf, reading, writing, onConnect, cb, user>>
  /\ UNCHANGED <<flags, err, server>>

\* Slip: replies still to come are not waited for.
DrainedWritten == obuf = <<>>

Drained == obuf = <<>> /\ replies = <<>>

\* No reply is left: the cue to disconnect, to keep a monitor's callback, or to stop.
ProcessEnd ==
  /\ pc = "process" /\ inbuf = <<>>
  /\ IF "DISCONNECTING" \in flags /\ Drained
     THEN Disconnected(err, flags, "gone")
     ELSE /\ replies' = IF "MONITORING" \in flags THEN Append(replies, cb) ELSE replies
          /\ pc' = "loop"
          /\ UNCHANGED <<flags, err, invalid, subs, obuf, inbuf, reading, writing, onConnect, cb, user>>
  /\ UNCHANGED server

ProcessCallbacks == \/ ProcessRegular \/ ProcessSpontaneousError \/ ProcessPubSub
                    \/ ProcessMonitor \/ ProcessEnd

UserCalls == \/ \E kind \in Kinds, names \in {<<>>} \cup NameLists : redisAsyncCommand(kind, names)
             \/ redisAsyncDisconnect
             \/ redisAsyncFree
             \/ redisAsyncSetConnectCallback

Next == \/ UserCalls
        \/ HandleWrite \/ ConnectCallbackReturns \/ HandleRead \/ HandleReadPart \/ HandleReadFails
        \/ ProcessCallbacks \/ CallbackReturns
        \/ Connects \/ Published \/ Closed

\* The event loop calls a handler whose event stays armed, a callback returns
\* and a connect ends; users and server owe nothing.
Fairness == /\ WF_vars(HandleWrite)
            /\ WF_vars(HandleRead)
            /\ WF_vars(HandleReadFails)
            /\ WF_vars(ProcessCallbacks)
            /\ WF_vars(CallbackReturns \/ ConnectCallbackReturns)
            /\ WF_vars(Connects)

Spec == Init /\ [][Next]_vars /\ Fairness

-----------------------------------------------------------------------------
TypeOK ==
  /\ flags \subseteq {"CONNECTED", "DISCONNECTING", "FREEING", "SUBSCRIBED", "MONITORING"}
  /\ \A c \in ToSet(replies) \cup ToSet(invalid) \cup {subs[n] : n \in DOMAIN subs} :
       c.id \in 0 .. Len(cmds) /\ c.pending \in 0 .. Len(cmds)
  /\ DOMAIN subs \subseteq Names
  /\ ToSet(obuf) \subseteq 1 .. Len(cmds)
  /\ pc \in {"loop", "onConnect", "process", "callback", "gone", "aborted", "undefined"}
  /\ err => pc = "gone" \/ (pc \in {"onConnect", "undefined"} /\ sock = "failed")
  /\ DOMAIN got = DOMAIN cmds

\* Every reply finds the callback of its own command, in whatever order
\* commands, messages, subscriptions and events come; a regular command's
\* callback runs once, at the latest with NULL when the context is freed.
OwnReplies ==
  \A id \in DOMAIN cmds :
    /\ "other" \notin ToSet(got[id])
    /\ IsRegular(id) => /\ Len(got[id]) <= 1
                        /\ pc = "gone" => Len(got[id]) = 1

\* A disconnect that is neither forced by an error nor by redisAsyncFree has
\* flushed the commands and given every callback its reply.
CleanDisconnect ==
  pc = "gone" /\ ~err /\ "FREEING" \notin flags =>
    \A id \in DOMAIN cmds : IsRegular(id) => got[id] = <<"own">>

\* The assertions of async.c about its own state hold: nothing arrives that nobody
\* waits for (477), and a clean disconnect leaves no callback (340).
AssertionsHold == pc # "aborted"

\* The context leaves subscribed mode once the server has no subscription of
\* it left and everything sent is answered.
LeavesSubscribedMode ==
  pc = "loop" /\ open /\ obuf = <<>> /\ wire = <<>> /\ ssubs = {} => "SUBSCRIBED" \notin flags

Unanswered(id) == id \in DOMAIN cmds /\ IsRegular(id) /\ got[id] = <<>>

\* The callback of every regular command runs in the end: its write event
\* stays armed until it is written, and its reply is looked for.
CommandsEnd == \A id \in 1 .. MaxCommands : Unanswered(id) ~> ~Unanswered(id)
=============================================================================
