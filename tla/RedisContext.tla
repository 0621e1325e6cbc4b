---------------------------- MODULE RedisContext ----------------------------
(***************************************************************************)
(* The synchronous redis client: the connection of net.c and the pipeline   *)
(* of hiredis.c over one context and one descriptor at a time.  The parser  *)
(* is RedisReader; here it is the queue of the replies it has been fed.     *)
(*                                                                          *)
(* A command and its reply are the pair of the connection it was appended   *)
(* on and its place there.  The server executes a command when its last     *)
(* byte is written.  Every system call may fail where the code checks it.   *)
(***************************************************************************)
EXTENDS Integers, SequencesExt

CONSTANTS Addrs,          \* addresses getaddrinfo returns for the host
          Retries,        \* REDIS_CONNECT_RETRIES
          MaxAppended,    \* bound on the commands of one connection
          MaxConnections  \* bound on the connections made with the context

VARIABLES conf,       \* how the context was asked for
          fd,         \* c->fd
          cerr,       \* is c->err set?
          cobuf,      \* c->obuf
          cread,      \* replies in c->reader
          cpc,        \* begin socket bind connect finish | idle write read | freed
          addr,       \* place in the list of addresses
          reuses,
          ret         \* what the connect function returned

context == <<conf, fd, cerr, cobuf, cread, cpc, addr, reuses, ret>>

VARIABLES fds,        \* descriptors of the process that are open
          way,        \* replies on their way from the server
          up,         \* has the server not closed the connection?
          gen,        \* number of this connection
          appended,   \* commands appended on it
          asked,      \* calls of redisGetReply on it that gave a reply or NULL for an error
          answers     \* the replies they gave, each with its call

world == <<fds, way, up, gen, appended, asked, answers>>
vars == <<context, world>>

Descriptors == 3 .. 3 + MaxConnections + Addrs + Retries
NewFd == CHOOSE n \in Descriptors : n \notin fds /\ \A m \in Descriptors \ fds : n <= m

\* The connect functions there are: only the one that binds and reuses the
\* address, which does not block, sets REDIS_REUSEADDR.  A context made from a
\* descriptor (redisConnectFd) has neither type, and blocks.
Configurations ==
  {k \in [type : {"tcp", "unix", "fd"}, block : BOOLEAN, bind : BOOLEAN, reuse : BOOLEAN,
          timeoutValid : BOOLEAN] :
     /\ k.type = "fd" => k.block /\ k.timeoutValid
     /\ k.reuse => k.bind
     /\ k.bind => k.type = "tcp" /\ ~k.block
     /\ ~k.timeoutValid => k.block}

\* The caller of redisConnectFd has opened its descriptor itself.
GivenFd == 3

\* redisContextInit: calloc leaves 0 in c->fd.
Init == /\ conf \in Configurations
        /\ cerr = FALSE /\ cobuf = <<>> /\ cread = <<>>
        /\ IF conf.type = "fd" THEN fd = GivenFd /\ fds = {GivenFd} /\ cpc = "idle"
                               ELSE fd = 0 /\ fds = {} /\ cpc = "begin"
        /\ addr = 1 /\ reuses = 0 /\ ret = "OK"
        /\ way = <<>> /\ up = TRUE
        /\ gen = 1 /\ appended = 0 /\ asked = 0 /\ answers = <<>>

-----------------------------------------------------------------------------
(* Connecting.                                                              *)

\* redisContextCloseFd
CloseFd == /\ fds' = fds \ {fd}
           /\ fd' = IF fd >= 0 THEN -1 ELSE fd

KeepFd == UNCHANGED <<fd, fds>>

\* Where a failure leaves the connect function; e tells whether it set c->err.
Fail(e) == /\ cerr' = (cerr \/ e)
           /\ cpc' = "idle" /\ ret' = "ERR"

Goto(l) == cpc' = l /\ UNCHANGED <<cerr, ret>>

Opened == /\ fds' = fds \cup {NewFd}
          /\ fd' = NewFd

\* The timeout is converted and the name resolved; for a Unix socket the
\* timeout is looked at only once there is a socket.
ConnectBegin ==
  /\ cpc = "begin"
  /\ KeepFd
  /\ \/ conf.type = "tcp" /\ ~conf.timeoutValid /\ Fail(TRUE)
     \/ conf.type = "tcp" /\ conf.timeoutValid /\ (Fail(TRUE) \/ Goto("socket"))
     \/ conf.type = "unix" /\ Goto("socket")
  /\ addr' = 1 /\ reuses' = 0
  /\ UNCHANGED <<conf, cobuf, cread, way, up, gen, appended, asked, answers>>

SocketTcp ==
  /\ cpc = "socket" /\ conf.type = "tcp"
  /\ \/ addr > Addrs /\ Fail(TRUE) /\ KeepFd /\ addr' = addr
     \/ addr <= Addrs /\ KeepFd /\ Goto("socket") /\ addr' = addr + 1    \* socket fails
     \/ /\ addr <= Addrs /\ addr' = addr
        /\ \/ Opened /\ Goto("bind")
           \/ fds' = fds /\ fd' = -1 /\ Fail(TRUE)                       \* redisSetBlocking fails
  /\ UNCHANGED <<conf, cobuf, cread, reuses, way, up, gen, appended, asked, answers>>

SocketUnix ==
  /\ cpc = "socket" /\ conf.type = "unix"
  /\ \/ KeepFd /\ Fail(TRUE)                        \* socket fails
     \/ fds' = fds /\ fd' = -1 /\ Fail(TRUE)        \* redisSetBlocking fails
     \/ Opened /\ IF conf.timeoutValid THEN Goto("connect") ELSE Fail(FALSE)
  /\ UNCHANGED <<conf, cobuf, cread, addr, reuses, way, up, gen, appended, asked, answers>>

\* The source address, if there is one.
Bind == /\ cpc = "bind"
        /\ KeepFd
        /\ \/ Goto("connect")
           \/ conf.bind /\ Fail(TRUE)        \* no such address, or none can be bound
           \/ conf.reuse /\ Fail(FALSE)      \* setsockopt fails
        /\ UNCHANGED <<conf, cobuf, cread, addr, reuses, way, up, gen, appended, asked, answers>>

Unreachable == /\ conf.type = "tcp"
               /\ CloseFd /\ Goto("socket")
               /\ addr' = addr + 1 /\ reuses' = reuses

AddressInUse == /\ conf.reuse
                /\ reuses' = reuses + 1 /\ addr' = addr
                /\ IF reuses' >= Retries
                   THEN KeepFd /\ Fail(FALSE)
                   ELSE CloseFd /\ Goto("socket")

\* redisContextWaitReady: the time is over, poll fails or the error is another
\* one; an error the socket reports leaves the descriptor open.
WaitFails == /\ UNCHANGED <<addr, reuses>>
             /\ Fail(TRUE)
             /\ CloseFd \/ KeepFd

Connect == /\ cpc = "connect"
           /\ \/ KeepFd /\ Goto("finish") /\ UNCHANGED <<addr, reuses>>
              \/ Unreachable
              \/ AddressInUse
              \/ WaitFails
           /\ UNCHANGED <<conf, cobuf, cread, way, up, gen, appended, asked, answers>>

\* redisSetBlocking and redisSetTcpNoDelay, and the connection is there.
ConnectFinish ==
  /\ cpc = "finish"
  /\ \/ KeepFd /\ cpc' = "idle" /\ ret' = "OK" /\ cerr' = cerr
     \/ (conf.block \/ conf.type = "tcp") /\ CloseFd /\ Fail(TRUE)
  /\ up' = TRUE /\ way' = <<>>
  /\ UNCHANGED <<conf, cobuf, cread, addr, reuses, gen, appended, asked, answers>>

Connecting == ConnectBegin \/ SocketTcp \/ SocketUnix \/ Bind \/ Connect \/ ConnectFinish

-----------------------------------------------------------------------------
(* The pipeline.                                                            *)

AppendCommand ==
  /\ cpc = "idle" /\ appended < MaxAppended
  /\ cobuf' = Append(cobuf, <<gen, appended + 1>>)
  /\ appended' = appended + 1
  /\ UNCHANGED <<conf, fd, cerr, cread, cpc, addr, reuses, ret, fds, way, up, gen, asked, answers>>

\* redisGetReply: a reply that is there, or for a blocking context one it waits for.
GetReply ==
  /\ cpc = "idle"
  /\ IF cread # <<>>
     THEN /\ answers' = Append(answers, [call |-> asked + 1, reply |-> Head(cread)])
          /\ cread' = Tail(cread)
          /\ cpc' = cpc
     ELSE /\ conf.block /\ asked < appended   \* nothing else is worth waiting for
          /\ cpc' = "write"
          /\ UNCHANGED <<answers, cread>>
  /\ asked' = IF cread = <<>> /\ ~conf.block THEN asked ELSE asked + 1
  /\ UNCHANGED <<conf, fd, cerr, cobuf, addr, reuses, ret, fds, way, up, gen, appended>>

\* Slip: an error of an earlier call is not looked at.
NeverFailed == FALSE

Failed == cerr

Returned(e) == cpc' = "idle" /\ cerr' = (cerr \/ e)

\* redisBufferWrite, called by redisGetReply or by the user of a context that
\* does not block.
BufferWrite ==
  /\ cpc = "write" \/ (cpc = "idle" /\ ~conf.block /\ cobuf # <<>>)
  /\ IF Failed \/ fd \notin fds
     THEN Returned(TRUE) /\ UNCHANGED <<cobuf, way>>
     ELSE \/ Returned(TRUE) /\ UNCHANGED <<cobuf, way>>          \* write fails
          \/ \E k \in 0 .. Len(cobuf) :
               /\ k = 0 => cobuf = <<>>
               /\ cobuf' = SubSeq(cobuf, k + 1, Len(cobuf))
               /\ way' = IF up THEN way \o SubSeq(cobuf, 1, k) ELSE way
               /\ cpc' = IF conf.block /\ cobuf' = <<>> THEN "read" ELSE cpc
               /\ cerr' = cerr
  /\ UNCHANGED <<conf, fd, cread, addr, reuses, ret, fds, up, gen, appended, asked, answers>>

\* redisBufferRead.  For a blocking context a timeout is an error, and the
\* reply it waited for may still come.
BufferRead ==
  /\ cpc = "read" \/ (cpc = "idle" /\ ~conf.block)
  /\ IF Failed \/ fd \notin fds
     THEN Returned(TRUE) /\ UNCHANGED <<cread, way, answers>>
     ELSE \/ Returned(TRUE) /\ UNCHANGED <<cread, way, answers>> \* read fails, times out, or ends
          \/ \E k \in 1 .. Len(way) :
               LET got == cread \o SubSeq(way, 1, k)
               IN  /\ way' = SubSeq(way, k + 1, Len(way))
                   /\ cpc' = "idle" /\ cerr' = cerr
                   /\ IF conf.block
                      THEN /\ cread' = Tail(got)
                           /\ answers' = Append(answers, [call |-> asked, reply |-> Head(got)])
                      ELSE cread' = got /\ answers' = answers
  /\ UNCHANGED <<conf, fd, cobuf, addr, reuses, ret, fds, up, gen, appended, asked>>

Renewed == cobuf' = <<>> /\ cread' = <<>>

\* redisReconnect closes the descriptor and leaves its number in c->fd.  A
\* context made from one knows nothing to connect to.
Reconnect ==
  /\ cpc = "idle" /\ gen < MaxConnections
  /\ IF conf.type = "fd" THEN cerr' = TRUE /\ cpc' = "idle" /\ ret' = "ERR"
                         ELSE cerr' = FALSE /\ cpc' = "begin" /\ ret' = ret
  /\ fds' = fds \ {fd}
  /\ Renewed
  /\ gen' = gen + 1
  /\ appended' = 0 /\ asked' = 0 /\ answers' = <<>> /\ way' = <<>>
  /\ UNCHANGED <<conf, fd, addr, reuses, up>>

redisFree ==
  /\ cpc = "idle"
  /\ fds' = IF fd > 0 THEN fds \ {fd} ELSE fds
  /\ cpc' = "freed" /\ cobuf' = <<>> /\ cread' = <<>> /\ way' = <<>>
  /\ UNCHANGED <<conf, fd, cerr, addr, reuses, ret, up, gen, appended, asked, answers>>

ServerCloses == /\ up /\ cpc \in {"idle", "write", "read"}
                /\ up' = FALSE
                /\ UNCHANGED <<context, fds, way, gen, appended, asked, answers>>

Next == \/ Connecting
        \/ AppendCommand \/ GetReply \/ BufferWrite \/ BufferRead
        \/ Reconnect \/ redisFree
        \/ ServerCloses

Spec == Init /\ [][Next]_vars

-----------------------------------------------------------------------------
TypeOK == /\ conf \in Configurations
          /\ fd \in {-1, 0} \cup Descriptors
          /\ fds \subseteq Descriptors
          /\ addr \in 1 .. Addrs + 1 /\ reuses \in 0 .. Retries
          /\ Len(answers) + Len(cread) + Len(way) + Len(cobuf) <= appended

\* The n-th call for a reply on a connection gets the reply to its n-th command
\* or none: after a timeout, a failure or a reconnect no reply of before is
\* taken for the answer of a later command.
RepliesMatch == \A i \in DOMAIN answers : answers[i].reply = <<gen, answers[i].call>>

\* No descriptor leaks, on whatever path a connect, a retry or a reconnect
\* fails, and a context without an error has its descriptor.
DescriptorsOwned ==
  /\ fds \subseteq {fd}
  /\ cpc = "freed" => fds = {}
  /\ cpc = "idle" /\ ~cerr => fd \in fds
=============================================================================
