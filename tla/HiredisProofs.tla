---------------------------- MODULE HiredisProofs ----------------------------
(***************************************************************************)
(* That the synchronous redis client never takes the reply to one command    *)
(* for the reply to another and owns every descriptor it opened              *)
(* (hiredis.c:604-1007, net.c:60-418), for every number of addresses,        *)
(* retries, connections and commands; what AsyncProofs gives for the         *)
(* asynchronous context (async.c:226-716); that the dictionary is a map      *)
(* (dict.c:73-337); and that all parts of MCHiredis keep their types.        *)
(*                                                                          *)
(* Commands and replies are numbered within their connection, so what waits  *)
(* in the context and in the network are runs of consecutive numbers: the    *)
(* replies read come next after those that redisGetReply gave, those on      *)
(* their way follow, and the commands not sent yet end with the last one     *)
(* appended.  An error breaks the order of the three, and the invariant says *)
(* nothing of what follows it but that a blocking context has then nothing   *)
(* left that it would return.                                                *)
(*                                                                          *)
(* A table of the dictionary is a sequence of chains, each of entries with   *)
(* different keys that belong to its slot.  Such a table is the map of the   *)
(* entries it holds, whatever their order, and every operation is one on     *)
(* that set; an iterator has the rest of its chain and the slots behind it   *)
(* before it, which hold all it has not returned.                            *)
(***************************************************************************)
EXTENDS MCHiredis, AsyncProofs, ReplyProofs, FunctionTheorems

Connecting == {"begin", "socket", "bind", "connect", "finish"}
Stages == Connecting \cup {"idle", "write", "read", "freed"}

Commands == Nat \X Nat
Answers == [call : Nat, reply : Commands]

\* The members of s are those of connection g with the numbers after b.
RunOf(s, g, b) == \A i \in 1 .. Len(s) : s[i] = <<g, b + i>>

\* Each answer is the reply of connection g to the call that returned it.
Matching(s, g) == \A i \in DOMAIN s : s[i].reply = <<g, s[i].call>>

\* The calls that have got their reply: one that waits has not.
Answered == IF cpc \in {"write", "read"} THEN asked - 1 ELSE asked

SyncTypes ==
  /\ conf \in Sync!Configurations
  /\ cpc \in Stages /\ cerr \in BOOLEAN /\ up \in BOOLEAN
  /\ cobuf \in Seq(Commands) /\ cread \in Seq(Commands) /\ way \in Seq(Commands)
  /\ gen \in Nat /\ appended \in Nat /\ asked \in Nat
  /\ answers \in Seq(Answers)

DescriptorsInv ==
  /\ fd \in Int /\ fds \subseteq {fd} /\ fds \subseteq Sync!Descriptors
  /\ cpc \in {"begin", "socket", "freed"} => fds = {}
  /\ cpc \in {"bind", "connect", "finish"} => fd \in fds
  /\ cpc = "idle" /\ ~cerr => fd \in fds

WaitingInv == cpc \in {"write", "read"} => conf.block /\ cread = <<>> /\ asked >= 1

UnusedInv == cpc \in Connecting => /\ cobuf = <<>> /\ cread = <<>> /\ way = <<>>
                                   /\ appended = 0 /\ asked = 0

ReadInv == /\ conf.block /\ cerr => cread = <<>>
           /\ RunOf(cread, gen, Answered)

SentInv == cpc # "freed" /\ ~cerr =>
             /\ RunOf(way, gen, Answered + Len(cread))
             /\ RunOf(cobuf, gen, appended - Len(cobuf))
             /\ up => Answered + Len(cread) + Len(way) + Len(cobuf) = appended

SyncInv == /\ SyncTypes /\ DescriptorsInv
           /\ WaitingInv /\ UnusedInv /\ ReadInv /\ SentInv
           /\ Sync!RepliesMatch

-----------------------------------------------------------------------------
(* Runs of numbers.                                                         *)

LEMMA RunOfNone ==
  ASSUME NEW g, NEW b
  PROVE  RunOf(<<>>, g, b)
  BY DEF RunOf

LEMMA RunOfTail ==
  ASSUME NEW s \in Seq(Commands), s # <<>>, NEW g, NEW b \in Int, RunOf(s, g, b)
  PROVE  /\ Head(s) = <<g, b + 1>> /\ Head(s) \in Commands
         /\ Tail(s) \in Seq(Commands) /\ Len(Tail(s)) = Len(s) - 1
         /\ RunOf(Tail(s), g, b + 1)
  <1>1. /\ Head(s) = s[1] /\ Head(s) \in Commands /\ 1 \in 1 .. Len(s)
        /\ Tail(s) \in Seq(Commands) /\ Len(Tail(s)) = Len(s) - 1
    OBVIOUS
  <1>2. \A i \in 1 .. Len(s) - 1 : Tail(s)[i] = s[i + 1] /\ i + 1 \in 1 .. Len(s)
    OBVIOUS
  <1>3. \A i \in 1 .. Len(s) - 1 : b + (i + 1) = (b + 1) + i
    OBVIOUS
  <1> QED
    BY <1>1, <1>2, <1>3 DEF RunOf

LEMMA RunOfAppend ==
  ASSUME NEW s \in Seq(Commands), NEW g, NEW b \in Int, RunOf(s, g, b),
         NEW c \in Commands, c = <<g, b + Len(s) + 1>>
  PROVE  /\ Append(s, c) \in Seq(Commands) /\ Len(Append(s, c)) = Len(s) + 1
         /\ RunOf(Append(s, c), g, b)
  <1>1. /\ Append(s, c) \in Seq(Commands) /\ Len(Append(s, c)) = Len(s) + 1
        /\ \A i \in 1 .. Len(s) : Append(s, c)[i] = s[i]
        /\ Append(s, c)[Len(s) + 1] = c
    OBVIOUS
  <1>2. \A i \in 1 .. Len(s) + 1 : i \in 1 .. Len(s) \/ i = Len(s) + 1
    OBVIOUS
  <1>3. b + (Len(s) + 1) = b + Len(s) + 1
    OBVIOUS
  <1> QED
    BY <1>1, <1>2, <1>3 DEF RunOf

LEMMA RunOfParts ==
  ASSUME NEW s \in Seq(Commands), NEW g, NEW b \in Int, RunOf(s, g, b), NEW k \in 0 .. Len(s)
  PROVE  /\ SubSeq(s, 1, k) \in Seq(Commands) /\ Len(SubSeq(s, 1, k)) = k
         /\ RunOf(SubSeq(s, 1, k), g, b)
         /\ SubSeq(s, k + 1, Len(s)) \in Seq(Commands)
         /\ Len(SubSeq(s, k + 1, Len(s))) = Len(s) - k
         /\ RunOf(SubSeq(s, k + 1, Len(s)), g, b + k)
  <1>1. /\ SubSeq(s, 1, k) \in Seq(Commands) /\ Len(SubSeq(s, 1, k)) = k
        /\ \A i \in 1 .. k : SubSeq(s, 1, k)[i] = s[i] /\ i \in 1 .. Len(s)
    OBVIOUS
  <1>2. /\ SubSeq(s, k + 1, Len(s)) \in Seq(Commands)
        /\ Len(SubSeq(s, k + 1, Len(s))) = Len(s) - k
        /\ \A i \in 1 .. Len(s) - k : SubSeq(s, k + 1, Len(s))[i] = s[k + i]
    OBVIOUS
  <1>3. \A i \in 1 .. Len(s) - k : k + i \in 1 .. Len(s) /\ b + (k + i) = (b + k) + i
    OBVIOUS
  <1>4. RunOf(SubSeq(s, 1, k), g, b)
    BY <1>1 DEF RunOf
  <1>5. RunOf(SubSeq(s, k + 1, Len(s)), g, b + k)
    BY <1>2, <1>3 DEF RunOf
  <1> QED
    BY <1>1, <1>2, <1>4, <1>5

LEMMA RunOfJoined ==
  ASSUME NEW s \in Seq(Commands), NEW t \in Seq(Commands), NEW g, NEW b \in Int,
         RunOf(s, g, b), NEW c \in Int, c = b + Len(s), RunOf(t, g, c)
  PROVE  /\ s \o t \in Seq(Commands) /\ Len(s \o t) = Len(s) + Len(t)
         /\ RunOf(s \o t, g, b)
  <1>1. /\ s \o t \in Seq(Commands) /\ Len(s \o t) = Len(s) + Len(t)
        /\ \A i \in 1 .. Len(s) : (s \o t)[i] = s[i]
        /\ \A i \in 1 .. Len(t) : (s \o t)[Len(s) + i] = t[i]
    OBVIOUS
  <1>2. SUFFICES ASSUME NEW i \in 1 .. Len(s) + Len(t)
                 PROVE  (s \o t)[i] = <<g, b + i>>
    BY <1>1 DEF RunOf
  <1>3. CASE i <= Len(s)
    BY <1>1, <1>3 DEF RunOf
  <1>4. CASE i > Len(s)
    <2> DEFINE j == i - Len(s)
    <2>1. j \in 1 .. Len(t) /\ i = Len(s) + j
      BY <1>4
    <2> HIDE DEF j
    <2>2. (s \o t)[i] = t[j] /\ t[j] = <<g, c + j>>
      BY <1>1, <2>1 DEF RunOf
    <2>3. c + j = b + i
      BY <2>1
    <2> QED
      BY <2>2, <2>3
  <1> QED
    BY <1>3, <1>4

LEMMA AnswerMatches ==
  ASSUME NEW s \in Seq(Answers), NEW g \in Nat, NEW n \in Nat,
         Matching(s, g), NEW a, a = [call |-> n, reply |-> <<g, n>>]
  PROVE  Append(s, a) \in Seq(Answers) /\ Matching(Append(s, a), g)
  <1>1. a \in Answers /\ a.reply = <<g, a.call>>
    BY DEF Answers, Commands
  <1>2. /\ Append(s, a) \in Seq(Answers) /\ DOMAIN Append(s, a) = 1 .. Len(s) + 1
        /\ DOMAIN s = 1 .. Len(s)
        /\ \A i \in 1 .. Len(s) : Append(s, a)[i] = s[i]
        /\ Append(s, a)[Len(s) + 1] = a
    BY <1>1
  <1>3. \A i \in 1 .. Len(s) + 1 : i \in 1 .. Len(s) \/ i = Len(s) + 1
    OBVIOUS
  <1> QED
    BY <1>1, <1>2, <1>3 DEF Matching

-----------------------------------------------------------------------------
(* The first state                                                          *)

LEMMA SyncStarts ==
  ASSUME Sync!Init
  PROVE  SyncInv
  <1> USE DEF Sync!Init
  <1>1. SyncTypes
    <2>1. <<>> \in Seq(Commands) /\ <<>> \in Seq(Answers)
      OBVIOUS
    <2>2. cpc \in Stages
      BY DEF Stages, Connecting
    <2> QED
      BY <2>1, <2>2 DEF SyncTypes
  <1>2. DescriptorsInv
    <2>1. 3 \in Sync!Descriptors
      BY HiredisAssumption DEF Sync!Descriptors
    <2> QED
      BY <2>1 DEF DescriptorsInv, Sync!GivenFd
  <1>3. WaitingInv /\ UnusedInv
    BY DEF WaitingInv, UnusedInv
  <1>4. ReadInv
    BY RunOfNone DEF ReadInv
  <1>5. SentInv
    BY RunOfNone DEF SentInv, Answered
  <1>6. Sync!RepliesMatch
    BY DEF Sync!RepliesMatch
  <1> QED
    BY <1>1, <1>2, <1>3, <1>4, <1>5, <1>6 DEF SyncInv

-----------------------------------------------------------------------------
(* Connecting                                                               *)

\* Only one descriptor is open at a time, so that a new one has the lowest number.
LEMMA SocketOpened ==
  ASSUME fds = {}, Sync!Opened
  PROVE  fds' = {fd'} /\ fd' \in Sync!Descriptors
  <1> USE HiredisAssumption
  <1>1. 3 \in Sync!Descriptors /\ \A m \in Sync!Descriptors : 3 <= m
    BY DEF Sync!Descriptors
  <1>2. Sync!NewFd \in Sync!Descriptors
    BY <1>1 DEF Sync!NewFd
  <1> QED
    BY <1>2 DEF Sync!Opened

LEMMA NoneOpen ==
  ASSUME fds' = {}, fd' \in Int,
         cpc' \in {"begin", "socket", "freed"} \/ (cpc' = "idle" /\ cerr')
  PROVE  DescriptorsInv'
  BY DEF DescriptorsInv

LEMMA DescriptorClosed ==
  ASSUME DescriptorsInv, Sync!CloseFd
  PROVE  fds' = {} /\ fd' \in Int
  <1>1. fds' = {}
    BY DEF DescriptorsInv, Sync!CloseFd
  <1>2. fd' \in Int
    BY DEF DescriptorsInv, Sync!CloseFd
  <1> QED
    BY <1>1, <1>2

\* While the context connects the queues are as they were, empty, and so is the
\* network.
LEMMA ConnectingFrame ==
  ASSUME SyncInv, cpc \in Connecting, cpc' \in Connecting \cup {"idle"},
         cerr' \in BOOLEAN, up' \in BOOLEAN, way' = <<>>,
         UNCHANGED <<conf, cobuf, cread, gen, appended, asked, answers>>, DescriptorsInv'
  PROVE  SyncInv'
  <1> USE DEF SyncInv
  <1>1. cobuf' = <<>> /\ cread' = <<>> /\ appended' = 0 /\ asked' = 0
    BY DEF UnusedInv
  <1>2. SyncTypes'
    BY DEF SyncTypes, Stages
  <1>3. cpc' \notin {"write", "read"}
    BY DEF Connecting
  <1>4. WaitingInv' /\ UnusedInv'
    BY <1>1, <1>3 DEF WaitingInv, UnusedInv
  <1>5. ReadInv'
    BY <1>1, RunOfNone DEF ReadInv
  <1>6. SentInv'
    BY <1>1, <1>3, RunOfNone DEF SentInv, Answered
  <1>7. Sync!RepliesMatch'
    BY DEF Sync!RepliesMatch
  <1> QED
    BY <1>2, <1>4, <1>5, <1>6, <1>7

LEMMA ConnectingKeepsOrder ==
  ASSUME SyncInv, Sync!Connecting, DescriptorsInv'
  PROVE  SyncInv'
  <1>1. /\ cpc \in Connecting /\ cpc' \in Connecting \cup {"idle"}
        /\ UNCHANGED <<conf, cobuf, cread, gen, appended, asked, answers>>
    BY DEF Sync!Connecting, Sync!ConnectBegin, Sync!SocketTcp, Sync!SocketUnix, Sync!Bind,
           Sync!Connect, Sync!ConnectFinish, Sync!Fail, Sync!Goto, Sync!Unreachable,
           Sync!AddressInUse, Sync!WaitFails, Connecting
  <1>2. way' = <<>> /\ up' \in BOOLEAN
    BY <1>1 DEF Sync!Connecting, Sync!ConnectBegin, Sync!SocketTcp, Sync!SocketUnix, Sync!Bind,
           Sync!Connect, Sync!ConnectFinish, SyncInv, SyncTypes, UnusedInv
  <1>3. cerr' \in BOOLEAN
    BY DEF Sync!Connecting, Sync!ConnectBegin, Sync!SocketTcp, Sync!SocketUnix, Sync!Bind,
           Sync!Connect, Sync!ConnectFinish, Sync!Fail, Sync!Goto, Sync!Unreachable,
           Sync!AddressInUse, Sync!WaitFails, SyncInv, SyncTypes
  <1> QED
    BY <1>1, <1>2, <1>3, ConnectingFrame

LEMMA ConnectingKeepsDescriptors ==
  ASSUME SyncInv, Sync!Connecting
  PROVE  DescriptorsInv'
  <1> USE DEF SyncInv
  <1>1. CASE Sync!ConnectBegin
    BY <1>1 DEF Sync!ConnectBegin, DescriptorsInv, Sync!KeepFd, Sync!Fail, Sync!Goto
  <1>2. ASSUME cpc = "socket", Sync!Opened,
               Sync!Goto("bind") \/ Sync!Goto("connect") \/ Sync!Fail(FALSE)
        PROVE  DescriptorsInv'
    <2>1. fds' = {fd'} /\ fd' \in Sync!Descriptors /\ fd' \in Int
      BY <1>2, SocketOpened DEF DescriptorsInv, Sync!Descriptors
    <2>2. cpc' \in {"bind", "connect", "idle"}
      BY <1>2 DEF Sync!Goto, Sync!Fail
    <2> QED
      BY <2>1, <2>2 DEF DescriptorsInv
  <1>3. ASSUME cpc = "socket", Sync!KeepFd \/ (fds' = fds /\ fd' = -1),
               Sync!Goto("socket") \/ Sync!Fail(TRUE)
        PROVE  DescriptorsInv'
    <2>1. fds' = {}
      BY <1>3 DEF DescriptorsInv, Sync!KeepFd
    <2>3. fd' \in Int
      BY <1>3 DEF DescriptorsInv, Sync!KeepFd
    <2>2. cpc' = "socket" \/ (cpc' = "idle" /\ cerr')
      BY <1>3 DEF Sync!Goto, Sync!Fail
    <2> QED
      BY <2>1, <2>2, <2>3, NoneOpen
  <1>4. CASE Sync!SocketTcp
    BY <1>2, <1>3, <1>4 DEF Sync!SocketTcp
  <1>5. CASE Sync!SocketUnix
    BY <1>2, <1>3, <1>5 DEF Sync!SocketUnix
  <1>6. ASSUME fd \in fds, Sync!KeepFd, cpc' \in {"connect", "finish", "idle"}
        PROVE  DescriptorsInv'
    BY <1>6 DEF DescriptorsInv, Sync!KeepFd
  <1>7. ASSUME Sync!CloseFd, Sync!Goto("socket") \/ Sync!Fail(TRUE)
        PROVE  DescriptorsInv'
    <2>1. cpc' = "socket" \/ (cpc' = "idle" /\ cerr')
      BY <1>7 DEF Sync!Goto, Sync!Fail
    <2> QED
      BY <1>7, <2>1, DescriptorClosed, NoneOpen
  <1>8. CASE Sync!Bind
    BY <1>6, <1>8 DEF Sync!Bind, DescriptorsInv, Sync!Fail, Sync!Goto
  <1>9. CASE Sync!Connect
    <2>1. fd \in fds
      BY <1>9 DEF Sync!Connect, DescriptorsInv
    <2>2. \/ Sync!CloseFd /\ (Sync!Goto("socket") \/ Sync!Fail(TRUE))
          \/ Sync!KeepFd /\ (Sync!Goto("finish") \/ Sync!Fail(TRUE) \/ Sync!Fail(FALSE))
      BY <1>9 DEF Sync!Connect, Sync!Unreachable, Sync!AddressInUse, Sync!WaitFails
    <2>3. ASSUME Sync!Goto("finish") \/ Sync!Fail(TRUE) \/ Sync!Fail(FALSE)
          PROVE  cpc' \in {"finish", "idle"}
      BY <2>3 DEF Sync!Goto, Sync!Fail
    <2> QED
      BY <1>6, <1>7, <2>1, <2>2, <2>3
  <1>10. CASE Sync!ConnectFinish
    <2>1. fd \in fds
      BY <1>10 DEF Sync!ConnectFinish, DescriptorsInv
    <2> QED
      BY <1>6, <1>7, <1>10, <2>1 DEF Sync!ConnectFinish
  <1> QED
    BY <1>1, <1>4, <1>5, <1>8, <1>9, <1>10 DEF Sync!Connecting

-----------------------------------------------------------------------------
(* The pipeline                                                             *)

LEMMA AppendKeeps ==
  ASSUME SyncInv, Sync!AppendCommand
  PROVE  SyncInv'
  <1> USE DEF SyncInv, Sync!AppendCommand
  <1>1. /\ cobuf \in Seq(Commands) /\ cread \in Seq(Commands) /\ way \in Seq(Commands)
        /\ gen \in Nat /\ appended \in Nat /\ asked \in Nat
    BY DEF SyncTypes
  <1> DEFINE c == <<gen, appended + 1>>
  <1>2. c \in Commands /\ c = <<gen, appended + 1>>
    BY <1>1 DEF Commands
  <1>3. cobuf' = Append(cobuf, c)
    OBVIOUS
  <1> HIDE DEF c
  <1>4. cobuf' \in Seq(Commands) /\ Len(cobuf') = Len(cobuf) + 1
    BY <1>1, <1>2, <1>3
  <1>5. SyncTypes'
    BY <1>4 DEF SyncTypes
  <1>6. DescriptorsInv' /\ WaitingInv' /\ UnusedInv'
    BY DEF DescriptorsInv, WaitingInv, UnusedInv, Connecting
  <1>7. ReadInv'
    BY DEF ReadInv, Answered
  <1>8. Sync!RepliesMatch'
    BY DEF Sync!RepliesMatch
  <1>9. ASSUME ~cerr
        PROVE  SentInv'
    <2>1. /\ RunOf(way, gen, Answered + Len(cread))
          /\ RunOf(cobuf, gen, appended - Len(cobuf))
          /\ up => Answered + Len(cread) + Len(way) + Len(cobuf) = appended
      BY <1>9 DEF SentInv
    <2>2. appended + 1 = appended - Len(cobuf) + Len(cobuf) + 1 /\ appended - Len(cobuf) \in Int
      BY <1>1
    <2>3. RunOf(cobuf', gen, appended - Len(cobuf))
      BY <1>1, <1>2, <1>3, <2>1, <2>2, RunOfAppend
    <2>4. appended' - Len(cobuf') = appended - Len(cobuf)
      BY <1>1, <1>4
    <2>5. RunOf(cobuf', gen', appended' - Len(cobuf'))
      BY <2>3, <2>4
    <2>6. Answered' = Answered /\ Answered \in Int
      BY <1>1 DEF Answered
    <2>7. ASSUME up'
          PROVE  Answered' + Len(cread') + Len(way') + Len(cobuf') = appended'
      <3>1. Answered + Len(cread) + Len(way) + Len(cobuf) = appended
        BY <2>1, <2>7
      <3>2. /\ Len(cread) \in Nat /\ Len(way) \in Nat /\ Len(cobuf) \in Nat
            /\ Len(cread') = Len(cread) /\ Len(way') = Len(way) /\ appended' = appended + 1
        BY <1>1
      <3> QED
        BY <1>1, <1>4, <2>6, <3>1, <3>2
    <2> QED
      BY <2>1, <2>5, <2>6, <2>7 DEF SentInv
  <1>10. ASSUME cerr
         PROVE  SentInv'
    BY <1>10 DEF SentInv
  <1> QED
    BY <1>5, <1>6, <1>7, <1>8, <1>9, <1>10

LEMMA GetReplyKeeps ==
  ASSUME SyncInv, Sync!GetReply
  PROVE  SyncInv'
  <1> USE DEF SyncInv
  <1>1. /\ cobuf \in Seq(Commands) /\ cread \in Seq(Commands) /\ way \in Seq(Commands)
        /\ gen \in Nat /\ appended \in Nat /\ asked \in Nat /\ answers \in Seq(Answers)
    BY DEF SyncTypes
  <1>2. /\ cpc = "idle" /\ Answered = asked
        /\ UNCHANGED <<conf, fd, cerr, cobuf, ret, fds, way, up, gen, appended>>
    BY DEF Sync!GetReply, Answered
  <1>3. CASE cread # <<>>
    <2>1. /\ answers' = Append(answers, [call |-> asked + 1, reply |-> Head(cread)])
          /\ cread' = Tail(cread) /\ cpc' = "idle" /\ asked' = asked + 1
      BY <1>3 DEF Sync!GetReply
    <2>2. RunOf(cread, gen, asked)
      BY <1>2 DEF ReadInv
    <2>3. /\ Head(cread) = <<gen, asked + 1>> /\ Head(cread) \in Commands
          /\ Tail(cread) \in Seq(Commands) /\ Len(Tail(cread)) = Len(cread) - 1
          /\ RunOf(Tail(cread), gen, asked + 1)
      BY <1>1, <1>3, <2>2, RunOfTail
    <2>4. answers' \in Seq(Answers) /\ Sync!RepliesMatch'
      <3>1. asked + 1 \in Nat /\ Matching(answers, gen)
        BY <1>1 DEF Sync!RepliesMatch, Matching
      <3>2. PICK a : a = [call |-> asked + 1, reply |-> <<gen, asked + 1>>]
        OBVIOUS
      <3>3. answers' = Append(answers, a)
        BY <2>1, <2>3, <3>2
      <3>4. Append(answers, a) \in Seq(Answers) /\ Matching(Append(answers, a), gen)
        BY <1>1, <3>1, <3>2, AnswerMatches
      <3> QED
        BY <1>2, <3>3, <3>4 DEF Sync!RepliesMatch, Matching
    <2>5. SyncTypes'
      BY <1>1, <1>2, <2>1, <2>3, <2>4 DEF SyncTypes, Stages
    <2>6. DescriptorsInv' /\ WaitingInv' /\ UnusedInv'
      BY <1>2, <2>1 DEF DescriptorsInv, WaitingInv, UnusedInv, Connecting
    <2>7. Answered' = asked + 1
      BY <2>1 DEF Answered
    <2>8. ~(conf.block /\ cerr)
      BY <1>3 DEF ReadInv
    <2>9. ReadInv'
      BY <1>2, <2>1, <2>3, <2>7, <2>8 DEF ReadInv
    <2>10. Answered' + Len(cread') = Answered + Len(cread)
      BY <1>1, <1>2, <2>1, <2>3, <2>7
    <2>11. SentInv'
      BY <1>2, <2>10 DEF SentInv
    <2> QED
      BY <2>4, <2>5, <2>6, <2>9, <2>11
  <1>4. CASE cread = <<>>
    <2>1. /\ conf.block /\ cpc' = "write" /\ answers' = answers /\ cread' = cread
          /\ asked' = asked + 1
      BY <1>4 DEF Sync!GetReply
    <2>2. Answered' = Answered
      BY <1>1, <1>2, <2>1 DEF Answered
    <2>3. SyncTypes'
      BY <1>1, <1>2, <2>1 DEF SyncTypes, Stages
    <2>4. DescriptorsInv' /\ UnusedInv'
      BY <1>2, <2>1 DEF DescriptorsInv, UnusedInv, Connecting
    <2>5. WaitingInv'
      BY <1>1, <1>2, <1>4, <2>1 DEF WaitingInv
    <2>6. ReadInv'
      BY <1>2, <2>1, <2>2 DEF ReadInv
    <2>7. SentInv'
      BY <1>2, <2>1, <2>2 DEF SentInv
    <2>8. Sync!RepliesMatch'
      BY <1>2, <2>1 DEF Sync!RepliesMatch
    <2> QED
      BY <2>3, <2>4, <2>5, <2>6, <2>7, <2>8
  <1> QED
    BY <1>3, <1>4

\* A step of a call that waits for a reply, or of the user of a context that does
\* not block, keeps what it does not touch.
LEMMA TransferFrame ==
  ASSUME SyncInv, cpc \in {"idle", "write", "read"}, cpc' \in {"idle", "write", "read"},
         UNCHANGED <<conf, fd, fds>>, cpc' = "idle" /\ ~cerr' => fd \in fds
  PROVE  DescriptorsInv' /\ UnusedInv'
  <1>1. DescriptorsInv'
    BY DEF SyncInv, DescriptorsInv
  <1>2. UnusedInv'
    BY DEF UnusedInv, Connecting
  <1> QED
    BY <1>1, <1>2

\* What a failure leaves: the error is set, and a blocking context has nothing read.
LEMMA TransferFails ==
  ASSUME SyncInv, cpc \in {"idle", "write", "read"}, cpc = "idle" => ~conf.block,
         Sync!Returned(TRUE),
         UNCHANGED <<conf, fd, cobuf, cread, fds, way, up, gen, appended, asked, answers>>
  PROVE  SyncInv'
  <1> USE DEF SyncInv
  <1>1. cpc' = "idle" /\ cerr' = TRUE
    BY DEF Sync!Returned
  <1>2. SyncTypes'
    BY <1>1 DEF SyncTypes, Stages
  <1>3. DescriptorsInv' /\ UnusedInv'
    BY <1>1, TransferFrame
  <1>4. WaitingInv' /\ SentInv'
    BY <1>1 DEF WaitingInv, SentInv
  <1>5. ReadInv'
    <2>1. CASE cpc = "idle"
      BY <1>1, <2>1 DEF ReadInv, Answered
    <2>2. CASE cpc # "idle"
      BY <2>2, RunOfNone DEF ReadInv, WaitingInv
    <2> QED
      BY <2>1, <2>2
  <1>6. Sync!RepliesMatch'
    BY DEF Sync!RepliesMatch
  <1> QED
    BY <1>2, <1>3, <1>4, <1>5, <1>6

LEMMA WriteKeeps ==
  ASSUME SyncInv, Sync!BufferWrite
  PROVE  SyncInv'
  <1> USE DEF SyncInv
  <1>1. /\ cobuf \in Seq(Commands) /\ cread \in Seq(Commands) /\ way \in Seq(Commands)
        /\ gen \in Nat /\ appended \in Nat /\ asked \in Nat /\ answers \in Seq(Answers)
    BY DEF SyncTypes
  <1>2. /\ cpc = "write" \/ (cpc = "idle" /\ ~conf.block)
        /\ UNCHANGED <<conf, fd, cread, fds, up, gen, appended, asked, answers>>
    BY DEF Sync!BufferWrite
  <1>3. CASE Sync!Returned(TRUE) /\ UNCHANGED <<cobuf, way>>
    BY <1>2, <1>3, TransferFails
  <1>4. CASE ~(Sync!Returned(TRUE) /\ UNCHANGED <<cobuf, way>>)
    <2>1. /\ ~cerr /\ fd \in fds
          /\ \E k \in 0 .. Len(cobuf) :
               /\ cobuf' = SubSeq(cobuf, k + 1, Len(cobuf))
               /\ way' = IF up THEN way \o SubSeq(cobuf, 1, k) ELSE way
               /\ cpc' = IF conf.block /\ cobuf' = <<>> THEN "read" ELSE cpc
               /\ cerr' = cerr
      BY <1>4 DEF Sync!BufferWrite, Sync!Failed
    <2>2. PICK k \in 0 .. Len(cobuf) :
               /\ cobuf' = SubSeq(cobuf, k + 1, Len(cobuf))
               /\ way' = IF up THEN way \o SubSeq(cobuf, 1, k) ELSE way
               /\ cpc' = IF conf.block /\ cobuf' = <<>> THEN "read" ELSE cpc
               /\ cerr' = cerr
      BY <2>1
    <2> DEFINE sent == SubSeq(cobuf, 1, k)
               rest == SubSeq(cobuf, k + 1, Len(cobuf))
               b == Answered + Len(cread)
               c == appended - Len(cobuf)
    <2>3. Answered \in Int /\ Len(cread) \in Nat /\ Len(way) \in Nat /\ Len(cobuf) \in Nat
      BY <1>1 DEF Answered
    <2>4. b \in Int /\ c \in Int /\ k \in Nat
      BY <1>1, <2>3
    <2>5. /\ RunOf(way, gen, b) /\ RunOf(cobuf, gen, c)
          /\ up => b + Len(way) + Len(cobuf) = appended
      BY <1>2, <2>1 DEF SentInv
    <2>6. /\ sent \in Seq(Commands) /\ Len(sent) = k /\ RunOf(sent, gen, c)
          /\ rest \in Seq(Commands) /\ Len(rest) = Len(cobuf) - k /\ RunOf(rest, gen, c + k)
      BY <1>1, <2>4, <2>5, RunOfParts
    <2>7. cobuf' = rest /\ way' = IF up THEN way \o sent ELSE way
      BY <2>2
    <2>8. up => c = b + Len(way)
      BY <1>1, <2>3, <2>4, <2>5
    <2> HIDE DEF sent, rest, b, c
    <2>9. appended - Len(rest) = c + k
      BY <1>1, <2>3, <2>4, <2>6 DEF c
    <2>10. ASSUME up
           PROVE  way \o sent \in Seq(Commands) /\ Len(way \o sent) = Len(way) + k
                  /\ RunOf(way \o sent, gen, b)
      BY <1>1, <2>4, <2>5, <2>6, <2>8, <2>10, RunOfJoined
    <2>11. way' \in Seq(Commands) /\ RunOf(way', gen, b) /\ (up => Len(way') = Len(way) + k)
      BY <1>1, <2>5, <2>7, <2>10
    <2>12. cpc' \in {"idle", "write", "read"} /\ (cpc' = "idle" <=> cpc = "idle")
      BY <1>2, <2>2
    <2>13. SyncTypes'
      BY <1>2, <2>2, <2>6, <2>7, <2>11, <2>12 DEF SyncTypes, Stages
    <2>14. DescriptorsInv' /\ UnusedInv'
      BY <1>2, <2>1, <2>12, TransferFrame
    <2>15. Answered' = Answered
      BY <1>2, <2>12 DEF Answered
    <2>16. WaitingInv'
      BY <1>2, <2>12 DEF WaitingInv
    <2>17. ReadInv'
      BY <1>2, <2>2, <2>15 DEF ReadInv
    <2>18. Sync!RepliesMatch'
      BY <1>2 DEF Sync!RepliesMatch
    <2>19. /\ RunOf(way', gen', Answered' + Len(cread'))
           /\ RunOf(cobuf', gen', appended' - Len(cobuf'))
      BY <1>2, <2>6, <2>7, <2>9, <2>11, <2>15 DEF b
    <2>20. ASSUME up'
           PROVE  Answered' + Len(cread') + Len(way') + Len(cobuf') = appended'
      <3>1. up /\ Len(way') = Len(way) + k /\ Len(cobuf') = Len(cobuf) - k /\ appended' = appended
        BY <1>2, <2>6, <2>7, <2>11, <2>20
      <3>2. Answered' + Len(cread') = b
        BY <1>2, <2>15 DEF b
      <3>3. b + Len(way) + Len(cobuf) = appended
        BY <2>5, <3>1
      <3> QED
        BY <2>3, <2>4, <3>1, <3>2, <3>3
    <2>21. SentInv'
      BY <2>19, <2>20 DEF SentInv
    <2> QED
      BY <2>13, <2>14, <2>16, <2>17, <2>18, <2>21
  <1> QED
    BY <1>3, <1>4

LEMMA ReadKeeps ==
  ASSUME SyncInv, Sync!BufferRead
  PROVE  SyncInv'
  <1> USE DEF SyncInv
  <1>1. /\ cobuf \in Seq(Commands) /\ cread \in Seq(Commands) /\ way \in Seq(Commands)
        /\ gen \in Nat /\ appended \in Nat /\ asked \in Nat /\ answers \in Seq(Answers)
    BY DEF SyncTypes
  <1>2. /\ cpc = "read" \/ (cpc = "idle" /\ ~conf.block)
        /\ UNCHANGED <<conf, fd, cobuf, fds, up, gen, appended, asked>>
    BY DEF Sync!BufferRead
  <1>3. CASE Sync!Returned(TRUE) /\ UNCHANGED <<cread, way, answers>>
    BY <1>2, <1>3, TransferFails
  <1>4. CASE ~(Sync!Returned(TRUE) /\ UNCHANGED <<cread, way, answers>>)
    <2>1. /\ ~cerr /\ fd \in fds
          /\ \E k \in 1 .. Len(way) :
               LET now == cread \o SubSeq(way, 1, k)
               IN  /\ way' = SubSeq(way, k + 1, Len(way))
                   /\ cpc' = "idle" /\ cerr' = cerr
                   /\ IF conf.block
                      THEN /\ cread' = Tail(now)
                           /\ answers' = Append(answers, [call |-> asked, reply |-> Head(now)])
                      ELSE cread' = now /\ answers' = answers
      BY <1>4 DEF Sync!BufferRead, Sync!Failed
    <2>2. PICK k \in 1 .. Len(way) :
               LET now == cread \o SubSeq(way, 1, k)
               IN  /\ way' = SubSeq(way, k + 1, Len(way))
                   /\ cpc' = "idle" /\ cerr' = cerr
                   /\ IF conf.block
                      THEN /\ cread' = Tail(now)
                           /\ answers' = Append(answers, [call |-> asked, reply |-> Head(now)])
                      ELSE cread' = now /\ answers' = answers
      BY <2>1
    <2> DEFINE come == SubSeq(way, 1, k)
               rest == SubSeq(way, k + 1, Len(way))
               now == cread \o come
               b == Answered + Len(cread)
    <2>3. Answered \in Int /\ Len(cread) \in Nat /\ Len(way) \in Nat /\ Len(cobuf) \in Nat
      BY <1>1 DEF Answered
    <2>4. b \in Int /\ k \in Nat /\ k >= 1 /\ k \in 0 .. Len(way)
      BY <1>1, <2>3
    <2>5. /\ RunOf(way, gen, b) /\ RunOf(cobuf, gen, appended - Len(cobuf))
          /\ up => b + Len(way) + Len(cobuf) = appended
      BY <1>2, <2>1 DEF SentInv
    <2>6. /\ come \in Seq(Commands) /\ Len(come) = k /\ RunOf(come, gen, b)
          /\ rest \in Seq(Commands) /\ Len(rest) = Len(way) - k /\ RunOf(rest, gen, b + k)
      BY <1>1, <2>4, <2>5, RunOfParts
    <2>7. RunOf(cread, gen, Answered)
      BY DEF ReadInv
    <2>8. /\ way' = rest /\ cpc' = "idle" /\ cerr' = cerr
          /\ conf.block => /\ cread' = Tail(now)
                           /\ answers' = Append(answers, [call |-> asked, reply |-> Head(now)])
          /\ ~conf.block => cread' = now /\ answers' = answers
      BY <2>2
    <2> HIDE DEF come, rest
    <2>9. now \in Seq(Commands) /\ Len(now) = Len(cread) + k /\ RunOf(now, gen, Answered)
      BY <1>1, <2>3, <2>4, <2>6, <2>7, RunOfJoined
    <2> HIDE DEF now, b
    <2>10. Answered' = asked
      BY <1>2, <2>8 DEF Answered
    <2>11. /\ cread' \in Seq(Commands) /\ answers' \in Seq(Answers) /\ Sync!RepliesMatch'
           /\ RunOf(cread', gen, Answered')
           /\ Answered' + Len(cread') = Answered + Len(cread) + k
      <3>1. CASE ~conf.block
        <4>1. Answered = asked
          BY <1>2, <3>1 DEF WaitingInv, Answered
        <4>2. Sync!RepliesMatch'
          BY <1>2, <2>8, <3>1 DEF Sync!RepliesMatch
        <4>3. cread' = now /\ answers' = answers /\ Answered' = Answered
          BY <2>8, <2>10, <3>1, <4>1
        <4>4. Answered' + Len(cread') = Answered + Len(cread) + k
          BY <2>3, <2>4, <2>9, <4>3
        <4> QED
          BY <1>1, <2>9, <4>2, <4>3, <4>4
      <3>2. CASE conf.block
        <4>1. Answered = asked - 1 /\ cread = <<>> /\ Len(cread) = 0
          BY <1>2, <3>2 DEF Answered, WaitingInv
        <4>2. now # <<>>
          BY <2>4, <2>9, <4>1
        <4>3. /\ Head(now) = <<gen, Answered + 1>>
              /\ Tail(now) \in Seq(Commands) /\ Len(Tail(now)) = Len(now) - 1
              /\ RunOf(Tail(now), gen, Answered + 1)
          BY <2>3, <2>9, <4>2, RunOfTail
        <4>4. Answered + 1 = asked
          BY <1>1, <4>1
        <4>5. PICK a : a = [call |-> asked, reply |-> <<gen, asked>>]
          OBVIOUS
        <4>6. answers' = Append(answers, a)
          BY <2>8, <3>2, <4>3, <4>4, <4>5
        <4>7. Matching(answers, gen)
          BY DEF Sync!RepliesMatch, Matching
        <4>8. Append(answers, a) \in Seq(Answers) /\ Matching(Append(answers, a), gen)
          BY <1>1, <4>5, <4>7, AnswerMatches
        <4>9. answers' \in Seq(Answers) /\ Sync!RepliesMatch'
          BY <1>2, <4>6, <4>8 DEF Sync!RepliesMatch, Matching
        <4>10. cread' \in Seq(Commands) /\ RunOf(cread', gen, Answered')
          BY <2>8, <2>10, <3>2, <4>3, <4>4
        <4>11. Answered' + Len(cread') = Answered + Len(cread) + k
          <5>1. Len(cread') = k - 1
            BY <2>4, <2>8, <2>9, <3>2, <4>1, <4>3
          <5> QED
            BY <1>1, <2>3, <2>4, <2>10, <4>1, <5>1
        <4> QED
          BY <4>9, <4>10, <4>11
      <3> QED
        BY <3>1, <3>2
    <2>12. SyncTypes'
      BY <1>1, <1>2, <2>6, <2>8, <2>11 DEF SyncTypes, Stages
    <2>13. DescriptorsInv' /\ UnusedInv'
      BY <1>2, <2>1, <2>8, TransferFrame
    <2>14. WaitingInv' /\ ReadInv'
      BY <1>2, <2>1, <2>8, <2>11 DEF WaitingInv, ReadInv
    <2>15. Answered' + Len(cread') = b + k
      BY <2>11 DEF b
    <2>16. /\ RunOf(way', gen', Answered' + Len(cread'))
           /\ RunOf(cobuf', gen', appended' - Len(cobuf'))
      BY <1>2, <2>5, <2>6, <2>8, <2>15
    <2>17. ASSUME up'
           PROVE  Answered' + Len(cread') + Len(way') + Len(cobuf') = appended'
      <3>1. b + Len(way) + Len(cobuf) = appended
        BY <1>2, <2>5, <2>17
      <3>2. Len(way') = Len(way) - k /\ Len(cobuf') = Len(cobuf) /\ appended' = appended
        BY <1>2, <2>6, <2>8
      <3> QED
        BY <2>3, <2>4, <2>15, <3>1, <3>2
    <2>18. SentInv'
      BY <2>16, <2>17 DEF SentInv
    <2> QED
      BY <2>11, <2>12, <2>13, <2>14, <2>18
  <1> QED
    BY <1>3, <1>4

-----------------------------------------------------------------------------
(* The end of a connection                                                  *)

LEMMA ReconnectKeeps ==
  ASSUME SyncInv, Sync!Reconnect
  PROVE  SyncInv'
  <1> USE DEF SyncInv
  <1>1. /\ cpc = "idle" /\ (cpc' = "begin" \/ (cpc' = "idle" /\ cerr')) /\ cerr' \in BOOLEAN
        /\ cobuf' = <<>> /\ cread' = <<>> /\ way' = <<>> /\ answers' = <<>>
        /\ gen' = gen + 1 /\ appended' = 0 /\ asked' = 0 /\ fds' = fds \ {fd}
        /\ UNCHANGED <<conf, fd, up>>
    BY DEF Sync!Reconnect, Sync!Renewed
  <1>2. SyncTypes'
    <2>1. <<>> \in Seq(Commands) /\ <<>> \in Seq(Answers)
      OBVIOUS
    <2>2. cpc' \in Stages /\ gen' \in Nat
      BY <1>1 DEF Stages, Connecting, SyncTypes
    <2> QED
      BY <1>1, <2>1, <2>2 DEF SyncTypes
  <1>3. DescriptorsInv'
    <2>1. fds' = {} /\ fd' \in Int
      BY <1>1 DEF DescriptorsInv
    <2> QED
      BY <1>1, <2>1, NoneOpen
  <1>4. WaitingInv' /\ UnusedInv'
    BY <1>1 DEF WaitingInv, UnusedInv
  <1>5. ReadInv'
    BY <1>1, RunOfNone DEF ReadInv
  <1>6. SentInv'
    BY <1>1, RunOfNone DEF SentInv, Answered
  <1>7. Sync!RepliesMatch'
    BY <1>1 DEF Sync!RepliesMatch
  <1> QED
    BY <1>2, <1>3, <1>4, <1>5, <1>6, <1>7

LEMMA FreeKeeps ==
  ASSUME SyncInv, Sync!redisFree
  PROVE  SyncInv'
  <1> USE DEF SyncInv
  <1>1. /\ cpc' = "freed" /\ cobuf' = <<>> /\ cread' = <<>> /\ way' = <<>>
        /\ fds' = IF fd > 0 THEN fds \ {fd} ELSE fds
        /\ UNCHANGED <<conf, fd, cerr, up, gen, appended, asked, answers>>
    BY DEF Sync!redisFree
  <1>2. SyncTypes'
    <2>1. <<>> \in Seq(Commands) /\ cpc' \in Stages
      BY <1>1 DEF Stages
    <2> QED
      BY <1>1, <2>1 DEF SyncTypes
  <1>3. DescriptorsInv'
    <2>1. fd \in Int /\ fds \subseteq {fd} /\ \A n \in fds : n >= 3
      BY HiredisAssumption DEF DescriptorsInv, Sync!Descriptors
    <2>2. fds' = {}
      BY <1>1, <2>1
    <2> QED
      BY <1>1, <2>1, <2>2, NoneOpen
  <1>4. WaitingInv' /\ UnusedInv' /\ SentInv'
    BY <1>1 DEF WaitingInv, UnusedInv, SentInv, Connecting
  <1>5. ReadInv'
    BY <1>1, RunOfNone DEF ReadInv
  <1>6. Sync!RepliesMatch'
    BY <1>1 DEF Sync!RepliesMatch
  <1> QED
    BY <1>2, <1>3, <1>4, <1>5, <1>6

LEMMA ServerClosesKeeps ==
  ASSUME SyncInv, Sync!ServerCloses
  PROVE  SyncInv'
  <1> USE DEF SyncInv, Sync!ServerCloses, Sync!context
  <1>1. SyncTypes' /\ DescriptorsInv'
    BY DEF SyncTypes, DescriptorsInv
  <1>2. WaitingInv' /\ UnusedInv'
    BY DEF WaitingInv, UnusedInv
  <1>3. ReadInv' /\ SentInv'
    BY DEF ReadInv, SentInv, Answered
  <1>4. Sync!RepliesMatch'
    BY DEF Sync!RepliesMatch
  <1> QED
    BY <1>1, <1>2, <1>3, <1>4

LEMMA SyncUnchanged ==
  ASSUME SyncInv, UNCHANGED syncVars
  PROVE  SyncInv'
  BY DEF SyncInv, syncVars, SyncTypes, DescriptorsInv, WaitingInv, UnusedInv, ReadInv, SentInv,
         Answered, Sync!RepliesMatch

LEMMA SyncKeeps ==
  ASSUME SyncInv, Sync!Next
  PROVE  SyncInv'
  BY ConnectingKeepsDescriptors, ConnectingKeepsOrder, AppendKeeps, GetReplyKeeps,
     WriteKeeps, ReadKeeps, ReconnectKeeps, FreeKeeps, ServerClosesKeeps DEF Sync!Next

\* A reply that redisGetReply returns is that of the oldest command not answered,
\* over whichever connection, and each descriptor the process has open belongs to
\* the context (hiredis.c:604-1007, net.c:60-418).
THEOREM RepliesStayMatched == PartsSpec => []RepliesMatch
  <1>1. PartsInit => SyncInv
    BY SyncStarts DEF PartsInit
  <1>2. SyncInv /\ [AsyncStep \/ SyncStep \/ ReaderStep \/ DictStep \/ StringStep]_allVars
          => SyncInv'
    <2> SUFFICES ASSUME SyncInv,
                        [AsyncStep \/ SyncStep \/ ReaderStep \/ DictStep \/ StringStep]_allVars
                 PROVE  SyncInv'
      OBVIOUS
    <2>1. CASE SyncStep
      BY <2>1, SyncKeeps DEF SyncStep
    <2>2. CASE ~SyncStep
      <3>1. UNCHANGED syncVars
        BY <2>2 DEF AsyncStep, ReaderStep, DictStep, StringStep, allVars
      <3> QED
        BY <3>1, SyncUnchanged
    <2> QED
      BY <2>1, <2>2
  <1>3. SyncInv => RepliesMatch
    BY DEF SyncInv, DescriptorsInv, RepliesMatch, Sync!DescriptorsOwned
  <1> QED
    BY <1>1, <1>2, <1>3, PTL DEF PartsSpec

-----------------------------------------------------------------------------
(* The asynchronous context                                                *)

\* AsyncInv holds of every behaviour: the induction of the theorems below.
LEMMA AsyncAlways ==
  ASSUME Unruly = FALSE
  PROVE  PartsSpec => []AsyncInv
  <1>1. PartsInit => AsyncInv
    BY AsyncStarts DEF PartsInit
  <1>2. AsyncInv /\ [AsyncStep \/ SyncStep \/ ReaderStep \/ DictStep \/ StringStep]_allVars
          => AsyncInv'
    <2> SUFFICES ASSUME AsyncInv,
                        [AsyncStep \/ SyncStep \/ ReaderStep \/ DictStep \/ StringStep]_allVars
                 PROVE  AsyncInv'
      OBVIOUS
    <2>1. CASE AsyncStep
      BY <2>1, AsyncStepKeeps DEF AsyncStep
    <2>2. CASE ~AsyncStep
      <3>1. UNCHANGED vars
        BY <2>2 DEF SyncStep, ReaderStep, DictStep, StringStep, allVars
      <3> QED
        BY <3>1, AsyncUnchanged
    <2> QED
      BY <2>1, <2>2
  <1> QED
    BY <1>1, <1>2, PTL DEF PartsSpec

\* Every callback of a regular command is called once and with the reply of its own
\* command, and a context that ends without an error or a redisAsyncFree has answered
\* all of them (async.c:226-503), if the user does not pipeline into subscribed mode.
THEOREM CallbacksStayMatched ==
  ASSUME Unruly = FALSE
  PROVE  PartsSpec => []CallbacksMatch
  <1>1. AsyncInv => CallbacksMatch
    <2> SUFFICES ASSUME AsyncInv PROVE OwnReplies /\ CleanDisconnect
      BY DEF CallbacksMatch
    <2>1. CASE pc = "gone"
      BY <2>1 DEF AsyncInv
    <2>2. CASE pc # "gone"
      <3>1. AsyncTypes /\ WaitingGetsInv
        BY <2>2 DEF AsyncInv
      <3>2. ASSUME NEW id \in DOMAIN cmds
            PROVE  "other" \notin ToSet(got[id]) /\ Len(got[id]) <= 1
        <4>1. got[id] \in {<<>>, <<"own">>}
          BY <3>1 DEF WaitingGetsInv, AsyncTypes, Newest
        <4>2. ToSet(<<>>) = {} /\ ToSet(<<"own">>) = {"own"} /\ Len(<<>>) = 0 /\ Len(<<"own">>) = 1
          BY DEF ToSet
        <4>3. "other" \notin {"own"} /\ "other" \notin {} /\ 0 <= 1 /\ 1 <= 1
          OBVIOUS
        <4> QED
          BY <4>1, <4>2, <4>3
      <3> QED
        BY <2>2, <3>2 DEF OwnReplies, CleanDisconnect
    <2> QED
      BY <2>1, <2>2
  <1> QED
    BY <1>1, AsyncAlways, PTL

\* No assertion of async.c fails: nothing arrives out of subscribed mode that only a
\* monitor could take, and a clean disconnect leaves no callback (async.c:340, 477).
THEOREM AssertionsAlwaysHold ==
  ASSUME Unruly = FALSE
  PROVE  PartsSpec => []AssertionsHold
  <1>1. AsyncInv => AssertionsHold
    BY DEF AsyncInv, AsyncTypes, AssertionsHold
  <1> QED
    BY <1>1, AsyncAlways, PTL

\* A context whose connection has no subscription left, with everything sent and all
\* answers processed, has left subscribed mode (async.c:402-415), if each SUBSCRIBE
\* names one channel.
THEOREM SubscribedModeEnds ==
  ASSUME Unruly = FALSE, MaxNames = 1
  PROVE  PartsSpec => []LeavesSubscribedMode
  <1>1. AsyncInv => LeavesSubscribedMode
    <2> SUFFICES ASSUME AsyncInv, pc = "loop", open, obuf = <<>>, wire = <<>>, ssubs = {}
                 PROVE  "SUBSCRIBED" \notin flags
      BY DEF LeavesSubscribedMode
    <2>1. AsyncTypes /\ ModeInv /\ LeaveInv(Flight, Written, ssubs)
      BY DEF AsyncInv, LinkInv
    <2>2. Len(Flight) = 0
      BY <2>1 DEF ModeInv, Flight
    <2>3. Newest \in Nat /\ Written = Newest
      BY <2>1 DEF AsyncTypes, Newest, Written
    <2>4. \A n : Unsent(Written, n) = {}
      BY <2>3 DEF Unsent
    <2>5. DOMAIN subs = {}
      <3>1. \A i : i \notin 1 .. Len(Flight)
        BY <2>2
      <3>2. \A n \in DOMAIN subs : \E i \in 1 .. Len(Flight) : Says(Flight, i, "unsubscribe", n)
        BY <2>1, <2>4 DEF LeaveInv
      <3> QED
        BY <3>1, <3>2
    <2> QED
      BY <2>1, <2>5 DEF LeaveInv, Subscribed
  <1> QED
    BY <1>1, AsyncAlways, PTL

-----------------------------------------------------------------------------
(* The limits of the synchronous context                                    *)

\* How far a connect function has come in its list of addresses and its retries, and
\* that no reply is there but for a command.
LimitsInv ==
  /\ fd \in {-1, 0} \cup Sync!Descriptors
  /\ addr \in 1 .. Addrs + 1 /\ reuses \in 0 .. Retries
  /\ cpc \in {"socket", "bind", "connect"} => reuses < Retries
  /\ cpc \in {"bind", "connect"} /\ conf.type = "tcp" => addr <= Addrs
  /\ Len(answers) + Len(cread) + Len(way) + Len(cobuf) <= appended

LEMMA SyncTyped ==
  ASSUME SyncInv, LimitsInv
  PROVE  Sync!TypeOK
  BY DEF SyncInv, SyncTypes, DescriptorsInv, LimitsInv, Sync!TypeOK

LEMMA LimitsStart ==
  ASSUME Sync!Init
  PROVE  LimitsInv
  <1> USE HiredisAssumption
  <1>1. 3 \in Sync!Descriptors
    BY DEF Sync!Descriptors
  <1>2. fd \in {-1, 0} \cup Sync!Descriptors /\ cpc \in {"idle", "begin"}
    BY <1>1 DEF Sync!Init, Sync!GivenFd
  <1> QED
    BY <1>2 DEF Sync!Init, LimitsInv

LEMMA ConnectingKeepsLimits ==
  ASSUME SyncInv, LimitsInv, Sync!Connecting
  PROVE  LimitsInv'
  <1> USE HiredisAssumption
  <1>1. /\ UNCHANGED <<conf, cobuf, cread, appended, answers>> /\ Len(way') <= Len(way)
        /\ Len(way) \in Nat /\ Len(way') \in Nat /\ Len(answers) \in Nat /\ Len(cread) \in Nat
        /\ Len(cobuf) \in Nat /\ appended \in Nat
    <2>1. /\ cobuf \in Seq(Commands) /\ cread \in Seq(Commands) /\ way \in Seq(Commands)
          /\ answers \in Seq(Answers) /\ appended \in Nat
      BY DEF SyncInv, SyncTypes
    <2>2. UNCHANGED <<conf, cobuf, cread, appended, answers>> /\ (way' = way \/ way' = <<>>)
      BY DEF Sync!Connecting, Sync!ConnectBegin, Sync!SocketTcp, Sync!SocketUnix, Sync!Bind,
             Sync!Connect, Sync!ConnectFinish
    <2> QED
      BY <2>1, <2>2
  <1>2. Len(answers') + Len(cread') + Len(way') + Len(cobuf') <= appended'
    BY <1>1 DEF LimitsInv
  <1>3. fd' \in {-1, 0} \cup Sync!Descriptors
    <2>1. ASSUME Sync!Opened, cpc = "socket" PROVE fd' \in Sync!Descriptors
      BY <2>1, SocketOpened DEF SyncInv, DescriptorsInv
    <2>2. ASSUME Sync!CloseFd PROVE fd' \in {-1, fd}
      BY <2>2 DEF Sync!CloseFd
    <2>3. \/ fd' \in {-1, fd} \/ Sync!CloseFd \/ (Sync!Opened /\ cpc = "socket")
      BY DEF Sync!Connecting, Sync!ConnectBegin, Sync!SocketTcp, Sync!SocketUnix, Sync!Bind,
             Sync!Connect, Sync!ConnectFinish, Sync!Unreachable, Sync!AddressInUse,
             Sync!WaitFails, Sync!KeepFd
    <2> QED
      BY <2>1, <2>2, <2>3 DEF LimitsInv
  <1> DEFINE Counts == /\ addr' \in 1 .. Addrs + 1 /\ reuses' \in 0 .. Retries
                       /\ cpc' \in {"socket", "bind", "connect"} => reuses' < Retries
                       /\ cpc' \in {"bind", "connect"} /\ conf.type = "tcp" => addr' <= Addrs
  <1> SUFFICES Counts
    BY <1>1, <1>2, <1>3 DEF LimitsInv
  <1>4. CASE Sync!ConnectBegin
    <2>1. cpc' \in {"socket", "idle"} /\ addr' = 1 /\ reuses' = 0
      BY <1>4 DEF Sync!ConnectBegin, Sync!Fail, Sync!Goto
    <2> QED
      BY <2>1
  <1>5. CASE Sync!SocketTcp
    <2>1. cpc = "socket" /\ reuses' = reuses
      BY <1>5 DEF Sync!SocketTcp
    <2>2. \/ cpc' \in {"idle", "socket"} /\ addr' = addr
          \/ cpc' = "socket" /\ addr <= Addrs /\ addr' = addr + 1
          \/ cpc' \in {"bind", "idle"} /\ addr <= Addrs /\ addr' = addr
      BY <1>5 DEF Sync!SocketTcp, Sync!Fail, Sync!Goto
    <2> QED
      BY <1>1, <2>1, <2>2 DEF LimitsInv
  <1>6. CASE Sync!SocketUnix
    <2>1. cpc = "socket" /\ reuses' = reuses /\ addr' = addr /\ conf.type = "unix"
      BY <1>6 DEF Sync!SocketUnix
    <2> QED
      BY <1>1, <2>1 DEF LimitsInv
  <1>7. CASE Sync!Bind
    <2>1. cpc = "bind" /\ reuses' = reuses /\ addr' = addr /\ cpc' \in {"connect", "idle"}
      BY <1>7 DEF Sync!Bind, Sync!Fail, Sync!Goto
    <2> QED
      BY <1>1, <2>1 DEF LimitsInv
  <1>8. CASE Sync!Connect
    <2>1. cpc = "connect"
      BY <1>8 DEF Sync!Connect
    <2>2. \/ cpc' \in {"finish", "idle"} /\ addr' = addr /\ reuses' = reuses
          \/ cpc' = "socket" /\ addr' = addr + 1 /\ reuses' = reuses /\ conf.type = "tcp"
          \/ /\ addr' = addr /\ reuses' = reuses + 1
             /\ cpc' = "idle" \/ (cpc' = "socket" /\ ~(reuses' >= Retries))
      BY <1>8 DEF Sync!Connect, Sync!Unreachable, Sync!AddressInUse, Sync!WaitFails, Sync!Fail,
                  Sync!Goto
    <2> QED
      BY <1>1, <2>1, <2>2, SMTT(30) DEF LimitsInv
  <1>9. CASE Sync!ConnectFinish
    <2>1. cpc' = "idle" /\ reuses' = reuses /\ addr' = addr
      BY <1>9 DEF Sync!ConnectFinish, Sync!Fail
    <2> QED
      BY <1>1, <2>1 DEF LimitsInv
  <1> QED
    BY <1>4, <1>5, <1>6, <1>7, <1>8, <1>9 DEF Sync!Connecting

\* The front of a queue goes to the end of another.
LEMMA Transferred ==
  ASSUME NEW S, NEW s \in Seq(S), NEW t \in Seq(S), NEW k \in 0 .. Len(s)
  PROVE  /\ SubSeq(s, k + 1, Len(s)) \in Seq(S) /\ Len(SubSeq(s, k + 1, Len(s))) = Len(s) - k
         /\ t \o SubSeq(s, 1, k) \in Seq(S) /\ Len(t \o SubSeq(s, 1, k)) = Len(t) + k
  <1>1. SubSeq(s, k + 1, Len(s)) \in Seq(S) /\ Len(SubSeq(s, k + 1, Len(s))) = Len(s) - k
    OBVIOUS
  <1>2. SubSeq(s, 1, k) \in Seq(S) /\ Len(SubSeq(s, 1, k)) = k
    OBVIOUS
  <1> DEFINE u == SubSeq(s, 1, k)
  <1> HIDE DEF u
  <1>3. u \in Seq(S) /\ Len(u) = k
    BY <1>2 DEF u
  <1>4. t \o u \in Seq(S) /\ Len(t \o u) = Len(t) + k
    BY <1>3
  <1> QED
    BY <1>1, <1>4 DEF u

\* What waits for a reply or is one: no step of the pipeline makes more of it.
LEMMA PipelineKeepsLimits ==
  ASSUME SyncInv, LimitsInv, Sync!Next, ~Sync!Connecting
  PROVE  LimitsInv'
  <1>1. /\ cobuf \in Seq(Commands) /\ cread \in Seq(Commands) /\ way \in Seq(Commands)
        /\ answers \in Seq(Answers) /\ appended \in Nat
        /\ Len(answers) + Len(cread) + Len(way) + Len(cobuf) <= appended
    BY DEF SyncInv, SyncTypes, LimitsInv
  <1>2. /\ UNCHANGED <<conf, fd, addr, reuses>>
        /\ cpc' \in {"begin", "idle", "write", "read", "freed"}
    BY DEF Sync!Next, Sync!AppendCommand, Sync!GetReply, Sync!BufferWrite, Sync!BufferRead,
           Sync!Reconnect, Sync!redisFree, Sync!ServerCloses, Sync!Returned, Sync!context
  <1> SUFFICES Len(answers') + Len(cread') + Len(way') + Len(cobuf') <= appended'
    BY <1>2 DEF LimitsInv
  <1>3. CASE Sync!AppendCommand
    <2>1. Len(Append(cobuf, <<gen, appended + 1>>)) = Len(cobuf) + 1
      BY <1>1
    <2> QED
      BY <1>1, <1>3, <2>1 DEF Sync!AppendCommand
  <1>4. CASE Sync!GetReply
    <2>1. UNCHANGED <<way, cobuf, appended>>
      BY <1>4 DEF Sync!GetReply
    <2>2. CASE cread # <<>>
      <3>1. Len(answers') = Len(answers) + 1 /\ Len(cread') = Len(cread) - 1
        BY <1>1, <1>4, <2>2 DEF Sync!GetReply
      <3> QED
        BY <1>1, <2>1, <3>1
    <2>3. CASE cread = <<>>
      BY <1>1, <1>4, <2>1, <2>3 DEF Sync!GetReply
    <2> QED
      BY <2>2, <2>3
  <1>5. CASE Sync!BufferWrite
    <2>1. UNCHANGED <<cread, appended, answers>>
      BY <1>5 DEF Sync!BufferWrite
    <2>2. \/ UNCHANGED <<cobuf, way>>
          \/ \E k \in 0 .. Len(cobuf) :
               /\ cobuf' = SubSeq(cobuf, k + 1, Len(cobuf))
               /\ way' = IF up THEN way \o SubSeq(cobuf, 1, k) ELSE way
      BY <1>5 DEF Sync!BufferWrite
    <2>3. ASSUME NEW k \in 0 .. Len(cobuf), cobuf' = SubSeq(cobuf, k + 1, Len(cobuf)),
                 way' = IF up THEN way \o SubSeq(cobuf, 1, k) ELSE way
          PROVE  /\ Len(way') + Len(cobuf') <= Len(way) + Len(cobuf)
                 /\ Len(way') \in Nat /\ Len(cobuf') \in Nat
      <3>1. /\ SubSeq(cobuf, k + 1, Len(cobuf)) \in Seq(Commands)
            /\ Len(SubSeq(cobuf, k + 1, Len(cobuf))) = Len(cobuf) - k
            /\ way \o SubSeq(cobuf, 1, k) \in Seq(Commands)
            /\ Len(way \o SubSeq(cobuf, 1, k)) = Len(way) + k
        BY <1>1, Transferred
      <3>2. cobuf' \in Seq(Commands) /\ Len(cobuf') = Len(cobuf) - k
        BY <2>3, <3>1
      <3>3. way' \in Seq(Commands) /\ Len(way') <= Len(way) + k
        <4>1. way' = way \/ way' = way \o SubSeq(cobuf, 1, k)
          BY <2>3
        <4>2. Len(way) \in Nat /\ k \in Nat
          BY <1>1
        <4>3. Len(way) <= Len(way) + k
          BY ONLY <4>2
        <4>4. Len(way') \in {Len(way), Len(way) + k} /\ way' \in Seq(Commands)
          BY <1>1, <3>1, <4>1
        <4>5. Len(way) + k <= Len(way) + k
          BY ONLY <4>2
        <4> QED
          BY <4>3, <4>4, <4>5
      <3>4. Len(way') \in Nat /\ Len(cobuf') \in Nat /\ Len(way) \in Nat /\ Len(cobuf) \in Nat
        BY <1>1, <3>2, <3>3
      <3>5. Len(way') + Len(cobuf') <= Len(way) + Len(cobuf)
        BY ONLY <3>2, <3>3, <3>4, k \in Int
      <3> QED
        BY <3>4, <3>5
    <2>4. Len(way') + Len(cobuf') <= Len(way) + Len(cobuf) /\ Len(way') \in Nat /\ Len(cobuf') \in Nat
      <3>1. CASE UNCHANGED <<cobuf, way>>
        BY <1>1, <3>1
      <3>2. CASE ~UNCHANGED <<cobuf, way>>
        BY <2>2, <2>3, <3>2
      <3> QED
        BY <3>1, <3>2
    <2> QED
      BY <1>1, <2>1, <2>4
  <1>6. CASE Sync!BufferRead
    <2>1. UNCHANGED <<cobuf, appended>>
      BY <1>6 DEF Sync!BufferRead
    <2>2. CASE UNCHANGED <<cread, way, answers>>
      BY <1>1, <2>1, <2>2
    <2>3. ASSUME NEW k \in 1 .. Len(way), NEW s, s = cread \o SubSeq(way, 1, k),
                 way' = SubSeq(way, k + 1, Len(way)),
                 \/ cread' = s /\ answers' = answers
                 \/ /\ cread' = Tail(s)
                    /\ answers' = Append(answers, [call |-> asked, reply |-> Head(s)])
          PROVE  Len(answers') + Len(cread') + Len(way') = Len(answers) + Len(cread) + Len(way)
      <3>0. k \in 0 .. Len(way)
        BY <1>1
      <3>1. /\ SubSeq(way, k + 1, Len(way)) \in Seq(Commands)
            /\ Len(SubSeq(way, k + 1, Len(way))) = Len(way) - k
            /\ cread \o SubSeq(way, 1, k) \in Seq(Commands)
            /\ Len(cread \o SubSeq(way, 1, k)) = Len(cread) + k
        BY <1>1, <3>0, Transferred
      <3>2. /\ way' \in Seq(Commands) /\ Len(way') = Len(way) - k
            /\ s \in Seq(Commands) /\ Len(s) = Len(cread) + k
        BY <2>3, <3>1
      <3>3. /\ s \in Seq(Commands) /\ Len(s) = Len(cread) + k /\ Len(s) \in Nat /\ s # <<>>
            /\ Len(cread) \in Nat /\ Len(way) \in Nat /\ Len(answers) \in Nat
        BY <1>1, <3>2
      <3>4. CASE cread' = s /\ answers' = answers
        <4>1. Len(cread') = Len(cread) + k /\ Len(answers') = Len(answers)
          BY <3>3, <3>4
        <4> QED
          BY ONLY <3>2, <3>3, <4>1, k \in Int
      <3>5. CASE /\ cread' = Tail(s)
                 /\ answers' = Append(answers, [call |-> asked, reply |-> Head(s)])
        <4>0. Len(Tail(s)) = Len(s) - 1
          BY ONLY <3>3
        <4>1. Len(cread') = Len(cread) + k - 1
          BY <3>3, <3>5, <4>0
        <4>2. Len(answers') = Len(answers) + 1
          BY <1>1, <3>5
        <4> QED
          BY ONLY <3>2, <3>3, <4>1, <4>2, k \in Int
      <3> QED
        BY <2>3, <3>4, <3>5
    <2>4. \/ UNCHANGED <<cread, way, answers>>
          \/ \E k \in 1 .. Len(way) : \E s \in {cread \o SubSeq(way, 1, k)} :
               /\ way' = SubSeq(way, k + 1, Len(way))
               /\ \/ cread' = s /\ answers' = answers
                  \/ /\ cread' = Tail(s)
                     /\ answers' = Append(answers, [call |-> asked, reply |-> Head(s)])
      BY <1>6 DEF Sync!BufferRead
    <2>5. CASE ~UNCHANGED <<cread, way, answers>>
      <3>1. Len(answers') + Len(cread') + Len(way') = Len(answers) + Len(cread) + Len(way)
        BY <2>3, <2>4, <2>5
      <3> QED
        BY <1>1, <2>1, <3>1
    <2> QED
      BY <2>2, <2>5
  <1>7. CASE Sync!Reconnect
    <2>1. answers' = <<>> /\ cread' = <<>> /\ way' = <<>> /\ cobuf' = <<>> /\ appended' = 0
      BY <1>7 DEF Sync!Reconnect, Sync!Renewed
    <2> QED
      BY <2>1
  <1>8. CASE Sync!redisFree
    <2>1. /\ answers' = answers /\ cread' = <<>> /\ way' = <<>> /\ cobuf' = <<>>
          /\ appended' = appended
      BY <1>8 DEF Sync!redisFree
    <2> QED
      BY <1>1, <2>1
  <1>9. CASE Sync!ServerCloses
    BY <1>1, <1>9 DEF Sync!ServerCloses, Sync!context
  <1> QED
    BY <1>3, <1>4, <1>5, <1>6, <1>7, <1>8, <1>9 DEF Sync!Next

LEMMA AsyncTyped ==
  ASSUME AsyncInv
  PROVE  TypeOK
  <1>1. AsyncTypes
    BY DEF AsyncInv
  <1>2. Newest \in Nat /\ DOMAIN cmds = 1 .. Newest /\ DOMAIN got = 1 .. Newest
    BY <1>1 DEF AsyncTypes, Newest
  <1>3. ToSet(replies) \subseteq Callbacks(Newest) /\ ToSet(invalid) = {}
    BY <1>1 DEF AsyncTypes, ToSet
  <1>4. {subs[n] : n \in DOMAIN subs} \subseteq Callbacks(Newest)
    BY <1>1 DEF AsyncTypes
  <1>5. \A c \in ToSet(replies) \cup ToSet(invalid) \cup {subs[n] : n \in DOMAIN subs} :
          c.id \in 0 .. Len(cmds) /\ c.pending \in 0 .. Len(cmds)
    <2>1. \A c \in Callbacks(Newest) : c.id \in 0 .. Newest /\ c.pending \in 0 .. Newest
      BY DEF Callbacks
    <2> QED
      BY <1>3, <1>4, <2>1 DEF Newest
  <1>6. ToSet(obuf) \subseteq 1 .. Len(cmds)
    <2>1. \A i \in 1 .. Len(obuf) : obuf[i] = Written + i /\ Written \in Nat
      BY <1>1 DEF AsyncTypes
    <2>2. Written = Newest - Len(obuf) /\ Len(obuf) \in Nat
      BY <1>1 DEF AsyncTypes, Written
    <2>3. \A i \in 1 .. Len(obuf) : obuf[i] \in 1 .. Newest
      BY <1>2, <2>1, <2>2
    <2>4. DOMAIN obuf = 1 .. Len(obuf)
      BY <1>1 DEF AsyncTypes
    <2> QED
      BY <2>3, <2>4 DEF ToSet, Newest
  <1>7. err => pc = "gone" \/ (pc \in {"onConnect", "undefined"} /\ sock = "failed")
    BY DEF AsyncInv, ModeInv
  <1> QED
    BY <1>1, <1>2, <1>5, <1>6, <1>7 DEF TypeOK, AsyncTypes

-----------------------------------------------------------------------------
(* The dictionary                                                           *)

EntrySet == [key : Keys, val : Vals]

\* A chain of slot s of n: entries with their keys once each, all of that slot.
Chain(c, s, n) ==
  /\ c \in Seq(EntrySet)
  /\ \A i \in 1 .. Len(c) : Dictionary!Slot(c[i].key, n) = s
  /\ \A i, j \in 1 .. Len(c) : c[i].key = c[j].key => i = j

Hashed(t) == /\ t \in Seq(Seq(EntrySet))
             /\ \A s \in 1 .. Len(t) : Chain(t[s], s, Len(t))

\* The entries a table holds, and sets of entries as maps.
Held(t) == UNION {{t[s][i] : i \in 1 .. Len(t[s])} : s \in 1 .. Len(t)}
KeysIn(S) == {e.key : e \in S}
Functional(S) == \A e, f \in S : e.key = f.key => e = f

LEMMA SlotIn ==
  ASSUME NEW k \in Keys, NEW n \in Nat \ {0}
  PROVE  Dictionary!Slot(k, n) \in 1 .. n
  <1>1. Hash[k] \in Nat
    BY DictAssumption
  <1> QED
    BY <1>1 DEF Dictionary!Slot

LEMMA HeldDef ==
  ASSUME NEW t, NEW e
  PROVE  e \in Held(t) <=> \E s \in 1 .. Len(t) : \E i \in 1 .. Len(t[s]) : e = t[s][i]
  BY DEF Held

LEMMA HeldIs ==
  ASSUME NEW t, Hashed(t)
  PROVE  /\ Held(t) \in SUBSET EntrySet /\ Functional(Held(t))
         /\ \A s \in 1 .. Len(t) : \A i \in 1 .. Len(t[s]) : t[s][i] \in Held(t)
         /\ \A e \in Held(t) : \E s \in 1 .. Len(t) : \E i \in 1 .. Len(t[s]) : e = t[s][i]
         /\ \A e \in Held(t) : \E i \in 1 .. Len(t[Dictionary!Slot(e.key, Len(t))]) :
              e = t[Dictionary!Slot(e.key, Len(t))][i]
         /\ Len(t) \in Nat
  <1>1. \A e : e \in Held(t) <=> \E s \in 1 .. Len(t) : \E i \in 1 .. Len(t[s]) : e = t[s][i]
    BY DEF Held
  <1>2. \A s \in 1 .. Len(t) : Chain(t[s], s, Len(t))
    BY DEF Hashed
  <1>3. \A s \in 1 .. Len(t) : \A i \in 1 .. Len(t[s]) :
          t[s][i] \in EntrySet /\ Dictionary!Slot(t[s][i].key, Len(t)) = s
    <2> TAKE s \in 1 .. Len(t)
    <2> TAKE i \in 1 .. Len(t[s])
    <2>1. Chain(t[s], s, Len(t))
      BY <1>2
    <2> QED
      BY <2>1 DEF Chain
  <1>4. Held(t) \in SUBSET EntrySet
    BY <1>1, <1>3
  <1>5. Functional(Held(t))
    <2> SUFFICES ASSUME NEW e \in Held(t), NEW f \in Held(t), e.key = f.key PROVE e = f
      BY DEF Functional
    <2>1. PICK s \in 1 .. Len(t) : \E i \in 1 .. Len(t[s]) : e = t[s][i]
      BY <1>1
    <2>2. PICK i \in 1 .. Len(t[s]) : e = t[s][i]
      BY <2>1
    <2>3. PICK r \in 1 .. Len(t) : \E j \in 1 .. Len(t[r]) : f = t[r][j]
      BY <1>1
    <2>4. PICK j \in 1 .. Len(t[r]) : f = t[r][j]
      BY <2>3
    <2>5. r = s
      BY <1>3, <2>2, <2>4
    <2>6. Chain(t[s], s, Len(t))
      BY <1>2
    <2>7. i = j
      BY <2>2, <2>4, <2>5, <2>6 DEF Chain
    <2> QED
      BY <2>2, <2>4, <2>5, <2>7
  <1>6. \A e \in Held(t) : \E i \in 1 .. Len(t[Dictionary!Slot(e.key, Len(t))]) :
              e = t[Dictionary!Slot(e.key, Len(t))][i]
    <2> TAKE e \in Held(t)
    <2>1. PICK s \in 1 .. Len(t) : \E i \in 1 .. Len(t[s]) : e = t[s][i]
      BY <1>1
    <2>2. PICK i \in 1 .. Len(t[s]) : e = t[s][i]
      BY <2>1
    <2>3. Dictionary!Slot(e.key, Len(t)) = s
      BY <1>3, <2>2
    <2> QED
      BY <2>2, <2>3
  <1>7. Len(t) \in Nat
    BY DEF Hashed
  <1> QED
    BY <1>1, <1>4, <1>5, <1>6, <1>7

-----------------------------------------------------------------------------
\* The prefixes of a flattened table.
Turn(t, f, i) == IF i = 1 THEN t[i] ELSE f[i - 1] \o t[i]
UpTo(t) == CHOOSE f : f = [i \in 1 .. Len(t) |-> Turn(t, f, i)]

LEMMA FlattenIs ==
  ASSUME NEW t, Len(t) \in Nat \ {0}
  PROVE  /\ Dictionary!FlattenSeq(t) = UpTo(t)[Len(t)]
         /\ \A i \in 1 .. Len(t) : UpTo(t)[i] = Turn(t, UpTo(t), i)
  <1> DEFINE Is(f, n) == f = [i \in 1 .. n |-> Turn(t, f, i)]
             Bad == {n \in Nat : ~\E f : Is(f, n)}
  <1>1. Bad = {}
    <2>1. SUFFICES ASSUME Bad # {} PROVE FALSE
      OBVIOUS
    <2>2. PICK n \in Bad : \A m \in Bad : n <= m
      <3>1. Bad \in SUBSET Nat
        OBVIOUS
      <3> HIDE DEF Bad
      <3> QED
        BY <2>1, <3>1, LeastOf
    <2>3. n # 0
      <3>1. Is([i \in 1 .. 0 |-> 0], 0)
        OBVIOUS
      <3> QED
        BY <2>2, <3>1
    <2>4. n - 1 \in Nat /\ n - 1 \notin Bad
      <3>1. n \in Nat
        BY <2>2
      <3> HIDE DEF Bad
      <3> QED
        BY <2>2, <2>3, <3>1
    <2>5. PICK f : Is(f, n - 1)
      BY <2>4
    <2> DEFINE g == [i \in 1 .. n |-> Turn(t, f, i)]
    <2>6. ASSUME NEW i \in 1 .. n PROVE Turn(t, g, i) = Turn(t, f, i)
      <3>1. CASE i = 1
        BY <3>1 DEF Turn
      <3>2. CASE i # 1
        <4>1. i - 1 \in 1 .. n /\ i - 1 \in 1 .. n - 1
          BY <3>2, <2>2
        <4>2. g[i - 1] = Turn(t, f, i - 1) /\ f[i - 1] = Turn(t, f, i - 1)
          BY <4>1, <2>5
        <4> HIDE DEF g
        <4> QED
          BY <4>2 DEF Turn
      <3> QED
        BY <3>1, <3>2
    <2> HIDE DEF g
    <2>7. Is(g, n)
      BY <2>6 DEF g
    <2> QED
      BY <2>2, <2>7
  <1>2. \E f : Is(f, Len(t))
    BY <1>1
  <1>3. Is(UpTo(t), Len(t))
    <2>1. UpTo(t) = CHOOSE f : Is(f, Len(t))
      BY DEF UpTo
    <2> HIDE DEF Is
    <2> QED
      BY <1>2, <2>1
  <1>4. \A i \in 1 .. Len(t) : UpTo(t)[i] = Turn(t, UpTo(t), i)
    <2> DEFINE P == UpTo(t)
    <2> HIDE DEF P
    <2>1. Is(P, Len(t))
      BY <1>3 DEF P
    <2>2. \A i \in 1 .. Len(t) : P[i] = Turn(t, P, i)
      BY <2>1
    <2> QED
      BY <2>2 DEF P
  <1>5. Dictionary!FlattenSeq(t) = UpTo(t)[Len(t)]
    BY DEF Dictionary!FlattenSeq, UpTo, Turn
  <1> QED
    BY <1>4, <1>5

\* The first i slots, flattened.
Flat(t, f, i) ==
  /\ f \in Seq(EntrySet)
  /\ \A j \in 1 .. Len(f) : \E s \in 1 .. i : \E p \in 1 .. Len(t[s]) : f[j] = t[s][p]
  /\ \A s \in 1 .. i : \A p \in 1 .. Len(t[s]) : \E j \in 1 .. Len(f) : f[j] = t[s][p]
  /\ \A j, k \in 1 .. Len(f) : f[j].key = f[k].key => j = k

LEMMA FlatNext ==
  ASSUME NEW t, Hashed(t), NEW i \in 2 .. Len(t), NEW f, Flat(t, f, i - 1)
  PROVE  Flat(t, f \o t[i], i)
  <1> DEFINE c == t[i]
             g == f \o c
             m == Len(f)
             n == Len(c)
  <1>0. Len(t) \in Nat /\ i \in 1 .. Len(t) /\ i - 1 \in Nat
    BY HeldIs
  <1>1. Chain(c, i, Len(t))
    BY <1>0 DEF Hashed
  <1>2. f \in Seq(EntrySet) /\ c \in Seq(EntrySet) /\ m \in Nat /\ n \in Nat
    BY <1>1 DEF Chain, Flat
  <1>3. g \in Seq(EntrySet) /\ Len(g) = m + n
        /\ \A j \in 1 .. m + n : g[j] = IF j <= m THEN f[j] ELSE c[j - m]
    BY <1>2
  <1>4. \A j \in 1 .. m : \E s \in 1 .. i - 1 : \E p \in 1 .. Len(t[s]) : f[j] = t[s][p]
    BY DEF Flat
  <1>5. \A s \in 1 .. i - 1 : \A p \in 1 .. Len(t[s]) : \E j \in 1 .. m : f[j] = t[s][p]
    BY DEF Flat
  <1>6. \A j, k \in 1 .. m : f[j].key = f[k].key => j = k
    BY DEF Flat
  <1>7. \A j \in 1 .. m : Dictionary!Slot(f[j].key, Len(t)) # i
    <2> TAKE j \in 1 .. m
    <2>1. PICK s \in 1 .. i - 1 : \E p \in 1 .. Len(t[s]) : f[j] = t[s][p]
      BY <1>4
    <2>2. Chain(t[s], s, Len(t)) /\ s # i
      BY <1>0 DEF Hashed
    <2> QED
      BY <2>1, <2>2 DEF Chain
  <1>8. /\ \A j \in 1 .. n : Dictionary!Slot(c[j].key, Len(t)) = i
        /\ \A j, k \in 1 .. n : c[j].key = c[k].key => j = k
    BY <1>1 DEF Chain
  <1> HIDE DEF c, g, m, n
  <1>9. ASSUME NEW j \in 1 .. Len(g)
        PROVE  \E s \in 1 .. i : \E p \in 1 .. Len(t[s]) : g[j] = t[s][p]
    <2>1. CASE j <= m
      <3>1. j \in 1 .. m /\ g[j] = f[j]
        BY <1>2, <1>3, <1>9, <2>1
      <3>2. PICK s \in 1 .. i - 1 : \E p \in 1 .. Len(t[s]) : f[j] = t[s][p]
        BY <1>4, <3>1
      <3>3. s \in 1 .. i
        BY <1>0
      <3> QED
        BY <3>1, <3>2, <3>3
    <2>2. CASE ~(j <= m)
      <3>1. j - m \in 1 .. n /\ g[j] = c[j - m]
        BY <1>2, <1>3, <1>9, <2>2
      <3>2. i \in 1 .. i
        BY <1>0
      <3> QED
        BY <3>1, <3>2 DEF c, n
    <2> QED
      BY <2>1, <2>2
  <1>10. ASSUME NEW s \in 1 .. i, NEW p \in 1 .. Len(t[s])
         PROVE  \E j \in 1 .. Len(g) : g[j] = t[s][p]
    <2>1. CASE s = i
      <3>1. p \in 1 .. n
        BY <2>1 DEF n, c
      <3>2. m + p \in 1 .. Len(g) /\ g[m + p] = c[p]
        BY <1>2, <1>3, <3>1
      <3> QED
        BY <2>1, <3>2 DEF c
    <2>2. CASE s # i
      <3>1. s \in 1 .. i - 1
        BY <1>0, <2>2
      <3>2. PICK j \in 1 .. m : f[j] = t[s][p]
        BY <1>5, <3>1
      <3>3. j \in 1 .. Len(g) /\ g[j] = f[j]
        BY <1>2, <1>3
      <3> QED
        BY <3>2, <3>3
    <2> QED
      BY <2>1, <2>2
  <1>11. ASSUME NEW j \in 1 .. Len(g), NEW k \in 1 .. Len(g), g[j].key = g[k].key
         PROVE  j = k
    <2>1. CASE j <= m /\ k <= m
      <3>1. j \in 1 .. m /\ k \in 1 .. m /\ g[j] = f[j] /\ g[k] = f[k]
        BY <1>2, <1>3, <2>1
      <3> QED
        BY <1>6, <1>11, <3>1
    <2>2. CASE j <= m /\ ~(k <= m)
      <3>1. j \in 1 .. m /\ k - m \in 1 .. n /\ g[j] = f[j] /\ g[k] = c[k - m]
        BY <1>2, <1>3, <2>2
      <3> QED
        BY <1>7, <1>8, <1>11, <3>1
    <2>3. CASE ~(j <= m) /\ k <= m
      <3>1. k \in 1 .. m /\ j - m \in 1 .. n /\ g[k] = f[k] /\ g[j] = c[j - m]
        BY <1>2, <1>3, <2>3
      <3> QED
        BY <1>7, <1>8, <1>11, <3>1
    <2>4. CASE ~(j <= m) /\ ~(k <= m)
      <3>1. j - m \in 1 .. n /\ k - m \in 1 .. n /\ g[j] = c[j - m] /\ g[k] = c[k - m]
        BY <1>2, <1>3, <2>4
      <3>2. j - m = k - m
        BY <1>8, <1>11, <3>1
      <3>3. j \in Int /\ k \in Int /\ m \in Int
        BY <1>2, <1>3
      <3> QED
        BY ONLY <3>2, <3>3
    <2> QED
      BY <2>1, <2>2, <2>3, <2>4
  <1>12. g \in Seq(EntrySet)
    BY <1>3
  <1>13. Flat(t, g, i)
    BY <1>9, <1>10, <1>11, <1>12 DEF Flat
  <1> QED
    BY <1>13 DEF g, c

\* The entries of a table, flattened, are those it holds, once each.
LEMMA Flattened ==
  ASSUME NEW t, Hashed(t)
  PROVE  /\ Dictionary!FlattenSeq(t) \in Seq(EntrySet)
         /\ \A e : e \in Held(t) <=> \E j \in 1 .. Len(Dictionary!FlattenSeq(t)) :
                                       Dictionary!FlattenSeq(t)[j] = e
         /\ \A j, k \in 1 .. Len(Dictionary!FlattenSeq(t)) :
              Dictionary!FlattenSeq(t)[j].key = Dictionary!FlattenSeq(t)[k].key => j = k
  <1>0. /\ Len(t) \in Nat /\ t \in Seq(Seq(EntrySet))
        /\ \A e : e \in Held(t) <=> \E s \in 1 .. Len(t) : \E i \in 1 .. Len(t[s]) : e = t[s][i]
    <2>1. Len(t) \in Nat /\ t \in Seq(Seq(EntrySet))
      BY DEF Hashed
    <2>2. \A e : e \in Held(t) <=> \E s \in 1 .. Len(t) : \E i \in 1 .. Len(t[s]) : e = t[s][i]
      BY DEF Held
    <2> QED
      BY <2>1, <2>2
  <1>1. CASE Len(t) = 0
    <2>1. Dictionary!FlattenSeq(t) = t /\ t = <<>>
      BY <1>0, <1>1 DEF Dictionary!FlattenSeq
    <2>2. Held(t) = {}
      BY <1>0, <1>1
    <2> QED
      BY <2>1, <2>2
  <1>2. CASE Len(t) # 0
    <2> DEFINE F == UpTo(t)
               Bad == {i \in Nat : i \in 1 .. Len(t) /\ ~Flat(t, F[i], i)}
    <2>1. /\ Dictionary!FlattenSeq(t) = F[Len(t)]
          /\ \A i \in 1 .. Len(t) : F[i] = Turn(t, F, i)
      <3>1. Len(t) \in Nat \ {0}
        BY <1>0, <1>2
      <3> QED
        BY <3>1, FlattenIs
    <2> HIDE DEF F
    <2>2. Bad = {}
      <3>1. SUFFICES ASSUME Bad # {} PROVE FALSE
        OBVIOUS
      <3>2. PICK i \in Bad : \A j \in Bad : i <= j
        <4>1. Bad \in SUBSET Nat
          OBVIOUS
        <4> HIDE DEF Bad
        <4> QED
          BY <3>1, <4>1, LeastOf
      <3>3. i \in 1 .. Len(t) /\ ~Flat(t, F[i], i) /\ F[i] = Turn(t, F, i)
        BY <2>1, <3>2
      <3>4. CASE i = 1
        <4>1. F[i] = t[1]
          BY <3>3, <3>4 DEF Turn
        <4>2. Chain(t[1], 1, Len(t))
          BY <3>3, <3>4 DEF Hashed
        <4>3. Flat(t, t[1], 1)
          BY <4>2 DEF Chain, Flat
        <4> QED
          BY <3>3, <3>4, <4>1, <4>3
      <3>5. CASE i # 1
        <4>1. i \in 2 .. Len(t) /\ i - 1 \in Nat /\ i - 1 \in 1 .. Len(t) /\ ~(i <= i - 1)
          BY <1>0, <3>3, <3>5
        <4>2. i - 1 \notin Bad
          <5> HIDE DEF Bad
          <5> QED
            BY <3>2, <4>1
        <4>3. Flat(t, F[i - 1], i - 1)
          BY <4>1, <4>2
        <4>4. Flat(t, F[i - 1] \o t[i], i)
          BY <4>1, <4>3, FlatNext
        <4>5. F[i] = F[i - 1] \o t[i]
          BY <3>3, <3>5 DEF Turn
        <4> QED
          BY <3>3, <4>4, <4>5
      <3> QED
        BY <3>4, <3>5
    <2>3. Flat(t, F[Len(t)], Len(t))
      <3>1. Len(t) \in 1 .. Len(t) /\ Len(t) \in Nat
        BY <1>0, <1>2
      <3> QED
        BY <2>2, <3>1
    <2> DEFINE f == F[Len(t)]
    <2> HIDE DEF f
    <2>4. Flat(t, f, Len(t)) /\ Dictionary!FlattenSeq(t) = f
      BY <2>1, <2>3 DEF f
    <2>5. ASSUME NEW e PROVE e \in Held(t) <=> \E j \in 1 .. Len(f) : f[j] = e
      <3>1. /\ \A j \in 1 .. Len(f) : \E s \in 1 .. Len(t) : \E p \in 1 .. Len(t[s]) : f[j] = t[s][p]
            /\ \A s \in 1 .. Len(t) : \A p \in 1 .. Len(t[s]) : \E j \in 1 .. Len(f) : f[j] = t[s][p]
        BY <2>4 DEF Flat
      <3>2. ASSUME e \in Held(t) PROVE \E j \in 1 .. Len(f) : f[j] = e
        <4>1. PICK s \in 1 .. Len(t) : \E i \in 1 .. Len(t[s]) : e = t[s][i]
          BY <1>0, <3>2
        <4>2. PICK i \in 1 .. Len(t[s]) : e = t[s][i]
          BY <4>1
        <4> QED
          BY <3>1, <4>2
      <3>3. ASSUME NEW j \in 1 .. Len(f), f[j] = e PROVE e \in Held(t)
        <4>1. PICK s \in 1 .. Len(t) : \E p \in 1 .. Len(t[s]) : f[j] = t[s][p]
          BY <3>1
        <4> QED
          BY <1>0, <3>3, <4>1
      <3> QED
        BY <3>2, <3>3
    <2> QED
      BY <2>4, <2>5 DEF Flat
  <1> QED
    BY <1>1, <1>2

\* The position of an entry in the flattened table, and its keys.
LEMMA KeysFlattened ==
  ASSUME NEW t, Hashed(t), NEW f, f = Dictionary!FlattenSeq(t)
  PROVE  /\ {f[i].key : i \in DOMAIN f} = KeysIn(Held(t))
         /\ IsFiniteSet(KeysIn(Held(t))) /\ Cardinality(KeysIn(Held(t))) = Len(f)
         /\ \A e \in Held(t) : f[Dictionary!At(f, e.key)] = e
  <1>1. /\ f \in Seq(EntrySet)
        /\ \A e : e \in Held(t) <=> \E j \in 1 .. Len(f) : f[j] = e
        /\ \A j, k \in 1 .. Len(f) : f[j].key = f[k].key => j = k
    BY Flattened
  <1>2. DOMAIN f = 1 .. Len(f) /\ Len(f) \in Nat
    BY <1>1
  <1>3. {f[i].key : i \in DOMAIN f} = KeysIn(Held(t))
    BY <1>1, <1>2 DEF KeysIn
  <1>4. IsFiniteSet(KeysIn(Held(t))) /\ Cardinality(KeysIn(Held(t))) = Len(f)
    <2> DEFINE g == [i \in 1 .. Len(f) |-> f[i].key]
    <2>1. g \in Bijection(1 .. Len(f), KeysIn(Held(t)))
      <3>1. g \in [1 .. Len(f) -> KeysIn(Held(t))]
        BY <1>2, <1>3
      <3>2. \A a, b \in 1 .. Len(f) : g[a] = g[b] => a = b
        BY <1>1
      <3>3. \A k \in KeysIn(Held(t)) : \E a \in 1 .. Len(f) : g[a] = k
        BY <1>2, <1>3
      <3> HIDE DEF g
      <3> QED
        BY <3>1, <3>2, <3>3, Fun_IsBij
    <2>2. ExistsBijection(1 .. Len(f), KeysIn(Held(t)))
      BY <2>1 DEF ExistsBijection
    <2> QED
      BY <1>2, <2>2, FS_NatBijection, FS_CountingElements
  <1>5. ASSUME NEW e \in Held(t) PROVE f[Dictionary!At(f, e.key)] = e
    <2>1. PICK j \in 1 .. Len(f) : f[j] = e
      BY <1>1
    <2>2. \E i \in DOMAIN f : f[i].key = e.key
      BY <1>2, <2>1
    <2>3. Dictionary!At(f, e.key) \in DOMAIN f /\ f[Dictionary!At(f, e.key)].key = e.key
      BY <2>2 DEF Dictionary!At
    <2> QED
      BY <1>1, <1>2, <2>1, <2>3
  <1> QED
    BY <1>3, <1>4, <1>5

-----------------------------------------------------------------------------
(* Chains change                                                            *)

Changed(t, s, c) == [t EXCEPT ![s] = c]

LEMMA SlotChanged ==
  ASSUME NEW t, Hashed(t), NEW s \in 1 .. Len(t), NEW c, Chain(c, s, Len(t)),
         NEW u, u = Changed(t, s, c)
  PROVE  /\ Hashed(u) /\ Len(u) = Len(t)
         /\ \A x : x \in Held(u) <=> \/ x \in Held(t) /\ Dictionary!Slot(x.key, Len(t)) # s
                                     \/ \E i \in 1 .. Len(c) : c[i] = x
  <1>1. c \in Seq(EntrySet) /\ t \in Seq(Seq(EntrySet)) /\ Len(t) \in Nat
    BY DEF Chain, Hashed
  <1>2. u \in Seq(Seq(EntrySet)) /\ Len(u) = Len(t) /\ u[s] = c
        /\ \A r \in 1 .. Len(t) : r # s => u[r] = t[r]
    BY <1>1 DEF Changed
  <1>3. \A r \in 1 .. Len(t) : Chain(u[r], r, Len(t))
    BY <1>2 DEF Hashed
  <1>4. Hashed(u)
    BY <1>2, <1>3 DEF Hashed
  <1>5. ASSUME NEW x \in Held(u)
        PROVE  \/ x \in Held(t) /\ Dictionary!Slot(x.key, Len(t)) # s
               \/ \E i \in 1 .. Len(c) : c[i] = x
    <2>1. PICK r \in 1 .. Len(t) : \E i \in 1 .. Len(u[r]) : x = u[r][i]
      BY <1>2, HeldDef
    <2>2. PICK i \in 1 .. Len(u[r]) : x = u[r][i]
      BY <2>1
    <2>3. CASE r = s
      BY <1>2, <2>2, <2>3
    <2>4. CASE r # s
      <3>1. u[r] = t[r]
        BY <1>2, <2>4
      <3>2. x \in Held(t)
        BY <2>2, <3>1, HeldIs
      <3>3. Dictionary!Slot(x.key, Len(t)) = r
        BY <1>3, <2>2 DEF Chain
      <3> QED
        BY <2>4, <3>2, <3>3
    <2> QED
      BY <2>3, <2>4
  <1>6. ASSUME NEW x \in Held(t), Dictionary!Slot(x.key, Len(t)) # s PROVE x \in Held(u)
    <2>1. PICK r \in 1 .. Len(t) : \E i \in 1 .. Len(t[r]) : x = t[r][i]
      BY HeldIs
    <2>2. PICK i \in 1 .. Len(t[r]) : x = t[r][i]
      BY <2>1
    <2>3. Chain(t[r], r, Len(t))
      BY DEF Hashed
    <2>4. r # s
      BY <1>6, <2>2, <2>3 DEF Chain
    <2> QED
      <3>1. r \in 1 .. Len(u) /\ i \in 1 .. Len(u[r]) /\ x = u[r][i]
        BY <1>2, <2>2, <2>4
      <3> QED
        BY <3>1, HeldDef
  <1>7. ASSUME NEW i \in 1 .. Len(c) PROVE c[i] \in Held(u)
    <2>1. s \in 1 .. Len(u) /\ i \in 1 .. Len(u[s]) /\ c[i] = u[s][i]
      BY <1>2
    <2> QED
      BY <2>1, HeldDef
  <1> QED
    BY <1>2, <1>4, <1>5, <1>6, <1>7

LEMMA Lookup ==
  ASSUME NEW t, Hashed(t), Len(t) # 0, NEW k \in Keys,
         NEW s, s = Dictionary!Slot(k, Len(t))
  PROVE  /\ s \in 1 .. Len(t) /\ Chain(t[s], s, Len(t))
         /\ Dictionary!In(t[s], k) <=> k \in KeysIn(Held(t))
         /\ Dictionary!In(t[s], k) => /\ Dictionary!At(t[s], k) \in 1 .. Len(t[s])
                                      /\ t[s][Dictionary!At(t[s], k)].key = k
                                      /\ t[s][Dictionary!At(t[s], k)] \in Held(t)
  <1>1. Len(t) \in Nat \ {0}
    BY HeldIs
  <1>2. s \in 1 .. Len(t)
    BY <1>1, SlotIn
  <1>3. Chain(t[s], s, Len(t))
    BY <1>2 DEF Hashed
  <1>4. DOMAIN t[s] = 1 .. Len(t[s])
    BY <1>3 DEF Chain
  <1>5. ASSUME Dictionary!In(t[s], k)
        PROVE  /\ Dictionary!At(t[s], k) \in 1 .. Len(t[s])
               /\ t[s][Dictionary!At(t[s], k)].key = k
               /\ t[s][Dictionary!At(t[s], k)] \in Held(t)
    <2>1. \E i \in DOMAIN t[s] : t[s][i].key = k
      BY <1>5 DEF Dictionary!In
    <2>2. Dictionary!At(t[s], k) \in DOMAIN t[s] /\ t[s][Dictionary!At(t[s], k)].key = k
      BY <2>1 DEF Dictionary!At
    <2> QED
      BY <1>2, <1>4, <2>2, HeldIs
  <1>6. ASSUME NEW e \in Held(t), e.key = k PROVE Dictionary!In(t[s], k)
    BY <1>4, <1>6, HeldIs DEF Dictionary!In
  <1> QED
    BY <1>2, <1>3, <1>5, <1>6 DEF KeysIn

\* A new key: the entry goes before its chain.
LEMMA LinkedIs ==
  ASSUME NEW t, Hashed(t), Len(t) # 0, NEW e \in EntrySet, e.key \notin KeysIn(Held(t)),
         NEW u, u = Dictionary!Linked(t, e)
  PROVE  Hashed(u) /\ Len(u) = Len(t) /\ Held(u) = Held(t) \cup {e}
  <1> DEFINE s == Dictionary!Slot(e.key, Len(t))
             c == <<e>> \o t[s]
  <1>0. e.key \in Keys
    BY DEF EntrySet
  <1>1. s \in 1 .. Len(t) /\ Chain(t[s], s, Len(t)) /\ ~Dictionary!In(t[s], e.key)
    BY <1>0, Lookup
  <1> HIDE DEF s
  <1>2. /\ t[s] \in Seq(EntrySet) /\ Len(t[s]) \in Nat /\ DOMAIN t[s] = 1 .. Len(t[s])
        /\ \A i \in 1 .. Len(t[s]) : Dictionary!Slot(t[s][i].key, Len(t)) = s
        /\ \A i, j \in 1 .. Len(t[s]) : t[s][i].key = t[s][j].key => i = j
        /\ \A i \in 1 .. Len(t[s]) : t[s][i].key # e.key
    BY <1>1 DEF Chain, Dictionary!In
  <1>3. /\ c \in Seq(EntrySet) /\ Len(c) = Len(t[s]) + 1 /\ c[1] = e
        /\ \A i \in 2 .. Len(t[s]) + 1 : c[i] = t[s][i - 1]
    <2> DEFINE d == t[s]
    <2>1. d \in Seq(EntrySet) /\ Len(d) \in Nat
      BY <1>2
    <2> HIDE DEF d
    <2>2. /\ <<e>> \o d \in Seq(EntrySet) /\ Len(<<e>> \o d) = Len(d) + 1 /\ (<<e>> \o d)[1] = e
          /\ \A i \in 2 .. Len(d) + 1 : (<<e>> \o d)[i] = d[i - 1]
      BY <2>1
    <2> QED
      BY <2>2 DEF d
  <1>4. u = Changed(t, s, c)
    BY DEF Dictionary!Linked, Changed, s
  <1> HIDE DEF c
  <1>5. Chain(c, s, Len(t))
    <2>1. \A i \in 1 .. Len(c) : i = 1 \/ (i \in 2 .. Len(t[s]) + 1 /\ i - 1 \in 1 .. Len(t[s]))
      BY <1>2, <1>3
    <2>2. \A i \in 1 .. Len(c) : Dictionary!Slot(c[i].key, Len(t)) = s
      BY <1>2, <1>3, <2>1, ZenonT(60) DEF s
    <2>3. ASSUME NEW i \in 1 .. Len(c), NEW j \in 1 .. Len(c), c[i].key = c[j].key PROVE i = j
      <3>1. CASE i = 1 \/ j = 1
        <4>1. ASSUME NEW p \in 1 .. Len(c), c[p].key = e.key PROVE p = 1
          BY <1>2, <1>3, <2>1, <4>1
        <4> QED
          BY <1>3, <2>3, <3>1, <4>1
      <3>2. CASE i # 1 /\ j # 1
        <4>1. i - 1 \in 1 .. Len(t[s]) /\ j - 1 \in 1 .. Len(t[s])
              /\ c[i] = t[s][i - 1] /\ c[j] = t[s][j - 1]
          BY <1>3, <2>1, <3>2
        <4>2. i - 1 = j - 1
          BY <1>2, <2>3, <4>1
        <4>3. i \in Int /\ j \in Int
          BY <2>3
        <4> QED
          BY ONLY <4>2, <4>3
      <3> QED
        BY <3>1, <3>2
    <2> QED
      BY <1>3, <2>2, <2>3 DEF Chain
  <1>6. /\ Hashed(u) /\ Len(u) = Len(t)
        /\ \A x : x \in Held(u) <=> \/ x \in Held(t) /\ Dictionary!Slot(x.key, Len(t)) # s
                                    \/ \E i \in 1 .. Len(c) : c[i] = x
    <2>1. s \in 1 .. Len(t) /\ Chain(c, s, Len(t)) /\ u = Changed(t, s, c) /\ Hashed(t)
      BY <1>1, <1>4, <1>5
    <2> QED
      BY ONLY <2>1, SlotChanged
  <1>7. ASSUME NEW x PROVE (\E i \in 1 .. Len(c) : c[i] = x)
                             <=> x = e \/ \E i \in 1 .. Len(t[s]) : t[s][i] = x
    <2>1. ASSUME NEW i \in 1 .. Len(t[s]) PROVE i + 1 \in 1 .. Len(c) /\ c[i + 1] = t[s][i]
      <3>1. i + 1 \in 2 .. Len(t[s]) + 1 /\ i + 1 - 1 = i
        BY <1>2
      <3> QED
        BY <1>2, <1>3, <3>1
    <2>2. \A i \in 1 .. Len(c) : c[i] = e \/ \E j \in 1 .. Len(t[s]) : t[s][j] = c[i]
      BY <1>2, <1>3
    <2>3. 1 \in 1 .. Len(c) /\ c[1] = e
      BY <1>2, <1>3
    <2> QED
      BY <2>1, <2>2, <2>3
  <1>8. ASSUME NEW x PROVE (\E i \in 1 .. Len(t[s]) : t[s][i] = x)
                             <=> x \in Held(t) /\ Dictionary!Slot(x.key, Len(t)) = s
    <2>1. ASSUME NEW i \in 1 .. Len(t[s])
          PROVE  t[s][i] \in Held(t) /\ Dictionary!Slot(t[s][i].key, Len(t)) = s
      BY <1>1, <1>2, HeldIs
    <2>2. ASSUME x \in Held(t), Dictionary!Slot(x.key, Len(t)) = s
          PROVE  \E i \in 1 .. Len(t[s]) : t[s][i] = x
      BY <2>2, HeldIs
    <2> QED
      BY <2>1, <2>2
  <1>9. \A x : x \in Held(u) <=> x \in Held(t) \/ x = e
    BY <1>6, <1>7, <1>8
  <1> QED
    BY <1>6, <1>9

\* A set of entries without that of a key, and with another one instead.
Minus(S, k) == {x \in S : x.key # k}
Plus(S, k, v) == Minus(S, k) \cup {Dictionary!Entry(k, v)}

\* A value is replaced where its key is.
ReplacedIn(t, s, k, v) == [t EXCEPT ![s][Dictionary!At(t[s], k)].val = v]

LEMMA ReplacedIs ==
  ASSUME NEW t, Hashed(t), Len(t) # 0, NEW k \in Keys, NEW v \in Vals,
         NEW s, s = Dictionary!Slot(k, Len(t)), Dictionary!In(t[s], k),
         NEW u, u = ReplacedIn(t, s, k, v)
  PROVE  /\ Hashed(u) /\ Len(u) = Len(t)
         /\ Held(u) = Plus(Held(t), k, v)
  <1> DEFINE a == Dictionary!At(t[s], k)
             e == Dictionary!Entry(k, v)
             d == t[s]
             c == [d EXCEPT ![a] = e]
  <1>1. s \in 1 .. Len(t) /\ Chain(d, s, Len(t)) /\ a \in 1 .. Len(d) /\ d[a].key = k
    BY Lookup
  <1>2. e \in EntrySet /\ e.key = k
    BY DEF Dictionary!Entry, EntrySet
  <1>3. /\ d \in Seq(EntrySet) /\ Len(d) \in Nat /\ DOMAIN d = 1 .. Len(d)
        /\ \A i \in 1 .. Len(d) : Dictionary!Slot(d[i].key, Len(t)) = s
        /\ \A i, j \in 1 .. Len(d) : d[i].key = d[j].key => i = j
    BY <1>1 DEF Chain
  <1>4. u = Changed(t, s, c)
    <2>1. d[a] \in EntrySet
      BY <1>1, <1>3
    <2>2. [d[a] EXCEPT !.val = v] = e
      BY <1>1, <2>1 DEF EntrySet, Dictionary!Entry
    <2>3. u = [t EXCEPT ![s] = [d EXCEPT ![a] = [d[a] EXCEPT !.val = v]]]
      BY DEF ReplacedIn
    <2> QED
      BY <2>2, <2>3 DEF Changed
  <1> HIDE DEF a, e, d
  <1>5. /\ c \in Seq(EntrySet) /\ Len(c) = Len(d) /\ c[a] = e
        /\ \A i \in 1 .. Len(d) : i # a => c[i] = d[i]
    BY <1>1, <1>2, <1>3
  <1> HIDE DEF c
  <1>6. \A i \in 1 .. Len(c) : c[i].key = d[i].key
    BY <1>1, <1>2, <1>5
  <1>7. Chain(c, s, Len(t))
    BY <1>3, <1>5, <1>6 DEF Chain
  <1>8. /\ Hashed(u) /\ Len(u) = Len(t)
        /\ \A x : x \in Held(u) <=> \/ x \in Held(t) /\ Dictionary!Slot(x.key, Len(t)) # s
                                    \/ \E i \in 1 .. Len(c) : c[i] = x
    <2>1. s \in 1 .. Len(t) /\ Chain(c, s, Len(t)) /\ u = Changed(t, s, c) /\ Hashed(t)
      BY <1>1, <1>4, <1>7
    <2> QED
      BY ONLY <2>1, SlotChanged
  <1>9. ASSUME NEW x \in Held(u) PROVE (x \in Held(t) /\ x.key # k) \/ x = e
    <2>1. CASE x \in Held(t) /\ Dictionary!Slot(x.key, Len(t)) # s
      BY <2>1
    <2>2. ASSUME NEW i \in 1 .. Len(c), c[i] = x PROVE (x \in Held(t) /\ x.key # k) \/ x = e
      <3>1. CASE i = a
        BY <1>5, <2>2, <3>1
      <3>2. CASE i # a
        <4>1. c[i] = d[i] /\ i \in 1 .. Len(d)
          BY <1>5, <3>2
        <4>2. d[i] \in Held(t)
          BY <1>1, <4>1, HeldIs DEF d
        <4>3. d[i].key # k
          BY <1>1, <1>3, <3>2, <4>1
        <4> QED
          BY <2>2, <4>1, <4>2, <4>3
      <3> QED
        BY <3>1, <3>2
    <2> QED
      BY <1>8, <2>1, <2>2
  <1>10. e \in Held(u)
    BY <1>1, <1>5, <1>8
  <1>11. ASSUME NEW x \in Held(t), x.key # k PROVE x \in Held(u)
    <2>1. CASE Dictionary!Slot(x.key, Len(t)) = s
      <3>1. PICK i \in 1 .. Len(d) : x = d[i]
        BY <2>1, HeldIs DEF d
      <3>2. i # a
        BY <1>1, <1>11, <3>1
      <3> QED
        BY <1>5, <1>8, <3>1, <3>2
    <2>2. CASE Dictionary!Slot(x.key, Len(t)) # s
      BY <1>8, <2>2
    <2> QED
      BY <2>1, <2>2
  <1>12. \A x : x \in Held(u) <=> (x \in Held(t) /\ x.key # k) \/ x = e
    BY <1>9, <1>10, <1>11
  <1>13. Held(u) = {x \in Held(t) : x.key # k} \cup {e}
    BY <1>12
  <1> QED
    BY <1>8, <1>13 DEF e, Plus, Minus

LEMMA JoinIs ==
  ASSUME NEW S, NEW l \in Seq(S), NEW r \in Seq(S)
  PROVE  /\ l \o r \in Seq(S) /\ Len(l \o r) = Len(l) + Len(r)
         /\ \A i \in 1 .. Len(l) + Len(r) :
              (l \o r)[i] = IF i <= Len(l) THEN l[i] ELSE r[i - Len(l)]
  OBVIOUS

LEMMA RemoveAtIs ==
  ASSUME NEW S, NEW c \in Seq(S), NEW a \in 1 .. Len(c)
  PROVE  /\ Dictionary!RemoveAt(c, a) \in Seq(S) /\ Len(Dictionary!RemoveAt(c, a)) = Len(c) - 1
         /\ \A i \in 1 .. Len(c) - 1 :
              Dictionary!RemoveAt(c, a)[i] = IF i < a THEN c[i] ELSE c[i + 1]
  <1> DEFINE l == SubSeq(c, 1, a - 1)
             r == SubSeq(c, a + 1, Len(c))
             n == Len(c)
  <1>1. n \in Nat
    OBVIOUS
  <1>2. l \in Seq(S) /\ Len(l) = a - 1 /\ \A i \in 1 .. a - 1 : l[i] = c[i]
    BY <1>1
  <1>3. r \in Seq(S) /\ Len(r) = n - a /\ \A i \in 1 .. n - a : r[i] = c[a + i]
    BY <1>1
  <1>4. Dictionary!RemoveAt(c, a) = l \o r
    BY DEF Dictionary!RemoveAt
  <1> HIDE DEF l, r
  <1>5. l \o r \in Seq(S) /\ Len(l \o r) = n - 1
    <2>1. l \o r \in Seq(S) /\ Len(l \o r) = Len(l) + Len(r)
      BY <1>2, <1>3, JoinIs
    <2>2. a \in Int
      OBVIOUS
    <2> QED
      BY <1>1, <1>2, <1>3, <2>1, <2>2
  <1>6. ASSUME NEW i \in 1 .. n - 1 PROVE (l \o r)[i] = IF i < a THEN c[i] ELSE c[i + 1]
    <2>1. (l \o r)[i] = IF i <= a - 1 THEN l[i] ELSE r[i - (a - 1)]
      BY <1>1, <1>2, <1>3
    <2>2. CASE i < a
      BY <1>1, <1>2, <2>1, <2>2
    <2>3. CASE ~(i < a)
      <3>1. i - (a - 1) \in 1 .. n - a /\ a + (i - (a - 1)) = i + 1
        BY <1>1, <2>3
      <3>2. r[i - (a - 1)] = c[i + 1]
        BY <1>3, <3>1
      <3>3. ~(i <= a - 1)
        BY <1>1, <2>3
      <3> QED
        BY <2>1, <2>3, <3>2, <3>3
    <2> QED
      BY <2>2, <2>3
  <1> QED
    BY <1>4, <1>5, <1>6

\* The entry of a key is unlinked from its chain.
UnlinkedIn(t, s, k) == [t EXCEPT ![s] = Dictionary!Unlinked(t[s], k)]

LEMMA UnlinkedIs ==
  ASSUME NEW t, Hashed(t), Len(t) # 0, NEW k \in Keys,
         NEW s, s = Dictionary!Slot(k, Len(t)), Dictionary!In(t[s], k),
         NEW u, u = UnlinkedIn(t, s, k)
  PROVE  Hashed(u) /\ Len(u) = Len(t) /\ Held(u) = Minus(Held(t), k)
  <1> DEFINE a == Dictionary!At(t[s], k)
             d == t[s]
             c == Dictionary!RemoveAt(d, a)
  <1>1. s \in 1 .. Len(t) /\ Chain(d, s, Len(t)) /\ a \in 1 .. Len(d) /\ d[a].key = k
    BY Lookup
  <1>2. /\ d \in Seq(EntrySet) /\ Len(d) \in Nat /\ DOMAIN d = 1 .. Len(d)
        /\ \A i \in 1 .. Len(d) : Dictionary!Slot(d[i].key, Len(t)) = s
        /\ \A i, j \in 1 .. Len(d) : d[i].key = d[j].key => i = j
    BY <1>1 DEF Chain
  <1>3. u = Changed(t, s, c)
    BY DEF UnlinkedIn, Dictionary!Unlinked, Changed
  <1> HIDE DEF a, d
  <1>4. /\ c \in Seq(EntrySet) /\ Len(c) = Len(d) - 1
        /\ \A i \in 1 .. Len(d) - 1 : c[i] = IF i < a THEN d[i] ELSE d[i + 1]
    BY <1>1, <1>2, RemoveAtIs
  <1> HIDE DEF c
  <1>5. ASSUME NEW i \in 1 .. Len(c)
        PROVE  \E j \in 1 .. Len(d) : j # a /\ c[i] = d[j] /\ j = IF i < a THEN i ELSE i + 1
    BY <1>1, <1>2, <1>4
  <1>6. Chain(c, s, Len(t))
    <2>1. \A i \in 1 .. Len(c) : Dictionary!Slot(c[i].key, Len(t)) = s
      BY <1>2, <1>5
    <2>2. ASSUME NEW i \in 1 .. Len(c), NEW j \in 1 .. Len(c), c[i].key = c[j].key PROVE i = j
      <3>1. PICK p \in 1 .. Len(d) : c[i] = d[p] /\ p = IF i < a THEN i ELSE i + 1
        BY <1>5
      <3>2. PICK q \in 1 .. Len(d) : c[j] = d[q] /\ q = IF j < a THEN j ELSE j + 1
        BY <1>5
      <3>3. p = q
        BY <1>2, <2>2, <3>1, <3>2
      <3>4. i \in Int /\ j \in Int /\ a \in Int /\ p \in Int /\ q \in Int
        BY <1>1, <2>2
      <3>5. p = (IF i < a THEN i ELSE i + 1) /\ q = (IF j < a THEN j ELSE j + 1)
        BY <3>1, <3>2
      <3>6. (i < a => p = i) /\ (~(i < a) => p = i + 1)
        BY ONLY <3>5
      <3>7. (j < a => q = j) /\ (~(j < a) => q = j + 1)
        BY ONLY <3>5
      <3> QED
        BY ONLY <3>3, <3>4, <3>6, <3>7
    <2> QED
      BY <1>4, <2>1, <2>2 DEF Chain
  <1>7. /\ Hashed(u) /\ Len(u) = Len(t)
        /\ \A x : x \in Held(u) <=> \/ x \in Held(t) /\ Dictionary!Slot(x.key, Len(t)) # s
                                    \/ \E i \in 1 .. Len(c) : c[i] = x
    <2>1. s \in 1 .. Len(t) /\ Chain(c, s, Len(t)) /\ u = Changed(t, s, c) /\ Hashed(t)
      BY <1>1, <1>3, <1>6
    <2> QED
      BY ONLY <2>1, SlotChanged
  <1>8. ASSUME NEW x \in Held(u) PROVE x \in Held(t) /\ x.key # k
    <2>1. CASE x \in Held(t) /\ Dictionary!Slot(x.key, Len(t)) # s
      BY <2>1
    <2>2. ASSUME NEW i \in 1 .. Len(c), c[i] = x PROVE x \in Held(t) /\ x.key # k
      <3>1. PICK j \in 1 .. Len(d) : j # a /\ c[i] = d[j]
        BY <1>5
      <3>2. d[j] \in Held(t)
        BY <1>1, HeldIs DEF d
      <3>3. d[j].key # k
        BY <1>1, <1>2, <3>1
      <3> QED
        BY <2>2, <3>1, <3>2, <3>3
    <2> QED
      BY <1>7, <2>1, <2>2
  <1>9. ASSUME NEW x \in Held(t), x.key # k PROVE x \in Held(u)
    <2>1. CASE Dictionary!Slot(x.key, Len(t)) = s
      <3>1. PICK j \in 1 .. Len(d) : x = d[j]
        BY <2>1, HeldIs DEF d
      <3>2. j # a
        BY <1>1, <1>9, <3>1
      <3>3. CASE j < a
        <4>1. j \in 1 .. Len(d) - 1
          BY <1>1, <1>2, <3>3
        <4> QED
          BY <1>4, <1>7, <3>1, <3>3, <4>1
      <3>4. CASE ~(j < a)
        <4>1. j - 1 \in 1 .. Len(d) - 1 /\ ~(j - 1 < a) /\ j - 1 + 1 = j
          BY <1>1, <1>2, <3>2, <3>4
        <4>2. c[j - 1] = d[j]
          BY <1>4, <4>1
        <4> QED
          BY <1>4, <1>7, <3>1, <4>1, <4>2
      <3> QED
        BY <3>3, <3>4
    <2>2. CASE Dictionary!Slot(x.key, Len(t)) # s
      BY <1>7, <2>2
    <2> QED
      BY <2>1, <2>2
  <1>10. Held(u) = Minus(Held(t), k)
    BY <1>8, <1>9 DEF Minus
  <1> QED
    BY <1>7, <1>10

-----------------------------------------------------------------------------
(* The table grows                                                          *)

Relink(n, f, i) == IF i = 0 THEN [j \in 1 .. n |-> <<>>]
                   ELSE Dictionary!Linked(f[i - 1], Dictionary!Entries[i])
Relinked(n) == CHOOSE f : f = [i \in 0 .. Len(Dictionary!Entries) |-> Relink(n, f, i)]

LEMMA RelinkedIs ==
  ASSUME NEW n, Len(Dictionary!Entries) \in Nat
  PROVE  /\ Dictionary!Rehashed(n) = Relinked(n)[Len(Dictionary!Entries)]
         /\ \A i \in 0 .. Len(Dictionary!Entries) : Relinked(n)[i] = Relink(n, Relinked(n), i)
  <1> DEFINE m == Len(Dictionary!Entries)
             Is(f, l) == f = [i \in 0 .. l |-> Relink(n, f, i)]
             Bad == {l \in Nat : ~\E f : Is(f, l)}
  <1>1. Bad = {}
    <2>1. SUFFICES ASSUME Bad # {} PROVE FALSE
      OBVIOUS
    <2>2. PICK l \in Bad : \A j \in Bad : l <= j
      <3>1. Bad \in SUBSET Nat
        OBVIOUS
      <3> HIDE DEF Bad
      <3> QED
        BY <2>1, <3>1, LeastOf
    <2>3. l # 0
      <3> DEFINE f == [i \in 0 .. 0 |-> [j \in 1 .. n |-> <<>>]]
      <3>1. \A i \in 0 .. 0 : Relink(n, f, i) = [j \in 1 .. n |-> <<>>]
        BY DEF Relink
      <3>2. Is(f, 0)
        BY <3>1
      <3> QED
        BY <2>2, <3>2
    <2>4. l - 1 \in Nat /\ l - 1 \notin Bad
      <3>1. l \in Nat
        BY <2>2
      <3> HIDE DEF Bad
      <3> QED
        BY <2>2, <2>3, <3>1
    <2>5. PICK f : Is(f, l - 1)
      BY <2>4
    <2> DEFINE g == [i \in 0 .. l |-> Relink(n, f, i)]
    <2>6. ASSUME NEW i \in 0 .. l PROVE Relink(n, g, i) = Relink(n, f, i)
      <3>1. CASE i = 0
        BY <3>1 DEF Relink
      <3>2. CASE i # 0
        <4>1. i - 1 \in 0 .. l /\ i - 1 \in 0 .. l - 1
          BY <3>2, <2>2
        <4>2. g[i - 1] = Relink(n, f, i - 1) /\ f[i - 1] = Relink(n, f, i - 1)
          BY <4>1, <2>5
        <4> HIDE DEF g
        <4> QED
          BY <4>2 DEF Relink
      <3> QED
        BY <3>1, <3>2
    <2> HIDE DEF g
    <2>7. Is(g, l)
      BY <2>6 DEF g
    <2> QED
      BY <2>2, <2>7
  <1>2. \E f : Is(f, m)
    BY <1>1
  <1>3. Is(Relinked(n), m)
    <2>1. Relinked(n) = CHOOSE f : Is(f, m)
      BY DEF Relinked
    <2> HIDE DEF Is
    <2> QED
      BY <1>2, <2>1
  <1>4. \A i \in 0 .. m : Relinked(n)[i] = Relink(n, Relinked(n), i)
    <2> DEFINE P == Relinked(n)
    <2> HIDE DEF P
    <2>1. Is(P, m)
      BY <1>3 DEF P
    <2>2. \A i \in 0 .. m : P[i] = Relink(n, P, i)
      BY <2>1
    <2> QED
      BY <2>2 DEF P
  <1>5. Dictionary!Rehashed(n) = Relinked(n)[m]
    BY DEF Dictionary!Rehashed, Relinked, Relink
  <1> QED
    BY <1>4, <1>5

\* Every entry of the old table is in the new one.
LEMMA RehashedIs ==
  ASSUME Hashed(table), NEW n \in Nat \ {0}, NEW u, u = Dictionary!Rehashed(n)
  PROVE  Hashed(u) /\ Len(u) = n /\ Held(u) = Held(table)
  <1> DEFINE E == Dictionary!Entries
             f == Relinked(n)
             Good(i) == /\ Hashed(f[i]) /\ Len(f[i]) = n
                        /\ Held(f[i]) = {E[j] : j \in 1 .. i}
             Bad == {i \in Nat : i <= Len(E) /\ ~Good(i)}
  <1>1. /\ E \in Seq(EntrySet)
        /\ \A e : e \in Held(table) <=> \E j \in 1 .. Len(E) : E[j] = e
        /\ \A j, k \in 1 .. Len(E) : E[j].key = E[k].key => j = k
    <2>1. E = Dictionary!FlattenSeq(table)
      BY DEF Dictionary!Entries
    <2> HIDE DEF E
    <2> QED
      BY <2>1, Flattened
  <1>2. Len(E) \in Nat
    BY <1>1
  <1>3. u = f[Len(E)] /\ \A i \in 0 .. Len(E) : f[i] = Relink(n, f, i)
    BY <1>2, RelinkedIs
  <1> HIDE DEF f
  <1>4. Bad = {}
    <2>1. SUFFICES ASSUME Bad # {} PROVE FALSE
      OBVIOUS
    <2>2. PICK i \in Bad : \A j \in Bad : i <= j
      <3>1. Bad \in SUBSET Nat
        OBVIOUS
      <3> HIDE DEF Bad
      <3> QED
        BY <2>1, <3>1, LeastOf
    <2>3. i \in Nat /\ i <= Len(E) /\ ~Good(i)
      BY <2>2
    <2>4. CASE i = 0
      <3> DEFINE z == [j \in 1 .. n |-> <<>>]
      <3>1. f[i] = z
        BY <1>2, <1>3, <2>4 DEF Relink
      <3>2. z \in Seq(Seq(EntrySet)) /\ Len(z) = n /\ \A j \in 1 .. n : z[j] = <<>>
        <4>1. <<>> \in Seq(EntrySet)
          OBVIOUS
        <4> QED
          BY <4>1
      <3> HIDE DEF z
      <3>3. Hashed(z)
        <4>1. \A s \in 1 .. Len(z) : Chain(z[s], s, Len(z))
          BY <3>2 DEF Chain
        <4> QED
          BY <3>2, <4>1 DEF Hashed
      <3>4. Held(z) = {}
        <4>1. \A r \in 1 .. Len(z) : \A j \in 1 .. Len(z[r]) : FALSE
          BY <3>2
        <4>2. \A e : e \notin Held(z)
          BY <4>1, HeldDef
        <4> QED
          BY <4>2
      <3>5. Held(z) = {E[j] : j \in 1 .. i}
        BY <2>4, <3>4
      <3> QED
        BY <2>3, <3>1, <3>2, <3>3, <3>5
    <2>5. CASE i # 0
      <3>1. i - 1 \in Nat /\ i \in 1 .. Len(E) /\ i \in 0 .. Len(E) /\ ~(i <= i - 1) /\ i - 1 <= Len(E)
        BY <1>2, <2>3, <2>5
      <3>2. i - 1 \notin Bad
        <4> HIDE DEF Bad
        <4> QED
          BY <2>2, <3>1
      <3>3. Good(i - 1)
        BY <3>1, <3>2
      <3>4. f[i] = Dictionary!Linked(f[i - 1], E[i])
        BY <1>3, <2>5, <3>1 DEF Relink
      <3>5. E[i] \in EntrySet /\ Len(f[i - 1]) # 0
        BY <1>1, <3>1, <3>3
      <3>6. E[i].key \notin KeysIn(Held(f[i - 1]))
        <4>1. \A j \in 1 .. i - 1 : j \in 1 .. Len(E) /\ j # i
          BY <1>2, <3>1
        <4>2. \A j \in 1 .. i - 1 : E[j].key # E[i].key
          BY <1>1, <3>1, <4>1
        <4> QED
          BY <3>3, <4>2 DEF KeysIn
      <3>7. /\ Hashed(f[i]) /\ Len(f[i]) = n
            /\ Held(f[i]) = Held(f[i - 1]) \cup {E[i]}
        <4> HIDE DEF E
        <4> QED
          BY <3>3, <3>4, <3>5, <3>6, LinkedIs
      <3>8. Held(f[i]) = {E[j] : j \in 1 .. i}
        <4>1. 1 .. i = (1 .. i - 1) \cup {i}
          BY <3>1
        <4> HIDE DEF E
        <4> QED
          BY <3>3, <3>7, <4>1
      <3> QED
        BY <2>3, <3>7, <3>8
    <2> QED
      BY <2>4, <2>5
  <1>5. Good(Len(E))
    BY <1>2, <1>4
  <1>6. {E[j] : j \in 1 .. Len(E)} = Held(table)
    <2> HIDE DEF E
    <2> QED
      BY <1>1
  <1> QED
    BY <1>3, <1>5, <1>6

LEMMA ExpandedIs ==
  ASSUME Hashed(table), IsFiniteSet(KeysIn(Held(table))), used \in Nat, used <= Len(table),
         NEW u, u = Dictionary!Expanded
  PROVE  Hashed(u) /\ Held(u) = Held(table) /\ Len(u) \in Nat \ {0} /\ used + 1 <= Len(u)
  <1>1. Len(table) \in Nat /\ InitialSize \in Nat \ {0}
    BY DictAssumption DEF Hashed
  <1>2. CASE Len(table) = 0
    <2>1. u = Dictionary!Rehashed(InitialSize)
      BY <1>2 DEF Dictionary!Expanded, Dictionary!size
    <2>2. Hashed(u) /\ Len(u) = InitialSize /\ Held(u) = Held(table)
      BY <1>1, <2>1, RehashedIs
    <2> QED
      BY <1>1, <1>2, <2>2
  <1>3. CASE Len(table) # 0 /\ used = Len(table)
    <2>1. u = Dictionary!Rehashed(2 * Len(table)) /\ 2 * Len(table) \in Nat \ {0}
      BY <1>1, <1>3 DEF Dictionary!Expanded, Dictionary!size
    <2>2. Hashed(u) /\ Len(u) = 2 * Len(table) /\ Held(u) = Held(table)
      BY <2>1, RehashedIs
    <2> QED
      BY <1>1, <1>3, <2>2
  <1>4. CASE Len(table) # 0 /\ used # Len(table)
    <2>1. u = table
      BY <1>4 DEF Dictionary!Expanded, Dictionary!size
    <2> QED
      BY <1>1, <1>4, <2>1
  <1> QED
    BY <1>2, <1>3, <1>4

-----------------------------------------------------------------------------
(* The table is a map                                                       *)

TableInv == /\ Hashed(table) /\ IsFiniteSet(KeysIn(Held(table)))
            /\ used = Cardinality(KeysIn(Held(table))) /\ used \in Nat /\ used <= Len(table)

MapOf(S) == [k \in KeysIn(S) |-> (CHOOSE e \in S : e.key = k).val]

LEMMA MapAt ==
  ASSUME NEW S, Functional(S), NEW e \in S
  PROVE  e.key \in KeysIn(S) /\ MapOf(S)[e.key] = e.val /\ DOMAIN MapOf(S) = KeysIn(S)
  <1>1. e.key \in KeysIn(S)
    BY DEF KeysIn
  <1>2. (CHOOSE f \in S : f.key = e.key) = e
    BY DEF Functional
  <1> QED
    BY <1>1, <1>2 DEF MapOf

LEMMA KeysWithout ==
  ASSUME NEW S, NEW k
  PROVE  KeysIn(Minus(S, k)) = KeysIn(S) \ {k}
  BY DEF KeysIn, Minus

LEMMA KeysWith ==
  ASSUME NEW S, NEW k, NEW v
  PROVE  KeysIn(Plus(S, k, v)) = KeysIn(S) \cup {k}
  <1> DEFINE e == Dictionary!Entry(k, v)
             T == {x \in S : x.key # k} \cup {e}
  <1>1. e.key = k
    BY DEF Dictionary!Entry
  <1> HIDE DEF e
  <1>2. ASSUME NEW x PROVE x \in KeysIn(T) <=> x \in KeysIn(S) \/ x = k
    BY <1>1 DEF KeysIn
  <1>3. KeysIn(T) = KeysIn(S) \cup {k}
    BY <1>2
  <1> QED
    BY <1>3 DEF e, Plus, Minus

LEMMA MapWithout ==
  ASSUME NEW S, Functional(S), NEW k
  PROVE  MapOf(Minus(S, k)) = [x \in KeysIn(S) \ {k} |-> MapOf(S)[x]]
  <1> DEFINE T == Minus(S, k)
  <1>1. KeysIn(T) = KeysIn(S) \ {k}
    BY KeysWithout
  <1>2. Functional(T)
    BY DEF Functional, Minus
  <1>3. ASSUME NEW x \in KeysIn(T) PROVE MapOf(T)[x] = MapOf(S)[x]
    <2>1. PICK e \in T : e.key = x
      BY DEF KeysIn
    <2>2. e \in S
      BY <2>1 DEF Minus
    <2>3. MapOf(T)[e.key] = e.val
      BY <1>2, <2>1, MapAt
    <2>4. MapOf(S)[e.key] = e.val
      BY <2>2, MapAt
    <2> QED
      BY <2>1, <2>3, <2>4
  <1>4. MapOf(T) = [x \in KeysIn(T) |-> MapOf(T)[x]]
    BY DEF MapOf
  <1> QED
    BY <1>1, <1>3, <1>4

MapPlus(M, k, v) == [x \in DOMAIN M \cup {k} |-> IF x = k THEN v ELSE M[x]]

LEMMA MapWith ==
  ASSUME NEW S, Functional(S), NEW k, NEW v
  PROVE  MapOf(Plus(S, k, v)) = MapPlus(MapOf(S), k, v)
  <1> DEFINE T == Plus(S, k, v)
  <1>0. Dictionary!Entry(k, v).key = k /\ Dictionary!Entry(k, v).val = v
    BY DEF Dictionary!Entry
  <1>1. KeysIn(T) = KeysIn(S) \cup {k}
    BY KeysWith
  <1>2. Functional(T)
    BY <1>0 DEF Functional, Plus, Minus
  <1>3. ASSUME NEW x \in KeysIn(T) PROVE MapOf(T)[x] = IF x = k THEN v ELSE MapOf(S)[x]
    <2>1. PICK e \in T : e.key = x
      BY DEF KeysIn
    <2>2. MapOf(T)[e.key] = e.val
      BY <1>2, <2>1, MapAt
    <2>3. CASE x = k
      <3>1. e = Dictionary!Entry(k, v)
        BY <2>1, <2>3 DEF Plus, Minus
      <3> QED
        BY <1>0, <2>1, <2>2, <2>3, <3>1
    <2>4. CASE x # k
      <3>1. e \in S
        BY <1>0, <2>1, <2>4 DEF Plus, Minus
      <3>2. MapOf(S)[e.key] = e.val
        BY <3>1, MapAt
      <3> QED
        BY <2>1, <2>2, <2>4, <3>2
    <2> QED
      BY <2>3, <2>4
  <1>4. ASSUME NEW x \in KeysIn(T)
        PROVE  (CHOOSE e \in T : e.key = x).val = IF x = k THEN v ELSE MapOf(S)[x]
    <2>1. MapOf(T)[x] = (CHOOSE e \in T : e.key = x).val
      BY DEF MapOf
    <2> QED
      BY <1>3, <2>1
  <1>5. DOMAIN MapOf(S) = KeysIn(S)
    BY DEF MapOf
  <1> HIDE DEF T
  <1>6. MapOf(T) = [x \in KeysIn(T) |-> IF x = k THEN v ELSE MapOf(S)[x]]
    <2> DEFINE R(x) == IF x = k THEN v ELSE MapOf(S)[x]
    <2>1. \A x \in KeysIn(T) : (CHOOSE e \in T : e.key = x).val = R(x)
      BY <1>4
    <2> HIDE DEF R
    <2>2. MapOf(T) = [x \in KeysIn(T) |-> R(x)]
      BY <2>1 DEF MapOf
    <2> QED
      BY <2>2 DEF R
  <1>7. KeysIn(T) = DOMAIN MapOf(S) \cup {k}
    BY <1>1, <1>5
  <1> QED
    BY <1>6, <1>7 DEF T, MapPlus

Shown(t) == LET f == Dictionary!FlattenSeq(t)
            IN  [k \in {f[i].key : i \in DOMAIN f} |-> f[Dictionary!At(f, k)].val]

LEMMA ShownIs ==
  ASSUME NEW t, Hashed(t)
  PROVE  Shown(t) = MapOf(Held(t))
  <1> DEFINE f == Dictionary!FlattenSeq(t)
             K == {f[i].key : i \in DOMAIN f}
  <1>1. K = KeysIn(Held(t)) /\ \A e \in Held(t) : f[Dictionary!At(f, e.key)] = e
    <2> HIDE DEF f
    <2>1. f = Dictionary!FlattenSeq(t)
      BY DEF f
    <2> QED
      BY <2>1, KeysFlattened
  <1>2. Functional(Held(t))
    BY HeldIs
  <1> HIDE DEF f
  <1>3. ASSUME NEW k \in K PROVE f[Dictionary!At(f, k)].val = MapOf(Held(t))[k]
    <2>1. k \in KeysIn(Held(t))
      BY <1>1
    <2>2. PICK e \in Held(t) : e.key = k
      BY <2>1 DEF KeysIn
    <2>3. MapOf(Held(t))[k] = e.val
      BY <1>2, <2>2, MapAt
    <2> QED
      BY <1>1, <2>2, <2>3
  <1>4. Shown(t) = [k \in K |-> f[Dictionary!At(f, k)].val]
    BY DEF Shown, f
  <1>5. MapOf(Held(t)) = [k \in KeysIn(Held(t)) |-> MapOf(Held(t))[k]]
    BY DEF MapOf
  <1> HIDE DEF K
  <1> QED
    BY <1>1, <1>3, <1>4, <1>5

LEMMA AddStep ==
  ASSUME TableInv, NEW k \in Keys, NEW v \in Vals, Dictionary!dictAdd(k, v)
  PROVE  TableInv' /\ Dictionary!Map!Add(k, v)
  <1> DEFINE t == Dictionary!Expanded
             s == Dictionary!Slot(k, Len(t))
             e == Dictionary!Entry(k, v)
  <1>1. /\ Hashed(t) /\ Held(t) = Held(table) /\ Len(t) \in Nat \ {0} /\ used + 1 <= Len(t)
    BY ExpandedIs DEF TableInv
  <1>2. e \in EntrySet /\ e.key = k
    BY DEF EntrySet, Dictionary!Entry
  <1>3. Shown(table) = MapOf(Held(table)) /\ Functional(Held(table))
    BY ShownIs, HeldIs DEF TableInv
  <1>4. IF Dictionary!In(t[s], k)
        THEN table' = t /\ used' = used /\ found' = Dictionary!Err
        ELSE table' = Dictionary!Linked(t, e) /\ used' = used + 1 /\ found' = Dictionary!Ok
    BY DEF Dictionary!dictAdd
  <1> HIDE DEF t, e
  <1>5. Dictionary!In(t[s], k) <=> k \in KeysIn(Held(table))
    BY <1>1, Lookup
  <1> HIDE DEF s
  <1>6. CASE Dictionary!In(t[s], k)
    <2>1. table' = t /\ used' = used /\ found' = Dictionary!Err
      BY <1>4, <1>6
    <2>2. TableInv'
      BY <1>1, <2>1 DEF TableInv
    <2>3. Shown(table') = Shown(table)
      BY <1>1, <1>3, <2>1, ShownIs
    <2>4. k \in KeysIn(Held(table)) /\ DOMAIN Shown(table) = KeysIn(Held(table))
      BY <1>3, <1>5, <1>6 DEF MapOf
    <2> QED
      BY <2>1, <2>2, <2>3, <2>4 DEF Dictionary!Map!Add, Dictionary!Map!Answer, Dictionary!Err,
            Shown, Dictionary!KeysOf, Dictionary!Entries
  <1>7. CASE ~Dictionary!In(t[s], k)
    <2>0. Functional(Held(table))
      BY <1>3
    <2>1. table' = Dictionary!Linked(t, e) /\ used' = used + 1 /\ found' = Dictionary!Ok
      BY <1>4, <1>7
    <2>2. k \notin KeysIn(Held(table))
      BY <1>5, <1>7
    <2>3. Hashed(table') /\ Len(table') = Len(t) /\ Held(table') = Held(table) \cup {e}
      BY <1>1, <1>2, <2>1, <2>2, LinkedIs
    <2>4. Held(table) = Minus(Held(table), k)
      BY <2>2 DEF KeysIn, Minus
    <2>5. Held(table') = Plus(Held(table), k, v)
      BY <2>3, <2>4 DEF e, Plus
    <2>6. KeysIn(Held(table')) = KeysIn(Held(table)) \cup {k}
      BY <2>5, KeysWith
    <2>7. TableInv'
      <3>1. /\ IsFiniteSet(KeysIn(Held(table)) \cup {k})
            /\ Cardinality(KeysIn(Held(table)) \cup {k}) = Cardinality(KeysIn(Held(table))) + 1
        BY <2>2, FS_AddElement DEF TableInv
      <3>2. used + 1 \in Nat
        BY DEF TableInv
      <3> QED
        BY <1>1, <2>1, <2>3, <2>6, <3>1, <3>2 DEF TableInv
    <2>8. MapOf(Plus(Held(table), k, v)) = MapPlus(MapOf(Held(table)), k, v)
      BY <2>0, MapWith
    <2>9. Shown(table') = MapOf(Held(table'))
      BY <2>3, ShownIs
    <2>10. DOMAIN Shown(table) = KeysIn(Held(table))
      BY <1>3 DEF MapOf
    <2>11. Shown(table') = MapPlus(Shown(table), k, v)
      BY <1>3, <2>5, <2>8, <2>9
    <2>12. k \notin DOMAIN Shown(table)
      BY <2>2, <2>10
    <2> QED
      BY <2>1, <2>7, <2>11, <2>12 DEF MapPlus, Dictionary!Map!Add, Dictionary!Map!With,
            Dictionary!Map!Answer, Dictionary!Ok, Shown, Dictionary!KeysOf, Dictionary!Entries
  <1> QED
    BY <1>6, <1>7

LEMMA ReplaceStep ==
  ASSUME TableInv, NEW k \in Keys, NEW v \in Vals, Dictionary!dictReplace(k, v)
  PROVE  TableInv' /\ Dictionary!Map!Replace(k, v)
  <1> DEFINE t == Dictionary!Expanded
             s == Dictionary!Slot(k, Len(t))
             e == Dictionary!Entry(k, v)
  <1>1. /\ Hashed(t) /\ Held(t) = Held(table) /\ Len(t) \in Nat \ {0} /\ used + 1 <= Len(t)
    BY ExpandedIs DEF TableInv
  <1>2. e \in EntrySet /\ e.key = k
    BY DEF EntrySet, Dictionary!Entry
  <1>3. Shown(table) = MapOf(Held(table)) /\ Functional(Held(table))
    BY ShownIs, HeldIs DEF TableInv
  <1>4. IF Dictionary!In(t[s], k)
        THEN table' = ReplacedIn(t, s, k, v) /\ used' = used /\ found' = Dictionary!Err
        ELSE table' = Dictionary!Linked(t, e) /\ used' = used + 1 /\ found' = Dictionary!Ok
    BY DEF Dictionary!dictReplace, Dictionary!Linked, Dictionary!Entry, ReplacedIn
  <1> HIDE DEF t, e
  <1>5. Dictionary!In(t[s], k) <=> k \in KeysIn(Held(table))
    BY <1>1, Lookup
  <1>6. /\ Hashed(table') /\ Len(table') = Len(t)
        /\ Held(table') = Plus(Held(table), k, v)
    <2>1. CASE Dictionary!In(t[s], k)
      <3> HIDE DEF s
      <3>1. table' = ReplacedIn(t, s, k, v)
        BY <1>4, <2>1
      <3>2. s = Dictionary!Slot(k, Len(t)) /\ Len(t) # 0
        BY <1>1 DEF s
      <3> QED
        BY <1>1, <2>1, <3>1, <3>2, ReplacedIs
    <2>2. CASE ~Dictionary!In(t[s], k)
      <3>1. table' = Dictionary!Linked(t, e)
        BY <1>4, <2>2
      <3>2. k \notin KeysIn(Held(table))
        BY <1>5, <2>2
      <3>3. Hashed(table') /\ Len(table') = Len(t) /\ Held(table') = Held(table) \cup {e}
        BY <1>1, <1>2, <3>1, <3>2, LinkedIs
      <3>4. Held(table) = Minus(Held(table), k)
        BY <3>2 DEF KeysIn, Minus
      <3> QED
        BY <3>3, <3>4 DEF e, Plus
    <2> QED
      BY <2>1, <2>2
  <1> HIDE DEF s
  <1>7. KeysIn(Held(table')) = KeysIn(Held(table)) \cup {k}
    BY <1>6, KeysWith
  <1>8. TableInv'
    <2>1. /\ IsFiniteSet(KeysIn(Held(table)) \cup {k})
          /\ Cardinality(KeysIn(Held(table)) \cup {k})
               = IF k \in KeysIn(Held(table)) THEN Cardinality(KeysIn(Held(table)))
                                              ELSE Cardinality(KeysIn(Held(table))) + 1
      BY FS_AddElement DEF TableInv
    <2>2. used' = (IF k \in KeysIn(Held(table)) THEN used ELSE used + 1) /\ used \in Nat
      BY <1>4, <1>5 DEF TableInv
    <2>3. used = Cardinality(KeysIn(Held(table)))
      BY DEF TableInv
    <2>4. used' = Cardinality(KeysIn(Held(table')))
      BY <1>7, <2>1, <2>2, <2>3
    <2>5. used' \in Nat /\ used' <= Len(table')
      BY <1>1, <1>6, <2>2
    <2>6. IsFiniteSet(KeysIn(Held(table')))
      BY <1>7, <2>1
    <2> QED
      BY <1>6, <2>4, <2>5, <2>6 DEF TableInv
  <1>9. DOMAIN Shown(table) = KeysIn(Held(table))
    BY <1>3 DEF MapOf
  <1>10. Shown(table') = MapPlus(Shown(table), k, v)
    <2>1. Functional(Held(table))
      BY <1>3
    <2>2. MapOf(Plus(Held(table), k, v)) = MapPlus(MapOf(Held(table)), k, v)
      BY <2>1, MapWith
    <2>3. Shown(table') = MapOf(Held(table'))
      BY <1>6, ShownIs
    <2> QED
      BY <1>3, <1>6, <2>2, <2>3
  <1>11. found' = Dictionary!Map!Answer(k \notin DOMAIN Shown(table))
    BY <1>4, <1>5, <1>9 DEF Dictionary!Map!Answer, Dictionary!Err, Dictionary!Ok
  <1> QED
    BY <1>8, <1>10, <1>11 DEF MapPlus, Dictionary!Map!Replace, Dictionary!Map!With, Shown,
          Dictionary!KeysOf, Dictionary!Entries

LEMMA DeleteStep ==
  ASSUME TableInv, NEW k \in Keys, Dictionary!DeleteEntry(k)
  PROVE  TableInv' /\ Dictionary!Map!Delete(k)
  <1> DEFINE s == Dictionary!Slot(k, Len(table))
  <1>1. Hashed(table) /\ Len(table) \in Nat
    BY HeldIs DEF TableInv
  <1>2. Shown(table) = MapOf(Held(table)) /\ Functional(Held(table))
    BY <1>1, ShownIs, HeldIs
  <1>3. DOMAIN Shown(table) = KeysIn(Held(table))
    BY <1>2 DEF MapOf
  <1>4. IF Len(table) # 0 /\ Dictionary!In(table[s], k)
        THEN /\ table' = UnlinkedIn(table, s, k)
             /\ used' = used - 1 /\ found' = Dictionary!Ok
        ELSE table' = table /\ used' = used /\ found' = Dictionary!Err
    BY DEF Dictionary!DeleteEntry, Dictionary!size, UnlinkedIn
  <1>5. Len(table) # 0 /\ Dictionary!In(table[s], k) <=> k \in KeysIn(Held(table))
    <2>1. CASE Len(table) = 0
      <3>1. \A e : e \notin Held(table)
        BY <2>1, HeldDef
      <3> QED
        BY <2>1, <3>1 DEF KeysIn
    <2>2. CASE Len(table) # 0
      BY <1>1, <2>2, Lookup
    <2> QED
      BY <2>1, <2>2
  <1>6. Hashed(table') /\ Len(table') = Len(table) /\ Held(table') = Minus(Held(table), k)
    <2>1. CASE Len(table) # 0 /\ Dictionary!In(table[s], k)
      <3> HIDE DEF s
      <3>1. table' = UnlinkedIn(table, s, k)
        BY <1>4, <2>1
      <3>2. s = Dictionary!Slot(k, Len(table)) /\ Len(table) # 0
        BY <2>1 DEF s
      <3> QED
        BY <1>1, <2>1, <3>1, <3>2, UnlinkedIs
    <2>2. CASE ~(Len(table) # 0 /\ Dictionary!In(table[s], k))
      <3>1. table' = table /\ k \notin KeysIn(Held(table))
        BY <1>4, <1>5, <2>2
      <3>2. Held(table) = Minus(Held(table), k)
        BY <3>1 DEF KeysIn, Minus
      <3> QED
        BY <1>1, <3>1, <3>2
    <2> QED
      BY <2>1, <2>2
  <1>7. KeysIn(Held(table')) = KeysIn(Held(table)) \ {k}
    BY <1>6, KeysWithout
  <1> HIDE DEF s
  <1>8. TableInv'
    <2>1. /\ IsFiniteSet(KeysIn(Held(table)) \ {k})
          /\ Cardinality(KeysIn(Held(table)) \ {k})
               = IF k \in KeysIn(Held(table)) THEN Cardinality(KeysIn(Held(table))) - 1
                                              ELSE Cardinality(KeysIn(Held(table)))
      BY FS_RemoveElement DEF TableInv
    <2>2. used' = (IF k \in KeysIn(Held(table)) THEN used - 1 ELSE used)
      BY <1>4, <1>5
    <2>3. used = Cardinality(KeysIn(Held(table))) /\ used \in Nat /\ used <= Len(table)
      BY DEF TableInv
    <2>4. used' = Cardinality(KeysIn(Held(table'))) /\ IsFiniteSet(KeysIn(Held(table')))
      BY <1>7, <2>1, <2>2, <2>3
    <2>5. used' \in Nat
      BY <2>4, FS_CardinalityType
    <2>6. used' <= Len(table')
      BY <1>1, <1>6, <2>2, <2>3
    <2> QED
      BY <1>6, <2>4, <2>5, <2>6 DEF TableInv
  <1>9. Shown(table') = [x \in DOMAIN Shown(table) \ {k} |-> Shown(table)[x]]
    <2>1. Functional(Held(table))
      BY <1>2
    <2>2. MapOf(Held(table')) = [x \in KeysIn(Held(table)) \ {k} |-> MapOf(Held(table))[x]]
      BY <1>6, <2>1, MapWithout
    <2>3. Shown(table') = MapOf(Held(table'))
      BY <1>6, ShownIs
    <2> QED
      BY <1>2, <1>3, <2>2, <2>3
  <1>10. found' = Dictionary!Map!Answer(k \in DOMAIN Shown(table))
    BY <1>3, <1>4, <1>5 DEF Dictionary!Map!Answer, Dictionary!Err, Dictionary!Ok
  <1> QED
    BY <1>8, <1>9, <1>10 DEF Dictionary!Map!Delete, Dictionary!Map!Without, Shown,
          Dictionary!KeysOf, Dictionary!Entries

LEMMA FindStep ==
  ASSUME TableInv, NEW k \in Keys, Dictionary!dictFind(k)
  PROVE  TableInv' /\ Dictionary!Map!Find(k)
  <1> DEFINE s == Dictionary!Slot(k, Len(table))
             a == Dictionary!At(table[s], k)
  <1>1. Hashed(table) /\ Len(table) \in Nat
    BY HeldIs DEF TableInv
  <1>2. Shown(table) = MapOf(Held(table)) /\ Functional(Held(table))
    BY <1>1, ShownIs, HeldIs
  <1>3. DOMAIN Shown(table) = KeysIn(Held(table))
    BY <1>2 DEF MapOf
  <1>4. /\ table' = table /\ used' = used
        /\ found' = IF Len(table) # 0 /\ Dictionary!In(table[s], k)
                    THEN <<table[s][a].val>> ELSE <<>>
    BY DEF Dictionary!dictFind, Dictionary!size
  <1>5. TableInv'
    BY <1>4 DEF TableInv
  <1>6. Shown(table') = Shown(table)
    BY <1>4
  <1>7. found' = IF k \in DOMAIN Shown(table) THEN <<Shown(table)[k]>> ELSE <<>>
    <2>1. CASE Len(table) = 0
      <3>1. \A e : e \notin Held(table)
        BY <2>1, HeldDef
      <3>2. k \notin KeysIn(Held(table))
        BY <3>1 DEF KeysIn
      <3> QED
        BY <1>3, <1>4, <2>1, <3>2
    <2>2. CASE Len(table) # 0
      <3>1. Dictionary!In(table[s], k) <=> k \in KeysIn(Held(table))
        BY <1>1, <2>2, Lookup
      <3>2. CASE ~Dictionary!In(table[s], k)
        BY <1>3, <1>4, <3>1, <3>2
      <3>3. CASE Dictionary!In(table[s], k)
        <4>1. table[s][a].key = k /\ table[s][a] \in Held(table)
          BY <1>1, <2>2, <3>3, Lookup
        <4> HIDE DEF a, s
        <4>2. MapOf(Held(table))[k] = table[s][a].val
          BY <1>2, <4>1, MapAt
        <4> QED
          BY <1>2, <1>3, <1>4, <2>2, <3>1, <3>3, <4>2
      <3> QED
        BY <3>2, <3>3
    <2> QED
      BY <2>1, <2>2
  <1> QED
    BY <1>5, <1>6, <1>7 DEF Dictionary!Map!Find, Shown, Dictionary!KeysOf, Dictionary!Entries

LEMMA EmptyTable ==
  /\ Hashed(<<>>) /\ Held(<<>>) = {} /\ KeysIn({}) = {} /\ Shown(<<>>) = <<>>
  /\ IsFiniteSet({}) /\ Cardinality({}) = 0 /\ Len(<<>>) = 0
  <1>1. Hashed(<<>>)
    BY DEF Hashed
  <1>2. Held(<<>>) = {}
    BY DEF Held
  <1>3. KeysIn({}) = {}
    BY DEF KeysIn
  <1>4. Shown(<<>>) = <<>>
    <2>1. MapOf({}) = <<>>
      BY <1>3 DEF MapOf
    <2> QED
      BY <1>1, <1>2, <2>1, ShownIs
  <1> QED
    BY <1>1, <1>2, <1>3, <1>4, FS_EmptySet

LEMMA ClearStep ==
  ASSUME TableInv, Dictionary!dictClear
  PROVE  TableInv' /\ Dictionary!Map!Clear
  <1>1. table' = <<>> /\ used' = 0 /\ found' = Dictionary!Ok
    BY DEF Dictionary!dictClear
  <1>2. TableInv'
    <2>1. Hashed(table') /\ KeysIn(Held(table')) = {} /\ Len(table') = 0
      BY <1>1, EmptyTable
    <2>2. IsFiniteSet(KeysIn(Held(table'))) /\ Cardinality(KeysIn(Held(table'))) = 0
      BY <2>1, EmptyTable
    <2> QED
      BY <1>1, <2>1, <2>2 DEF TableInv
  <1>3. Shown(table') = <<>>
    BY <1>1, EmptyTable
  <1> QED
    BY <1>1, <1>2, <1>3 DEF Dictionary!Map!Clear, Dictionary!Map!Answer, Dictionary!Ok, Shown,
          Dictionary!KeysOf, Dictionary!Entries

LEMMA DictTyped == TableInv => Dictionary!TypeOK
  <1> SUFFICES ASSUME TableInv PROVE Dictionary!TypeOK
    OBVIOUS
  <1> DEFINE f == Dictionary!Entries
  <1>1. Hashed(table) /\ Len(table) \in Nat
    BY HeldIs DEF TableInv
  <1>2. f = Dictionary!FlattenSeq(table)
    BY DEF Dictionary!Entries
  <1>3. {f[i].key : i \in DOMAIN f} = KeysIn(Held(table)) /\ Cardinality(KeysIn(Held(table))) = Len(f)
    <2> HIDE DEF f
    <2> QED
      BY <1>1, <1>2, KeysFlattened
  <1>4. Dictionary!KeysOf = KeysIn(Held(table))
    BY <1>3 DEF Dictionary!KeysOf
  <1>5. ASSUME NEW i \in DOMAIN table, NEW j \in 1 .. used, j \in DOMAIN table[i]
        PROVE  Dictionary!Slot(table[i][j].key, Len(table)) = i
    <2>1. Chain(table[i], i, Len(table))
      BY <1>1 DEF Hashed
    <2>2. j \in 1 .. Len(table[i])
      BY <1>5, <2>1 DEF Chain
    <2> QED
      BY <2>1, <2>2 DEF Chain
  <1>6. used = Cardinality(KeysIn(Held(table))) /\ used <= Len(table)
    BY DEF TableInv
  <1>7. used = Len(f) /\ used = Cardinality(Dictionary!KeysOf)
    BY <1>3, <1>4, <1>6
  <1> HIDE DEF f
  <1>8. used = Len(Dictionary!Entries)
    BY <1>7 DEF f
  <1>9. Dictionary!size = Len(table)
    BY DEF Dictionary!size
  <1> QED
    <2>1. \A i \in DOMAIN table, j \in 1 .. used :
            j \in DOMAIN table[i] => Dictionary!Slot(table[i][j].key, Dictionary!size) = i
      BY <1>5, <1>9
    <2>2. used <= Dictionary!size
      BY <1>6, <1>9
    <2> QED
      BY <1>7, <1>8, <2>1, <2>2 DEF Dictionary!TypeOK, Dictionary!Cardinality, Cardinality

-----------------------------------------------------------------------------
(* The iterator                                                             *)

NoKey == Dictionary!NoKey
SlotOf(t, k) == Dictionary!Slot(k, Len(t))
PlaceOf(t, k) == Dictionary!At(t[SlotOf(t, k)], k)

\* Is the entry of key k still to come: in a later slot, or in the slot of the
\* next entry and not before it?
Later(t, it, k) ==
  \/ it.index + 1 < SlotOf(t, k)
  \/ it.next # NoKey /\ SlotOf(t, k) = it.index + 1 /\ PlaceOf(t, it.next) <= PlaceOf(t, k)

Running(t, it, sn) ==
  /\ it.index \in -1 .. Len(t) - 1
  /\ it.entry = NoKey => it.next = NoKey
  /\ it.entry # NoKey => \E i \in 1 .. Len(sn) : sn[i] = it.entry
  /\ it.next # NoKey => it.next \in KeysIn(Held(t)) /\ SlotOf(t, it.next) = it.index + 1
  /\ \A k \in KeysIn(Held(t)) : (\E i \in 1 .. Len(sn) : sn[i] = k) <=> ~Later(t, it, k)

IterInv(t, it, sn) ==
  /\ it \in [index : Int, entry : Keys \cup {NoKey}, next : Keys \cup {NoKey}, on : BOOLEAN]
  /\ sn \in Seq(Keys) /\ \A i, j \in 1 .. Len(sn) : sn[i] = sn[j] => i = j
  /\ it.on => Running(t, it, sn)

LEMMA NotAKey == NoKey \notin Keys /\ NoKey = -1
  BY DictAssumption DEF NoKey, Dictionary!NoKey

LEMMA AtIs ==
  ASSUME NEW c, NEW s, NEW n, Chain(c, s, n), NEW i \in 1 .. Len(c)
  PROVE  Dictionary!At(c, c[i].key) = i
  <1>1. DOMAIN c = 1 .. Len(c) /\ \A j \in 1 .. Len(c) : c[j].key = c[i].key => j = i
    BY DEF Chain
  <1> DEFINE k == c[i].key
  <1>2. \E j \in DOMAIN c : c[j].key = k
    BY <1>1
  <1>3. Dictionary!At(c, k) \in DOMAIN c /\ c[Dictionary!At(c, k)].key = k
    <2> HIDE DEF k
    <2> QED
      BY <1>2 DEF Dictionary!At
  <1> QED
    BY <1>1, <1>3

LEMMA Places ==
  ASSUME NEW t, Hashed(t), NEW k \in KeysIn(Held(t))
  PROVE  /\ k \in Keys /\ SlotOf(t, k) \in 1 .. Len(t) /\ Len(t) \in Nat \ {0}
         /\ Chain(t[SlotOf(t, k)], SlotOf(t, k), Len(t))
         /\ PlaceOf(t, k) \in 1 .. Len(t[SlotOf(t, k)])
         /\ t[SlotOf(t, k)][PlaceOf(t, k)].key = k
  <1>1. PICK e \in Held(t) : e.key = k
    BY DEF KeysIn
  <1>2. k \in Keys
    BY <1>1, HeldIs DEF EntrySet
  <1>3. Len(t) \in Nat \ {0}
    <2>1. Len(t) \in Nat /\ \E s \in 1 .. Len(t) : TRUE
      BY HeldIs
    <2> QED
      BY <2>1
  <1>4. SlotOf(t, k) = Dictionary!Slot(k, Len(t)) /\ Len(t) # 0
    BY <1>3 DEF SlotOf
  <1>5. Dictionary!In(t[SlotOf(t, k)], k)
    BY <1>2, <1>4, Lookup
  <1> QED
    BY <1>2, <1>3, <1>4, <1>5, Lookup DEF PlaceOf

LEMMA Placed ==
  ASSUME NEW t, Hashed(t), NEW s \in 1 .. Len(t), NEW i \in 1 .. Len(t[s])
  PROVE  /\ t[s][i].key \in KeysIn(Held(t)) /\ SlotOf(t, t[s][i].key) = s
         /\ PlaceOf(t, t[s][i].key) = i
  <1>1. t[s][i] \in Held(t)
    BY HeldIs
  <1>2. Chain(t[s], s, Len(t))
    BY DEF Hashed
  <1>3. SlotOf(t, t[s][i].key) = s
    BY <1>2 DEF Chain, SlotOf
  <1>4. PlaceOf(t, t[s][i].key) = i
    BY <1>2, <1>3, AtIs DEF PlaceOf
  <1> QED
    BY <1>1, <1>3, <1>4 DEF KeysIn

\* The iterator moves on to the entry of key x, the first of those to come.
LEMMA MovesOn ==
  ASSUME NEW t, Hashed(t), NEW it, NEW sn, IterInv(t, it, sn), it.on,
         NEW x \in KeysIn(Held(t)), Later(t, it, x),
         NEW jt, jt \in [index : Int, entry : Keys \cup {NoKey}, next : Keys \cup {NoKey},
                         on : BOOLEAN],
         jt.entry = x, jt.index \in -1 .. Len(t) - 1,
         jt.next # NoKey => jt.next \in KeysIn(Held(t)) /\ SlotOf(t, jt.next) = jt.index + 1,
         \A k \in KeysIn(Held(t)) : Later(t, jt, k) <=> Later(t, it, k) /\ k # x
  PROVE  IterInv(t, jt, Append(sn, x))
  <1> DEFINE S(q, k) == \E i \in 1 .. Len(q) : q[i] = k
             a == Append(sn, x)
  <1>1. sn \in Seq(Keys) /\ Len(sn) \in Nat /\ \A i, j \in 1 .. Len(sn) : sn[i] = sn[j] => i = j
    BY DEF IterInv
  <1>2. x \in Keys
    BY Places
  <1>3. \A k \in KeysIn(Held(t)) : S(sn, k) <=> ~Later(t, it, k)
    BY DEF IterInv, Running
  <1>4. /\ a \in Seq(Keys) /\ Len(a) = Len(sn) + 1 /\ a[Len(sn) + 1] = x
        /\ \A i \in 1 .. Len(sn) : a[i] = sn[i]
    BY <1>1, <1>2
  <1> HIDE DEF a
  <1>5. \A i \in 1 .. Len(a) : i \in 1 .. Len(sn) \/ i = Len(sn) + 1
    BY <1>1, <1>4
  <1>6. \A k : S(a, k) <=> S(sn, k) \/ k = x
    <2>1. Len(sn) + 1 \in 1 .. Len(a) /\ \A i \in 1 .. Len(sn) : i \in 1 .. Len(a)
      BY <1>1, <1>4
    <2> QED
      BY <1>4, <1>5, <2>1
  <1>7. ~S(sn, x)
    BY <1>3
  <1>8. \A i, j \in 1 .. Len(a) : a[i] = a[j] => i = j
    BY <1>1, <1>4, <1>5, <1>7
  <1>9. \A k \in KeysIn(Held(t)) : S(a, k) <=> ~Later(t, jt, k)
    BY <1>3, <1>6
  <1>10. jt.entry # NoKey /\ S(a, x)
    BY <1>2, <1>6, NotAKey
  <1>11. Running(t, jt, a)
    BY <1>9, <1>10 DEF Running
  <1>12. IterInv(t, jt, a)
    BY <1>4, <1>8, <1>11 DEF IterInv
  <1> QED
    BY <1>12 DEF a

\* The key after the one at place p.
LEMMA FollowerIs ==
  ASSUME NEW t, Hashed(t), NEW s \in 1 .. Len(t), NEW p \in 1 .. Len(t[s]),
         NEW f, f = Dictionary!Follower(t[s], t[s][p].key)
  PROVE  /\ p = Len(t[s]) => f = NoKey
         /\ p # Len(t[s]) => /\ f \in KeysIn(Held(t)) /\ f \in Keys /\ SlotOf(t, f) = s
                             /\ PlaceOf(t, f) = p + 1
  <1>1. Chain(t[s], s, Len(t))
    BY DEF Hashed
  <1>2. Len(t[s]) \in Nat
    BY <1>1 DEF Chain
  <1>3. Dictionary!At(t[s], t[s][p].key) = p
    BY <1>1, AtIs
  <1>4. CASE p = Len(t[s])
    BY <1>3, <1>4 DEF Dictionary!Follower, NoKey
  <1>5. CASE p # Len(t[s])
    <2>1. p + 1 \in 1 .. Len(t[s]) /\ f = t[s][p + 1].key
      BY <1>2, <1>3, <1>5 DEF Dictionary!Follower
    <2>2. f \in KeysIn(Held(t)) /\ SlotOf(t, f) = s /\ PlaceOf(t, f) = p + 1
      BY <2>1, Placed
    <2> QED
      BY <1>5, <2>2, Places
  <1> QED
    BY <1>4, <1>5

LEMMA NextInChain ==
  ASSUME NEW t, Hashed(t), NEW it, NEW sn, IterInv(t, it, sn), it.on,
         it.entry # NoKey, it.next # NoKey,
         NEW f, f = Dictionary!Follower(t[it.index + 1], it.next),
         NEW jt, jt = [it EXCEPT !.entry = it.next, !.next = f]
  PROVE  IterInv(t, jt, Append(sn, it.next))
  <1> DEFINE x == it.next
             s == it.index + 1
             p == PlaceOf(t, x)
  <1>1. /\ it \in [index : Int, entry : Keys \cup {NoKey}, next : Keys \cup {NoKey}, on : BOOLEAN]
        /\ it.index \in -1 .. Len(t) - 1 /\ x \in KeysIn(Held(t)) /\ SlotOf(t, x) = s
    BY DEF IterInv, Running
  <1>2. /\ s \in 1 .. Len(t) /\ p \in 1 .. Len(t[s]) /\ t[s][p].key = x
        /\ Len(t[s]) \in Nat /\ Len(t) \in Nat
    <2>1. s \in 1 .. Len(t) /\ p \in 1 .. Len(t[s]) /\ t[s][p].key = x /\ Chain(t[s], s, Len(t))
          /\ Len(t) \in Nat
      BY <1>1, Places
    <2> QED
      BY <2>1 DEF Chain
  <1>3. f = Dictionary!Follower(t[s], t[s][p].key)
    BY <1>2
  <1> HIDE DEF p
  <1>4. /\ p = Len(t[s]) => f = NoKey
        /\ p # Len(t[s]) => /\ f \in KeysIn(Held(t)) /\ f \in Keys /\ SlotOf(t, f) = s
                            /\ PlaceOf(t, f) = p + 1
    BY <1>2, <1>3, FollowerIs
  <1>5. /\ jt \in [index : Int, entry : Keys \cup {NoKey}, next : Keys \cup {NoKey}, on : BOOLEAN]
        /\ jt.entry = x /\ jt.index = it.index /\ jt.next = f
    <2>1. f \in Keys \cup {NoKey} /\ x \in Keys \cup {NoKey}
      BY <1>1, <1>4
    <2>2. jt = [[it EXCEPT !.entry = x] EXCEPT !.next = f]
      BY <1>1
    <2> HIDE DEF x
    <2> QED
      BY <1>1, <2>1, <2>2
  <1>6. ASSUME NEW k \in KeysIn(Held(t))
        PROVE  /\ SlotOf(t, k) \in Int /\ PlaceOf(t, k) \in Int
               /\ SlotOf(t, k) = s => PlaceOf(t, k) <= Len(t[s])
               /\ SlotOf(t, k) = s /\ PlaceOf(t, k) = p => k = x
    BY <1>2, Places
  <1>7. p = PlaceOf(t, x)
    BY DEF p
  <1> HIDE DEF x, s
  <1>8. s = it.index + 1 /\ x = it.next
    BY DEF s, x
  <1>9. ASSUME NEW k \in KeysIn(Held(t))
        PROVE  Later(t, jt, k) <=> Later(t, it, k) /\ k # x
    <2>1. Later(t, it, k) <=> s < SlotOf(t, k) \/ (SlotOf(t, k) = s /\ p <= PlaceOf(t, k))
      BY <1>7, <1>8 DEF Later
    <2>2. Later(t, jt, k) <=> \/ s < SlotOf(t, k)
                              \/ p # Len(t[s]) /\ SlotOf(t, k) = s /\ p + 1 <= PlaceOf(t, k)
      BY <1>4, <1>5, <1>8, NotAKey DEF Later
    <2>3. s \in Int /\ p \in Int /\ Len(t[s]) \in Int /\ p <= Len(t[s])
      BY <1>2
    <2>4. SlotOf(t, k) = s /\ k # x => PlaceOf(t, k) # p
      BY <1>6
    <2>5. k = x => SlotOf(t, k) = s /\ PlaceOf(t, k) = p
      BY <1>1, <1>7, <1>8
    <2> QED
      BY <1>6, <2>1, <2>2, <2>3, <2>4, <2>5
  <1>10. Later(t, it, x)
    BY <1>1, <1>2, <1>7, <1>8 DEF Later
  <1>11. jt.next # NoKey => jt.next \in KeysIn(Held(t)) /\ SlotOf(t, jt.next) = jt.index + 1
    BY <1>4, <1>5, <1>8
  <1>12. jt.index \in -1 .. Len(t) - 1
    BY <1>1, <1>5
  <1>13. x \in KeysIn(Held(t))
    BY <1>1, <1>8
  <1>14. IterInv(t, jt, Append(sn, x))
    BY <1>5, <1>9, <1>10, <1>11, <1>12, <1>13, MovesOn
  <1> QED
    BY <1>8, <1>14

FilledFrom(t, i) == {j \in i .. Len(t) - 1 : t[j + 1] # <<>>}

LEMMA NextSlot ==
  ASSUME NEW t, Hashed(t), NEW it, NEW sn, IterInv(t, it, sn), it.on, it.next = NoKey,
         NEW i \in FilledFrom(t, it.index + 1), \A l \in FilledFrom(t, it.index + 1) : i <= l,
         NEW x, x = Head(t[i + 1]).key,
         NEW f, f = Dictionary!Follower(t[i + 1], x),
         NEW jt, jt = [it EXCEPT !.index = i, !.entry = x, !.next = f]
  PROVE  IterInv(t, jt, Append(sn, x))
  <1> DEFINE s == i + 1
  <1>1. /\ it \in [index : Int, entry : Keys \cup {NoKey}, next : Keys \cup {NoKey}, on : BOOLEAN]
        /\ it.index \in -1 .. Len(t) - 1
    BY DEF IterInv, Running
  <1>2. i \in it.index + 1 .. Len(t) - 1 /\ t[s] # <<>> /\ Len(t) \in Nat
    BY HeldIs DEF FilledFrom
  <1>3. i \in Int /\ s \in 1 .. Len(t) /\ it.index + 1 < s
    BY <1>1, <1>2
  <1>4. t[s] \in Seq(EntrySet) /\ Len(t[s]) \in Nat
    <2>1. Chain(t[s], s, Len(t))
      BY <1>3 DEF Hashed
    <2> QED
      BY <2>1 DEF Chain
  <1>5. 1 \in 1 .. Len(t[s]) /\ x = t[s][1].key
    BY <1>2, <1>4
  <1> HIDE DEF s
  <1>6. x \in KeysIn(Held(t)) /\ SlotOf(t, x) = s /\ PlaceOf(t, x) = 1 /\ x \in Keys
    <2>1. x \in KeysIn(Held(t)) /\ SlotOf(t, x) = s /\ PlaceOf(t, x) = 1
      BY <1>3, <1>5, Placed
    <2> QED
      BY <2>1, Places
  <1>7. /\ 1 = Len(t[s]) => f = NoKey
        /\ 1 # Len(t[s]) => /\ f \in KeysIn(Held(t)) /\ f \in Keys /\ SlotOf(t, f) = s
                            /\ PlaceOf(t, f) = 1 + 1
    <2>1. f = Dictionary!Follower(t[s], t[s][1].key)
      BY <1>5 DEF s
    <2>2. Hashed(t) /\ s \in 1 .. Len(t) /\ 1 \in 1 .. Len(t[s])
      BY <1>3, <1>5
    <2>3. PICK p \in 1 .. Len(t[s]) : p = 1
      BY <2>2
    <2>4. /\ p = Len(t[s]) => f = NoKey
          /\ p # Len(t[s]) => /\ f \in KeysIn(Held(t)) /\ f \in Keys /\ SlotOf(t, f) = s
                              /\ PlaceOf(t, f) = p + 1
      <3>1. f = Dictionary!Follower(t[s], t[s][p].key)
        BY <2>1, <2>3
      <3> QED
        BY ONLY <2>2, <3>1, FollowerIs
    <2> QED
      BY ONLY <2>3, <2>4
  <1>8. /\ jt \in [index : Int, entry : Keys \cup {NoKey}, next : Keys \cup {NoKey}, on : BOOLEAN]
        /\ jt.entry = x /\ jt.index = i /\ jt.next = f
    <2>1. f \in Keys \cup {NoKey} /\ x \in Keys \cup {NoKey}
      BY <1>6, <1>7
    <2>2. jt = [[[it EXCEPT !.index = i] EXCEPT !.entry = x] EXCEPT !.next = f]
      BY <1>1
    <2> QED
      BY <1>1, <1>3, <2>1, <2>2
  <1>9. ASSUME NEW k \in KeysIn(Held(t))
        PROVE  /\ SlotOf(t, k) \in Int /\ PlaceOf(t, k) \in Int /\ 1 <= PlaceOf(t, k)
               /\ SlotOf(t, k) = s => PlaceOf(t, k) <= Len(t[s])
               /\ SlotOf(t, k) = s /\ PlaceOf(t, k) = 1 => k = x
               /\ it.index + 1 < SlotOf(t, k) => s <= SlotOf(t, k)
    <2>1. /\ SlotOf(t, k) \in 1 .. Len(t) /\ PlaceOf(t, k) \in 1 .. Len(t[SlotOf(t, k)])
          /\ t[SlotOf(t, k)][PlaceOf(t, k)].key = k
          /\ Chain(t[SlotOf(t, k)], SlotOf(t, k), Len(t))
      BY Places
    <2>2. ASSUME it.index + 1 < SlotOf(t, k) PROVE s <= SlotOf(t, k)
      <3>1. t[SlotOf(t, k)] # <<>>
        BY <2>1
      <3>2. SlotOf(t, k) - 1 \in it.index + 1 .. Len(t) - 1 /\ SlotOf(t, k) - 1 + 1 = SlotOf(t, k)
        BY <1>1, <1>2, <2>1, <2>2
      <3>3. SlotOf(t, k) - 1 \in FilledFrom(t, it.index + 1)
        BY <3>1, <3>2 DEF FilledFrom
      <3>4. i <= SlotOf(t, k) - 1
        BY <3>3
      <3> QED
        BY <1>3, <2>1, <3>4 DEF s
    <2>3. PlaceOf(t, k) \in Int /\ 1 <= PlaceOf(t, k)
      BY <2>1 DEF Chain
    <2> QED
      BY <1>5, <2>1, <2>2, <2>3
  <1>10. s = i + 1
    BY DEF s
  <1>11. ASSUME NEW k \in KeysIn(Held(t))
         PROVE  Later(t, jt, k) <=> Later(t, it, k) /\ k # x
    <2>1. Later(t, it, k) <=> it.index + 1 < SlotOf(t, k)
      BY DEF Later
    <2>2. Later(t, jt, k) <=> \/ s < SlotOf(t, k)
                              \/ 1 # Len(t[s]) /\ SlotOf(t, k) = s /\ 1 + 1 <= PlaceOf(t, k)
      BY <1>7, <1>8, <1>10, NotAKey DEF Later
    <2>3. k = x => SlotOf(t, k) = s /\ PlaceOf(t, k) = 1
      BY <1>6
    <2>4. s \in Int /\ it.index \in Int
      BY <1>1, <1>3
    <2>5. CASE k = x
      BY <1>3, <2>1, <2>2, <2>3, <2>4, <2>5
    <2>6. CASE k # x
      <3> DEFINE Sl == SlotOf(t, k)
                 pk == PlaceOf(t, k)
                 n == Len(t[s])
      <3>1. /\ Sl \in Int /\ pk \in Int /\ n \in Int /\ 1 <= pk
            /\ Sl = s => pk <= n /\ pk # 1
            /\ it.index + 1 < Sl => s <= Sl
        BY <1>4, <1>9, <2>6
      <3> HIDE DEF Sl, pk, n
      <3>2. s < Sl \/ (1 # n /\ Sl = s /\ 1 + 1 <= pk) <=> it.index + 1 < Sl
        BY ONLY <1>3, <2>4, <3>1
      <3> QED
        BY <2>1, <2>2, <2>6, <3>2 DEF Sl, pk, n
    <2> QED
      BY <2>5, <2>6
  <1>12. Later(t, it, x)
    BY <1>3, <1>6 DEF Later
  <1>13. jt.next # NoKey => jt.next \in KeysIn(Held(t)) /\ SlotOf(t, jt.next) = jt.index + 1
    BY <1>7, <1>8, <1>10
  <1>14. jt.index \in -1 .. Len(t) - 1
    BY <1>2, <1>3, <1>8, <1>10
  <1>15. /\ Hashed(t) /\ IterInv(t, it, sn) /\ it.on /\ x \in KeysIn(Held(t))
         /\ jt \in [index : Int, entry : Keys \cup {NoKey}, next : Keys \cup {NoKey}, on : BOOLEAN]
         /\ jt.entry = x
    BY <1>6, <1>8
  <1> QED
    BY ONLY <1>11, <1>12, <1>13, <1>14, <1>15, MovesOn

LEMMA PlaceUnlinked ==
  ASSUME NEW t, Hashed(t), NEW e \in KeysIn(Held(t)),
         NEW u, u = UnlinkedIn(t, SlotOf(t, e), e),
         NEW k \in KeysIn(Held(t)), k # e
  PROVE  /\ Len(u) = Len(t) /\ SlotOf(u, k) = SlotOf(t, k)
         /\ PlaceOf(u, k) = IF SlotOf(t, k) = SlotOf(t, e) /\ PlaceOf(t, e) < PlaceOf(t, k)
                            THEN PlaceOf(t, k) - 1 ELSE PlaceOf(t, k)
  <1> DEFINE s == SlotOf(t, e)
             a == PlaceOf(t, e)
             r == SlotOf(t, k)
             p == PlaceOf(t, k)
             d == t[s]
             c == Dictionary!RemoveAt(d, a)
  <1>1. /\ s \in 1 .. Len(t) /\ Len(t) \in Nat \ {0} /\ Chain(d, s, Len(t))
        /\ a \in 1 .. Len(d) /\ d[a].key = e /\ e \in Keys
    BY Places
  <1>2. /\ r \in 1 .. Len(t) /\ Chain(t[r], r, Len(t))
        /\ p \in 1 .. Len(t[r]) /\ t[r][p].key = k
    BY Places
  <1>3. Dictionary!In(t[s], e)
    BY <1>1 DEF Dictionary!In, Chain
  <1>4. Hashed(u) /\ Len(u) = Len(t)
    <2>1. s = Dictionary!Slot(e, Len(t)) /\ Len(t) # 0 /\ u = UnlinkedIn(t, s, e)
      BY <1>1 DEF SlotOf
    <2> HIDE DEF s
    <2> QED
      BY <1>1, <1>3, <2>1, UnlinkedIs
  <1>5. u = [t EXCEPT ![s] = c]
    BY DEF UnlinkedIn, Dictionary!Unlinked, PlaceOf
  <1>6. d \in Seq(EntrySet) /\ Len(d) \in Nat /\ t \in Seq(Seq(EntrySet)) /\ DOMAIN t = 1 .. Len(t)
    BY <1>1 DEF Chain, Hashed
  <1> HIDE DEF s, a, r, p, d
  <1>7. /\ Len(c) = Len(d) - 1
        /\ \A i \in 1 .. Len(d) - 1 : c[i] = IF i < a THEN d[i] ELSE d[i + 1]
    BY <1>1, <1>6, RemoveAtIs
  <1> HIDE DEF c
  <1>8. SlotOf(u, k) = r
    BY <1>4 DEF SlotOf, r
  <1>9. CASE r # s
    <2>1. u[r] = t[r]
      BY <1>2, <1>5, <1>6, <1>9
    <2>2. PlaceOf(u, k) = p
      BY <1>8, <2>1 DEF PlaceOf, p, r
    <2> QED
      BY <1>4, <1>8, <1>9, <2>2 DEF r, s, p
  <1>10. CASE r = s
    <2>1. u[s] = c
      BY <1>1, <1>5, <1>6
    <2>2. p # a /\ p \in 1 .. Len(d) /\ d[p].key = k
      BY <1>1, <1>2, <1>10 DEF d
    <2> DEFINE q == IF a < p THEN p - 1 ELSE p
    <2>3. q \in 1 .. Len(c) /\ c[q].key = k
      <3>1. CASE a < p
        <4>1. p - 1 \in 1 .. Len(d) - 1 /\ ~(p - 1 < a) /\ p - 1 + 1 = p
          BY <1>1, <1>6, <2>2, <3>1
        <4> QED
          BY <1>7, <2>2, <3>1, <4>1
      <3>2. CASE ~(a < p)
        <4>1. p \in 1 .. Len(d) - 1 /\ p < a
          BY <1>1, <1>6, <2>2, <3>2
        <4> QED
          BY <1>7, <2>2, <3>2, <4>1
      <3> QED
        BY <3>1, <3>2
    <2> HIDE DEF q
    <2>4. PlaceOf(u, k) = q
      <3>1. s \in 1 .. Len(u) /\ q \in 1 .. Len(u[s]) /\ u[s][q].key = k
        BY <1>1, <1>4, <2>1, <2>3
      <3> QED
        BY <1>4, <3>1, Placed
    <2> QED
      BY <1>4, <1>8, <1>10, <2>4 DEF q, r, s, p, a
  <1> QED
    BY <1>9, <1>10

LEMMA IterKept ==
  ASSUME NEW t, Hashed(t), NEW it, NEW sn, IterInv(t, it, sn), it.on, it.entry # NoKey,
         it.entry \in KeysIn(Held(t)),
         NEW u, u = UnlinkedIn(t, SlotOf(t, it.entry), it.entry)
  PROVE  IterInv(u, it, sn)
  <1> DEFINE e == it.entry
             S(k) == \E i \in 1 .. Len(sn) : sn[i] = k
  <1>1. Running(t, it, sn)
    BY DEF IterInv
  <1>2. /\ it \in [index : Int, entry : Keys \cup {NoKey}, next : Keys \cup {NoKey}, on : BOOLEAN]
        /\ sn \in Seq(Keys) /\ \A i, j \in 1 .. Len(sn) : sn[i] = sn[j] => i = j
    BY DEF IterInv
  <1>3. S(e) /\ \A k \in KeysIn(Held(t)) : S(k) <=> ~Later(t, it, k)
    BY <1>1 DEF Running
  <1>4. it.next # NoKey => it.next \in KeysIn(Held(t)) /\ SlotOf(t, it.next) = it.index + 1
    BY <1>1 DEF Running
  <1>5. it.next # e
    <2>1. CASE it.next = NoKey
      BY <2>1
    <2>2. CASE it.next # NoKey
      <3>1. PlaceOf(t, it.next) \in Int
        <4>1. Chain(t[SlotOf(t, it.next)], SlotOf(t, it.next), Len(t))
              /\ PlaceOf(t, it.next) \in 1 .. Len(t[SlotOf(t, it.next)])
          BY <1>4, <2>2, Places
        <4> QED
          BY <4>1
      <3>2. Later(t, it, it.next)
        BY <1>4, <2>2, <3>1 DEF Later
      <3> QED
        BY <1>3, <1>4, <2>2, <3>2
    <2> QED
      BY <2>1, <2>2
  <1>6. Hashed(u) /\ KeysIn(Held(u)) = KeysIn(Held(t)) \ {e} /\ Len(u) = Len(t)
    <2> DEFINE s == SlotOf(t, e)
    <2>1. /\ s = Dictionary!Slot(e, Len(t)) /\ Len(t) # 0 /\ e \in Keys
          /\ s \in 1 .. Len(t) /\ Chain(t[s], s, Len(t))
          /\ PlaceOf(t, e) \in 1 .. Len(t[s]) /\ t[s][PlaceOf(t, e)].key = e
      <3>1. /\ Len(t) \in Nat \ {0} /\ e \in Keys
            /\ s \in 1 .. Len(t) /\ Chain(t[s], s, Len(t))
            /\ PlaceOf(t, e) \in 1 .. Len(t[s]) /\ t[s][PlaceOf(t, e)].key = e
        BY Places
      <3>2. s = Dictionary!Slot(e, Len(t))
        BY DEF SlotOf
      <3> QED
        BY <3>1, <3>2
    <2>2. Dictionary!In(t[s], e)
      BY <2>1 DEF Dictionary!In, Chain
    <2>3. u = UnlinkedIn(t, s, e)
      OBVIOUS
    <2> HIDE DEF s, e
    <2>4. Hashed(u) /\ Len(u) = Len(t) /\ Held(u) = Minus(Held(t), e)
      BY <2>1, <2>2, <2>3, UnlinkedIs
    <2> QED
      BY <2>4, KeysWithout
  <1>7. ASSUME NEW k \in KeysIn(Held(t)), k # e
        PROVE  /\ SlotOf(u, k) = SlotOf(t, k)
               /\ PlaceOf(u, k) = IF SlotOf(t, k) = SlotOf(t, e) /\ PlaceOf(t, e) < PlaceOf(t, k)
                                  THEN PlaceOf(t, k) - 1 ELSE PlaceOf(t, k)
    BY <1>7, PlaceUnlinked
  <1>8. ASSUME NEW k \in KeysIn(Held(t))
        PROVE  /\ PlaceOf(t, k) \in Int
               /\ SlotOf(t, k) = SlotOf(t, e) /\ k # e => PlaceOf(t, k) # PlaceOf(t, e)
    <2>1. /\ Chain(t[SlotOf(t, k)], SlotOf(t, k), Len(t))
          /\ PlaceOf(t, k) \in 1 .. Len(t[SlotOf(t, k)])
          /\ t[SlotOf(t, k)][PlaceOf(t, k)].key = k
      BY Places
    <2>2. t[SlotOf(t, e)][PlaceOf(t, e)].key = e
      BY Places
    <2> QED
      BY <2>1, <2>2
  <1> HIDE DEF e
  <1>9. ASSUME NEW k \in KeysIn(Held(u)) PROVE Later(u, it, k) <=> Later(t, it, k)
    <2>1. k \in KeysIn(Held(t)) /\ k # e
      BY <1>6
    <2>2. SlotOf(u, k) = SlotOf(t, k)
      BY <1>7, <2>1
    <2>3. CASE it.next = NoKey
      BY <2>2, <2>3 DEF Later
    <2>4. CASE it.next # NoKey
      <3> DEFINE x == it.next
                 Sl == SlotOf(t, e)
                 pe == PlaceOf(t, e)
                 px == PlaceOf(t, x)
                 pk == PlaceOf(t, k)
      <3>1. x \in KeysIn(Held(t)) /\ x # e /\ SlotOf(t, x) = it.index + 1
        BY <1>4, <1>5, <2>4
      <3>2. CASE SlotOf(t, k) # it.index + 1
        BY <2>2, <3>2 DEF Later
      <3>3. CASE SlotOf(t, k) = it.index + 1
        <4>1. /\ px \in Int /\ pk \in Int
              /\ it.index + 1 = Sl => px # pe /\ pk # pe
          BY <1>8, <2>1, <3>1, <3>3
        <4>2. pe \in Int
          BY <1>8 DEF e
        <4>3. /\ PlaceOf(u, x) = IF it.index + 1 = Sl /\ pe < px THEN px - 1 ELSE px
              /\ PlaceOf(u, k) = IF it.index + 1 = Sl /\ pe < pk THEN pk - 1 ELSE pk
          BY <1>7, <2>1, <3>1, <3>3
        <4> HIDE DEF Sl, pe, px, pk
        <4>4. PlaceOf(u, x) <= PlaceOf(u, k) <=> px <= pk
          <5>1. CASE it.index + 1 = Sl
            BY <4>1, <4>2, <4>3, <5>1
          <5>2. CASE it.index + 1 # Sl
            BY <4>3, <5>2
          <5> QED
            BY <5>1, <5>2
        <4> QED
          BY <2>2, <3>3, <4>4 DEF Later, px, pk
      <3> QED
        BY <3>2, <3>3
    <2> QED
      BY <2>3, <2>4
  <1>10. \A k \in KeysIn(Held(u)) : S(k) <=> ~Later(u, it, k)
    BY <1>3, <1>6, <1>9
  <1>11. it.next # NoKey => it.next \in KeysIn(Held(u)) /\ SlotOf(u, it.next) = it.index + 1
    BY <1>4, <1>5, <1>6, <1>7
  <1>12. it.index \in -1 .. Len(u) - 1 /\ (it.entry = NoKey => it.next = NoKey)
    BY <1>1, <1>6 DEF Running
  <1>13. Running(u, it, sn)
    BY <1>3, <1>10, <1>11, <1>12 DEF Running, e
  <1> QED
    BY <1>2, <1>13 DEF IterInv

-----------------------------------------------------------------------------
(* The steps                                                                *)

DictInv == TableInv /\ IterInv(table, iter, seen)

LEMMA DictStart == Dictionary!Init => DictInv /\ Dictionary!Map!Init
  <1> SUFFICES ASSUME Dictionary!Init PROVE DictInv /\ Dictionary!Map!Init
    OBVIOUS
  <1>1. table = <<>> /\ used = 0 /\ iter = Dictionary!Idle /\ seen = <<>> /\ found = Dictionary!Ok
    BY DEF Dictionary!Init
  <1>2. TableInv
    <2>1. Hashed(table) /\ KeysIn(Held(table)) = {} /\ Len(table) = 0
      BY <1>1, EmptyTable
    <2>2. IsFiniteSet(KeysIn(Held(table))) /\ Cardinality(KeysIn(Held(table))) = 0
      BY <2>1, EmptyTable
    <2> QED
      BY <1>1, <2>1, <2>2 DEF TableInv
  <1>3. IterInv(table, iter, seen)
    <2>1. iter \in [index : Int, entry : Keys \cup {NoKey}, next : Keys \cup {NoKey}, on : BOOLEAN]
          /\ iter.on = FALSE
      BY <1>1, NotAKey DEF Dictionary!Idle, NoKey
    <2>2. seen \in Seq(Keys) /\ Len(seen) = 0
      BY <1>1
    <2> QED
      BY <2>1, <2>2 DEF IterInv
  <1>4. Shown(table) = <<>>
    BY <1>1, EmptyTable
  <1> QED
    BY <1>1, <1>2, <1>3, <1>4 DEF DictInv, Dictionary!Map!Init, Dictionary!Map!Answer, Dictionary!Ok,
          Shown, Dictionary!KeysOf, Dictionary!Entries

LEMMA KeysNow == ASSUME TableInv PROVE Dictionary!KeysOf = KeysIn(Held(table))
  <1> DEFINE f == Dictionary!Entries
  <1>1. Hashed(table)
    BY DEF TableInv
  <1>2. f = Dictionary!FlattenSeq(table)
    BY DEF Dictionary!Entries
  <1>3. {f[i].key : i \in DOMAIN f} = KeysIn(Held(table))
    <2> HIDE DEF f
    <2> QED
      BY <1>1, <1>2, KeysFlattened
  <1> QED
    BY <1>3 DEF Dictionary!KeysOf

\* What a step keeps: the table a map and the iterator right about it.
Stepped == /\ DictInv' /\ (Dictionary!Map!Next \/ (table' = table /\ found' = found))
           /\ iter.on /\ ~iter'.on => KeysIn(Held(table)) \subseteq {seen[i] : i \in DOMAIN seen}

LEMMA QuietStep ==
  ASSUME DictInv, Dictionary!Quiet, TableInv', Dictionary!Map!Next
  PROVE  Stepped
  <1>1. ~iter.on /\ iter' = iter /\ seen' = seen
    BY DEF Dictionary!Quiet
  <1>2. IterInv(table', iter', seen')
    BY <1>1 DEF DictInv, IterInv
  <1> QED
    BY <1>1, <1>2 DEF Stepped, DictInv

LEMMA IteratorStep ==
  ASSUME DictInv, Dictionary!dictGetIterator
  PROVE  Stepped
  <1>1. /\ ~iter.on /\ table' = table /\ used' = used /\ found' = found
        /\ iter' = [Dictionary!Idle EXCEPT !.on = TRUE] /\ seen' = <<>>
    BY DEF Dictionary!dictGetIterator
  <1>2. TableInv'
    BY <1>1 DEF DictInv, TableInv
  <1>3. /\ iter' \in [index : Int, entry : Keys \cup {NoKey}, next : Keys \cup {NoKey}, on : BOOLEAN]
        /\ iter'.on /\ iter'.index = -1 /\ iter'.entry = NoKey /\ iter'.next = NoKey
    <2>1. iter' = [index |-> -1, entry |-> NoKey, next |-> NoKey, on |-> TRUE]
      BY <1>1 DEF Dictionary!Idle, NoKey
    <2> QED
      BY <2>1
  <1>4. Hashed(table)
    BY DEF DictInv, TableInv
  <1>5. ASSUME NEW k \in KeysIn(Held(table)) PROVE Later(table, iter', k)
    <2>1. SlotOf(table, k) \in 1 .. Len(table)
      BY <1>4, Places
    <2> QED
      BY <1>3, <2>1 DEF Later
  <1>6. seen' \in Seq(Keys) /\ Len(seen') = 0
    BY <1>1
  <1>7. Len(table) \in Nat
    BY <1>4, HeldIs
  <1>8. Running(table, iter', seen')
    BY <1>3, <1>5, <1>6, <1>7 DEF Running
  <1>9. IterInv(table', iter', seen')
    BY <1>1, <1>3, <1>6, <1>8 DEF IterInv
  <1> QED
    BY <1>1, <1>2, <1>9 DEF Stepped, DictInv

LEMMA NextStep ==
  ASSUME DictInv, Dictionary!dictNext
  PROVE  Stepped
  <1>1. iter.on /\ table' = table /\ used' = used /\ found' = found
    BY DEF Dictionary!dictNext
  <1>2. TableInv'
    BY <1>1 DEF DictInv, TableInv
  <1>3. Hashed(table) /\ IterInv(table, iter, seen) /\ Len(table) \in Nat
    BY HeldIs DEF DictInv, TableInv
  <1>4. /\ iter \in [index : Int, entry : Keys \cup {NoKey}, next : Keys \cup {NoKey}, on : BOOLEAN]
        /\ Running(table, iter, seen) /\ seen \in Seq(Keys)
    BY <1>1, <1>3 DEF IterInv
  <1>5. CASE iter.entry # NoKey /\ iter.next # NoKey
    <2>1. /\ iter' = [iter EXCEPT !.entry = iter.next,
                                  !.next = Dictionary!Follower(table[iter.index + 1], iter.next)]
          /\ seen' = Append(seen, iter.next)
      BY <1>5 DEF Dictionary!dictNext, NoKey
    <2>2. IterInv(table, iter', seen')
      BY <1>1, <1>3, <1>5, <2>1, NextInChain
    <2>3. iter'.on
      BY <1>1, <1>4, <2>1
    <2> QED
      BY <1>1, <1>2, <2>2, <2>3 DEF Stepped, DictInv
  <1>6. CASE ~(iter.entry # NoKey /\ iter.next # NoKey)
    <2> DEFINE F == FilledFrom(table, iter.index + 1)
    <2>1. iter.next = NoKey
      BY <1>4, <1>6 DEF Running
    <2>2. F = Dictionary!Filled(iter.index + 1)
      BY DEF FilledFrom, Dictionary!Filled, Dictionary!size
    <2>3. CASE F = {}
      <3>1. iter' = Dictionary!Idle /\ seen' = <<>>
        BY <1>6, <2>2, <2>3 DEF Dictionary!dictNext, NoKey
      <3>2. ASSUME NEW k \in KeysIn(Held(table)) PROVE ~Later(table, iter, k)
        <4>1. SUFFICES ASSUME iter.index + 1 < SlotOf(table, k) PROVE FALSE
          BY <2>1 DEF Later
        <4>2. /\ SlotOf(table, k) \in 1 .. Len(table)
              /\ PlaceOf(table, k) \in 1 .. Len(table[SlotOf(table, k)])
          BY <1>3, Places
        <4>3. table[SlotOf(table, k)] # <<>>
          BY <4>2
        <4>4. /\ SlotOf(table, k) - 1 \in iter.index + 1 .. Len(table) - 1
              /\ SlotOf(table, k) - 1 + 1 = SlotOf(table, k)
          BY <1>3, <1>4, <4>1, <4>2
        <4> QED
          BY <2>3, <4>3, <4>4 DEF FilledFrom
      <3>3. KeysIn(Held(table)) \subseteq {seen[i] : i \in DOMAIN seen}
        <4>1. \A k \in KeysIn(Held(table)) : \E i \in 1 .. Len(seen) : seen[i] = k
          BY <1>4, <3>2 DEF Running
        <4>2. DOMAIN seen = 1 .. Len(seen)
          BY <1>4
        <4> QED
          BY <4>1, <4>2
      <3>4. IterInv(table', iter', seen')
        <4>1. iter' \in [index : Int, entry : Keys \cup {NoKey}, next : Keys \cup {NoKey},
                         on : BOOLEAN] /\ iter'.on = FALSE
          BY <3>1, NotAKey DEF Dictionary!Idle, NoKey
        <4>2. seen' \in Seq(Keys) /\ Len(seen') = 0
          BY <3>1
        <4> QED
          BY <4>1, <4>2 DEF IterInv
      <3> QED
        BY <1>1, <1>2, <3>3, <3>4 DEF Stepped, DictInv
    <2>4. CASE F # {}
      <3> DEFINE G == Dictionary!Filled(iter.index + 1)
                 i == CHOOSE j \in G : \A l \in G : j <= l
                 x == Head(table[i + 1]).key
                 f == Dictionary!Follower(table[i + 1], x)
      <3>1. /\ iter' = [iter EXCEPT !.index = i, !.entry = x, !.next = f]
            /\ seen' = Append(seen, x)
        <4>1. G # {}
          BY <2>2, <2>4
        <4> QED
          BY <1>6, <4>1 DEF Dictionary!dictNext, NoKey
      <3>2. i \in F /\ \A l \in F : i <= l
        <4>1. F \in SUBSET Nat
          BY <1>3, <1>4 DEF FilledFrom, Running
        <4>2. \E j \in F : \A l \in F : j <= l
          <5> HIDE DEF F
          <5> QED
            BY <2>4, <4>1, LeastOf
        <4>3. F = G
          BY <2>2
        <4> HIDE DEF F, G
        <4> QED
          BY <4>2, <4>3
      <3> HIDE DEF i
      <3>3. IterInv(table, iter', seen')
        <4>1. f = Dictionary!Follower(table[i + 1], x) /\ x = Head(table[i + 1]).key
          OBVIOUS
        <4>2. i \in FilledFrom(table, iter.index + 1)
              /\ \A l \in FilledFrom(table, iter.index + 1) : i <= l
          BY <3>2
        <4> HIDE DEF x, f
        <4> QED
          BY <1>1, <1>3, <2>1, <3>1, <4>1, <4>2, NextSlot
      <3>4. iter'.on
        BY <1>1, <1>4, <3>1
      <3> QED
        BY <1>1, <1>2, <3>3, <3>4 DEF Stepped, DictInv
    <2> QED
      BY <2>3, <2>4
  <1> QED
    BY <1>5, <1>6

LEMMA DeleteCurrentStep ==
  ASSUME DictInv, Dictionary!DeleteCurrent
  PROVE  Stepped
  <1> DEFINE e == iter.entry
  <1>1. iter.on /\ e # NoKey /\ Dictionary!DeleteEntry(e) /\ iter' = iter /\ seen' = seen
    BY DEF Dictionary!DeleteCurrent, NoKey
  <1>2. Hashed(table) /\ IterInv(table, iter, seen) /\ TableInv
    BY DEF DictInv, TableInv
  <1>3. e \in Keys
    BY <1>1, <1>2 DEF IterInv
  <1>4. TableInv' /\ Dictionary!Map!Delete(e)
    BY <1>1, <1>2, <1>3, DeleteStep
  <1>5. Dictionary!Map!Next
    BY <1>3, <1>4 DEF Dictionary!Map!Next
  <1>6. IterInv(table', iter', seen')
    <2> DEFINE s == Dictionary!Slot(e, Len(table))
    <2>1. CASE Len(table) # 0 /\ Dictionary!In(table[s], e)
      <3>1. table' = UnlinkedIn(table, SlotOf(table, e), e)
        BY <1>1, <2>1 DEF Dictionary!DeleteEntry, Dictionary!size, UnlinkedIn, SlotOf
      <3>2. e \in KeysIn(Held(table))
        BY <1>2, <1>3, <2>1, Lookup
      <3> QED
        BY <1>1, <1>2, <3>1, <3>2, IterKept
    <2>2. CASE ~(Len(table) # 0 /\ Dictionary!In(table[s], e))
      <3>1. table' = table
        BY <1>1, <2>2 DEF Dictionary!DeleteEntry, Dictionary!size
      <3> QED
        BY <1>1, <1>2, <3>1
    <2> QED
      BY <2>1, <2>2
  <1> QED
    BY <1>1, <1>4, <1>5, <1>6 DEF Stepped, DictInv

LEMMA DictStepped ==
  ASSUME DictInv, Dictionary!Next
  PROVE  Stepped
  <1>0. TableInv
    BY DEF DictInv
  <1>1. ASSUME NEW k \in Keys, NEW v \in Vals, Dictionary!dictAdd(k, v) PROVE Stepped
    <2>1. TableInv' /\ Dictionary!Map!Add(k, v)
      BY <1>0, <1>1, AddStep
    <2>2. Dictionary!Map!Next /\ Dictionary!Quiet
      BY <1>1, <2>1 DEF Dictionary!Map!Next, Dictionary!dictAdd
    <2> QED
      BY <2>1, <2>2, QuietStep
  <1>2. ASSUME NEW k \in Keys, NEW v \in Vals, Dictionary!dictReplace(k, v) PROVE Stepped
    <2>1. TableInv' /\ Dictionary!Map!Replace(k, v)
      BY <1>0, <1>2, ReplaceStep
    <2>2. Dictionary!Map!Next /\ Dictionary!Quiet
      BY <1>2, <2>1 DEF Dictionary!Map!Next, Dictionary!dictReplace
    <2> QED
      BY <2>1, <2>2, QuietStep
  <1>3. ASSUME NEW k \in Keys, Dictionary!dictDelete(k) PROVE Stepped
    <2>1. Dictionary!DeleteEntry(k) /\ Dictionary!Quiet
      BY <1>3 DEF Dictionary!dictDelete
    <2>2. TableInv' /\ Dictionary!Map!Delete(k)
      BY <1>0, <2>1, DeleteStep
    <2>3. Dictionary!Map!Next
      BY <2>2 DEF Dictionary!Map!Next
    <2> QED
      BY <2>1, <2>2, <2>3, QuietStep
  <1>4. ASSUME NEW k \in Keys, Dictionary!dictFind(k) PROVE Stepped
    <2>1. TableInv' /\ Dictionary!Map!Find(k)
      BY <1>0, <1>4, FindStep
    <2>2. Dictionary!Map!Next /\ Dictionary!Quiet
      BY <1>4, <2>1 DEF Dictionary!Map!Next, Dictionary!dictFind
    <2> QED
      BY <2>1, <2>2, QuietStep
  <1>5. ASSUME Dictionary!dictClear PROVE Stepped
    <2>1. TableInv' /\ Dictionary!Map!Clear
      BY <1>0, <1>5, ClearStep
    <2>2. Dictionary!Map!Next /\ Dictionary!Quiet
      BY <1>5, <2>1 DEF Dictionary!Map!Next, Dictionary!dictClear
    <2> QED
      BY <2>1, <2>2, QuietStep
  <1> QED
    BY <1>1, <1>2, <1>3, <1>4, <1>5, IteratorStep, NextStep, DeleteCurrentStep DEF Dictionary!Next

LEMMA DictInvSpec == PartsSpec => []DictInv
  <1>1. PartsInit => DictInv
    BY DictStart DEF PartsInit
  <1>2. DictInv /\ [AsyncStep \/ SyncStep \/ ReaderStep \/ DictStep \/ StringStep]_allVars => DictInv'
    <2> SUFFICES ASSUME DictInv,
                        [AsyncStep \/ SyncStep \/ ReaderStep \/ DictStep \/ StringStep]_allVars
                 PROVE  DictInv'
      OBVIOUS
    <2>1. CASE DictStep
      BY <2>1, DictStepped DEF DictStep, Stepped
    <2>2. CASE UNCHANGED dictVars
      <3>1. table' = table /\ used' = used /\ iter' = iter /\ seen' = seen
        BY <2>2 DEF dictVars
      <3> QED
        BY <3>1 DEF DictInv, TableInv
    <2>3. DictStep \/ UNCHANGED dictVars
      BY DEF AsyncStep, SyncStep, ReaderStep, StringStep, allVars
    <2> QED
      BY <2>1, <2>2, <2>3
  <1> QED
    BY <1>1, <1>2, PTL DEF PartsSpec

\* The dictionary is a map, and its iterator returns every entry that stays once
\* (dict.c:73-337).
THEOREM DictionaryIsMap == PartsSpec => DictIsMap
  <1> DEFINE PartsStep == [AsyncStep \/ SyncStep \/ ReaderStep \/ DictStep \/ StringStep]_allVars
  <1>1. PartsSpec => []DictInv
    BY DictInvSpec
  <1>2. PartsInit => Dictionary!Map!Init
    BY DictStart DEF PartsInit
  <1>3. DictInv /\ DictInv' /\ PartsStep
          => /\ [Dictionary!Map!Next]_<<Shown(table), found>>
             /\ [iter.on /\ ~iter'.on => Dictionary!KeysOf \subseteq Dictionary!ToSet(seen)]_dictVars
    <2> SUFFICES ASSUME DictInv, DictInv', PartsStep
                 PROVE  /\ [Dictionary!Map!Next]_<<Shown(table), found>>
                        /\ [iter.on /\ ~iter'.on => Dictionary!KeysOf \subseteq Dictionary!ToSet(seen)]_dictVars
      OBVIOUS
    <2>1. CASE DictStep
      <3>1. Stepped
        BY <2>1, DictStepped DEF DictStep
      <3>2. [Dictionary!Map!Next]_<<Shown(table), found>>
        BY <3>1 DEF Stepped
      <3>3. iter.on /\ ~iter'.on => Dictionary!KeysOf \subseteq Dictionary!ToSet(seen)
        BY <3>1, KeysNow DEF Stepped, DictInv, Dictionary!ToSet
      <3> QED
        BY <3>2, <3>3
    <2>2. CASE UNCHANGED dictVars
      BY <2>2 DEF dictVars
    <2>3. DictStep \/ UNCHANGED dictVars
      BY DEF AsyncStep, SyncStep, ReaderStep, StringStep, allVars
    <2> QED
      BY <2>1, <2>2, <2>3
  <1>4. DictInv => Dictionary!IsInjective(seen)
    <2>1. DictInv => DOMAIN seen = 1 .. Len(seen)
      BY DEF DictInv, IterInv
    <2> QED
      BY <2>1 DEF DictInv, IterInv, Dictionary!IsInjective
  <1>5. Dictionary!ImplementsMap <=> Dictionary!Map!Init /\ [][Dictionary!Map!Next]_<<Shown(table), found>>
    BY DEF Dictionary!ImplementsMap, Dictionary!Map!Spec, Shown, Dictionary!KeysOf, Dictionary!Entries
  <1>6. dictVars = Dictionary!vars
    BY DEF dictVars, Dictionary!vars
  <1> QED
    BY <1>1, <1>2, <1>3, <1>4, <1>5, PTL DEF PartsSpec, DictIsMap, Dictionary!IteratesAll, dictVars, Dictionary!vars

-----------------------------------------------------------------------------
(* All parts                                                                *)

LEMMA LimitsAlways == PartsSpec => [](SyncInv /\ LimitsInv)
  <1>1. PartsInit => SyncInv /\ LimitsInv
    BY SyncStarts, LimitsStart DEF PartsInit
  <1>2. SyncInv /\ LimitsInv
          /\ [AsyncStep \/ SyncStep \/ ReaderStep \/ DictStep \/ StringStep]_allVars
        => SyncInv' /\ LimitsInv'
    <2> SUFFICES ASSUME SyncInv, LimitsInv,
                        [AsyncStep \/ SyncStep \/ ReaderStep \/ DictStep \/ StringStep]_allVars
                 PROVE  SyncInv' /\ LimitsInv'
      OBVIOUS
    <2>1. CASE SyncStep
      <3>1. SyncInv'
        BY <2>1, SyncKeeps DEF SyncStep
      <3> QED
        BY <2>1, <3>1, ConnectingKeepsLimits, PipelineKeepsLimits DEF SyncStep, Sync!Next
    <2>2. CASE UNCHANGED syncVars
      <3>1. SyncInv'
        BY <2>2, SyncUnchanged
      <3> QED
        BY <2>2, <3>1 DEF LimitsInv, syncVars
    <2>3. SyncStep \/ UNCHANGED syncVars
      BY DEF AsyncStep, ReaderStep, DictStep, StringStep, allVars
    <2> QED
      BY <2>1, <2>2, <2>3
  <1> QED
    BY <1>1, <1>2, PTL DEF PartsSpec

\* Types and bounds of every part hold for all constants, as long as the user sends
\* no other commands to an asynchronous context that is subscribed: the fields of both
\* contexts, the stack of the reader and what it holds, the tables of the dictionary
\* and its iterator, and the memory of a string (sds.h:87-215, sds.c:81-738).
THEOREM PartsStayTyped ==
  ASSUME Unruly = FALSE
  PROVE  PartsSpec => []PartsTypeOK
  <1>1. /\ AsyncInv => TypeOK
        /\ SyncInv /\ LimitsInv => Sync!TypeOK
        /\ ReaderInv => Reader!TypeOK
        /\ DictInv => Dictionary!TypeOK
        /\ StringInv => Strings!StringFits
    BY AsyncTyped, SyncTyped, ReaderTyped, DictTyped, StringsFit DEF DictInv
  <1>2. AsyncInv /\ (SyncInv /\ LimitsInv) /\ ReaderInv /\ DictInv /\ StringInv => PartsTypeOK
    BY <1>1 DEF PartsTypeOK
  <1>3. PartsSpec => []AsyncInv
    BY AsyncAlways
  <1> QED
    BY <1>2, <1>3, LimitsAlways, ReaderInvSpec, DictInvSpec, StringInvSpec, PTL

=============================================================================
