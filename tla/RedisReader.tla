----------------------------- MODULE RedisReader -----------------------------
(***************************************************************************)
(* The reply parser of read.c, with the objects of hiredis.c it builds.     *)
(* The stream reaches it in chunks cut anywhere; it keeps a position in its *)
(* buffer and a stack of tasks between two calls.                           *)
(*                                                                          *)
(* A token stands for what the parser consumes in one step: a type byte, a  *)
(* line, the body of a bulk string; a part of a token is as good as none.   *)
(* A reply is a function from paths to objects: the object at path          *)
(* <<i, j>> is element[j] of element[i] of the root.                        *)
(***************************************************************************)
EXTENDS Integers, SequencesExt

CONSTANTS Replies,     \* the replies the server may send
          MaxReplies,  \* bound on how many it sends
          Depth,       \* tasks in rstack: 9 in the code
          LongLong,    \* the numbers that string2ll converts
          DiscardAt    \* consumed tokens that are dropped from buf: 1024 bytes

VARIABLES buf, pos, rstack, reply, rerr,
          oom,          \* is the error that of an allocation?
          rpc           \* idle, items (in redisReaderGetReply)

reader == <<buf, pos, rstack, reply, rerr, oom, rpc>>

VARIABLES stream,       \* tokens not yet fed
          sentReplies, delivered,
          lastOK        \* did the last redisReaderGetReply return without a reply?

vars == <<reader, stream, sentReplies, delivered, lastOK>>

None == "none"     \* a task whose type is not read yet, or no object
Types == {"+", "-", ":", "$", "*"}

Token(kind, v) == [kind |-> kind, v |-> v]

\* Is the object at path p sent before the one at q: an array before its
\* elements, one element before the next?
Precedes(p, q) ==
  \E l \in 1 .. Len(q) : /\ l <= Len(p) + 1 /\ \A j \in 1 .. l - 1 : p[j] = q[j]
                         /\ l <= Len(p) => p[l] < q[l]

After(r, p) == {q \in DOMAIN r : Precedes(p, q)}

\* What the server sends for object o, the elements of an array left out ...
Tokens(o) ==
  CASE o.nil -> <<Token("type", o.type), Token("line", -1)>>
    [] o.type = "$" /\ ~o.nil -> <<Token("type", "$"), Token("line", 1), Token("body", o.val)>>
    [] OTHER -> <<Token("type", o.type), Token("line", o.val)>>

\* ... and for the last n objects of reply r.
EncodingOfLast(r) ==
  LET last[n \in 0 .. Cardinality(DOMAIN r)] ==
        IF n = 0 THEN <<>>
        ELSE Tokens(r[CHOOSE p \in DOMAIN r : Cardinality(After(r, p)) = n - 1]) \o last[n - 1]
  IN  last

Encoding(r) == EncodingOfLast(r)[Cardinality(DOMAIN r)]

Init == /\ buf = <<>> /\ pos = 0 /\ rstack = <<>> /\ reply = <<>> /\ rerr = FALSE /\ oom = FALSE
        /\ rpc = "idle" /\ stream = <<>> /\ sentReplies = <<>> /\ delivered = <<>> /\ lastOK = TRUE

-----------------------------------------------------------------------------
Send(r) == /\ Len(sentReplies) < MaxReplies
           /\ sentReplies' = Append(sentReplies, r)
           /\ stream' = stream \o Encoding(r)
           /\ UNCHANGED <<reader, delivered, lastOK>>

\* __redisReaderSetError: the reply and the buffer are dropped.
SetError(failed) == /\ rerr' = TRUE /\ oom' = failed
                    /\ buf' = <<>> /\ pos' = 0 /\ reply' = <<>> /\ rstack' = <<>>
                    /\ UNCHANGED <<rpc, stream, sentReplies, delivered>>

\* redisReaderFeed with a chunk of any length.
Feed == /\ rpc = "idle" /\ ~rerr
        /\ \/ \E k \in 1 .. Len(stream) : /\ buf' = buf \o SubSeq(stream, 1, k)
                                          /\ stream' = SubSeq(stream, k + 1, Len(stream))
              /\ UNCHANGED <<pos, rstack, reply, rerr, oom, rpc, sentReplies, delivered>>
           \/ stream # <<>> /\ SetError(TRUE)
        /\ lastOK' = FALSE

-----------------------------------------------------------------------------
Task(i) == [type |-> None, elements |-> -1, idx |-> i]
Cur == Last(rstack)
Available(n) == pos + n <= Len(buf)
Here == buf[pos + 1]

\* Slip: the indices are one level off.
PathOfParents == [i \in 1 .. Len(rstack) - 1 |-> rstack[i].idx]

\* Where the objects' create functions store an object: element[idx] of parent.
Path == [i \in 1 .. Len(rstack) - 1 |-> rstack[i + 1].idx]

Stored(o) == [p \in DOMAIN reply \cup {Path} |-> IF p = Path THEN o ELSE reply[p]]

\* moveToNextTask: the deepest task that has a sibling to come, or none.
Moved(s) ==
  LET open == {i \in 2 .. Len(s) : s[i].idx # s[i - 1].elements - 1}
  IN  IF open = {} THEN <<>>
      ELSE LET d == CHOOSE i \in open : \A j \in open : j <= i
           IN  [SubSeq(s, 1, d) EXCEPT ![d] = Task(s[d].idx + 1)]

Object(n, isNil) == [type |-> Cur.type, val |-> n, nil |-> isNil]

\* Object o of the next n tokens becomes part of the reply, if there is room for it.
Consume(n, o, s) == \/ /\ pos' = pos + n
                       /\ reply' = Stored(o)
                       /\ rstack' = s
                       /\ UNCHANGED <<buf, rerr, oom, rpc, stream, sentReplies, delivered, lastOK>>
                    \/ SetError(TRUE) /\ lastOK' = lastOK

Refuse == SetError(FALSE) /\ lastOK' = lastOK

InItems == rpc = "items" /\ rstack # <<>>

ReadType ==
  /\ InItems /\ Cur.type = None /\ Available(1)
  /\ IF Here.v \in Types
     THEN /\ pos' = pos + 1
          /\ rstack' = [rstack EXCEPT ![Len(rstack)].type = Here.v]
          /\ UNCHANGED <<buf, reply, rerr, oom, rpc, stream, sentReplies, delivered, lastOK>>
     ELSE Refuse

\* processLineItem: a bad integer is an error.
LineItem == /\ InItems /\ Cur.type \in {"+", "-", ":"} /\ Available(1)
            /\ IF Cur.type = ":" /\ Here.v \notin LongLong THEN Refuse
               ELSE Consume(1, Object(Here.v, FALSE), Moved(rstack))

\* Is the length of a bulk or of an array out of range?
BadLength(len) == len \notin LongLong \/ len < -1

\* Slip: a nil is waited for as if it had a body.
NeededBody(len) == 2

\* The tokens a bulk item takes, its header included.
Needed(len) == IF len = -1 \/ BadLength(len) THEN 1 ELSE 2

\* processBulkItem: nothing is consumed before the whole item is there.
BulkItem ==
  /\ InItems /\ Cur.type = "$" /\ Available(1) /\ Available(Needed(Here.v))
  /\ IF BadLength(Here.v) THEN Refuse
     ELSE IF Here.v = -1 THEN Consume(1, Object(0, TRUE), Moved(rstack))
     ELSE Consume(Needed(Here.v), Object(buf[pos + Needed(Here.v)].v, FALSE), Moved(rstack))

TooDeep == Len(rstack) = Depth

\* processMultiBulkItem: an array with elements becomes a task of its own.
MultiBulkItem ==
  /\ InItems /\ Cur.type = "*" /\ (~TooDeep => Available(1))
  /\ IF TooDeep \/ BadLength(Here.v) THEN Refuse
     ELSE IF Here.v = -1 THEN Consume(1, Object(0, TRUE), Moved(rstack))
     ELSE Consume(1, Object(Here.v, FALSE),
                  IF Here.v = 0 THEN Moved(rstack)
                  ELSE Append([rstack EXCEPT ![Len(rstack)].elements = Here.v], Task(0)))

\* The loop over the items is left: at the end of a reply, at one that is not
\* there yet, or with an error.
Stuck == CASE Cur.type = None -> ~Available(1)
           [] Cur.type = "$" -> ~(Available(1) /\ Available(Needed(Here.v)))
           [] Cur.type = "*" -> ~TooDeep /\ ~Available(1)
           [] OTHER -> ~Available(1)

Discarded == SubSeq(buf, pos + 1, Len(buf))

\* redisReaderGetReply begins; a caller that got no reply feeds before it asks again ...
GetReply == /\ rpc = "idle" /\ ~rerr /\ buf # <<>> /\ ~lastOK
            /\ rstack' = IF rstack = <<>> THEN <<Task(-1)>> ELSE rstack
            /\ rpc' = "items"
            /\ UNCHANGED <<buf, pos, reply, rerr, oom, stream, sentReplies, delivered, lastOK>>

\* ... and ends: consumed tokens are discarded and a whole reply is handed out.
GetReplyEnds ==
  /\ rpc = "items" /\ (rstack # <<>> => Stuck)
  /\ rpc' = "idle"
  /\ IF rerr \/ pos < DiscardAt THEN UNCHANGED <<buf, pos>>
     ELSE buf' = Discarded /\ pos' = 0
  /\ IF rerr \/ rstack # <<>>
     THEN lastOK' = ~rerr /\ UNCHANGED <<delivered, reply>>
     ELSE delivered' = Append(delivered, reply) /\ reply' = <<>> /\ lastOK' = FALSE
  /\ UNCHANGED <<rstack, rerr, oom, stream, sentReplies>>

Next == \/ \E r \in Replies : Send(r)
        \/ Feed \/ GetReply \/ GetReplyEnds \/ ReadType \/ LineItem \/ BulkItem \/ MultiBulkItem

Items == GetReplyEnds \/ ReadType \/ LineItem \/ BulkItem \/ MultiBulkItem

\* The caller asks while replies come, and feeds what arrives.
Fairness == WF_vars(Feed) /\ WF_vars(GetReply) /\ WF_vars(Items)

Spec == Init /\ [][Next]_vars /\ Fairness

-----------------------------------------------------------------------------
\* The levels at which r has an array, counted from the root.
Levels(r) == {Len(p) + 1 : p \in {q \in DOMAIN r : r[q].type = "*"}}

\* Can the parser take r?
Legal(r) == /\ \A p \in DOMAIN r : /\ r[p].type \in Types
                                   /\ r[p].type = ":" => r[p].val \in LongLong
            /\ \A l \in Levels(r) : l < Depth

TypeOK == /\ pos \in 0 .. Len(buf)
          /\ Len(rstack) <= Depth
          /\ \A i \in 2 .. Len(rstack) : /\ rstack[i - 1].type = "*"
                                         /\ rstack[i].idx \in 0 .. rstack[i - 1].elements - 1
          /\ rerr => buf = <<>> /\ rstack = <<>>

\* However the stream is cut, the replies are the ones the server sent, whole,
\* in order, every element in its place; nothing follows one that is no reply.
RepliesInOrder ==
  /\ IsPrefix(delivered, sentReplies)
  /\ \A i \in DOMAIN delivered : Legal(delivered[i])

\* A reply that has wholly arrived is not held back: when the parser asks for
\* more bytes, the replies before them have all been handed out.
NothingHeldBack ==
  lastOK /\ stream = <<>> => \/ delivered = sentReplies
                             \/ ~Legal(sentReplies[Len(delivered) + 1])

\* Every reply up to the first that is no reply is delivered, unless memory runs out.
RepliesArrive ==
  \A n \in 1 .. MaxReplies :
    (Len(sentReplies) >= n /\ \A i \in 1 .. n : Legal(sentReplies[i])) ~> Len(delivered) >= n \/ oom
=============================================================================
