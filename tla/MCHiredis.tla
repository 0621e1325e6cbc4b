------------------------------ MODULE MCHiredis ------------------------------
(***************************************************************************)
(* The parts of hiredis for TLC: the asynchronous context, the synchronous   *)
(* one, the reader of replies, the dictionary and the strings.  part says    *)
(* which of them a behaviour is about; the others keep an initial state.     *)
(***************************************************************************)
EXTENDS AsyncContext

CONSTANTS Addrs, Retries, MaxAppended, MaxConnections,  \* RedisContext
          Replies, MaxReplies, Depth, LongLong, DiscardAt,  \* RedisReader
          Keys, Vals, Hash, InitialSize,                \* Dict
          Chars, SDS_MAX_PREALLOC, TypeRange, MaxLen    \* Sds

ASSUME HiredisAssumption == /\ Addrs \in Nat /\ Retries \in Nat \ {0}
                            /\ MaxAppended \in Nat /\ MaxConnections \in Nat

\* The fields of the largest header hold every length that is asked for.
ASSUME StringsAssumption == /\ MaxLen \in Nat /\ SDS_MAX_PREALLOC \in Nat
                            /\ TypeRange \in Seq(Nat \ {0}) /\ Len(TypeRange) >= 2
                            /\ TypeRange[1] <= TypeRange[2]
                            /\ 2 * MaxLen + 1 + SDS_MAX_PREALLOC < TypeRange[Len(TypeRange)]

Objects == [type : STRING, val : Int, nil : BOOLEAN]

\* Does o have elements?
Branches(o) == o.type = "*" /\ ~o.nil /\ o.val > 0

\* A reply is a tree: an array with n elements has the objects 0 .. n - 1 below it,
\* and there is nothing else.  The server knows two nils.
Tree(r) ==
  /\ DOMAIN r \subseteq Seq(Nat) /\ IsFiniteSet(DOMAIN r) /\ <<>> \in DOMAIN r
  /\ r \in [DOMAIN r -> Objects]
  /\ \A p \in DOMAIN r :
       /\ r[p].type = "*" => r[p].val >= 0
       /\ r[p].nil => r[p].type \in {"$", "*"} /\ r[p].val = 0
       /\ Branches(r[p]) => \A i \in 0 .. r[p].val - 1 : Append(p, i) \in DOMAIN r
       /\ \A i \in 1 .. Len(p) : LET above == SubSeq(p, 1, i - 1)
                                IN  /\ above \in DOMAIN r /\ Branches(r[above])
                                    /\ p[i] < r[above].val

ASSUME RepliesAssumption == Depth \in Nat \ {0} /\ \A r \in Replies : Tree(r)

ASSUME DictAssumption == /\ Keys \subseteq Nat /\ Hash \in [Keys -> Nat]
                         /\ InitialSize \in Nat \ {0}

VARIABLES conf, fd, cerr, cobuf, cread, cpc, addr, reuses, ret, fds, way, up, gen, appended,
          asked, answers,
          buf, pos, rstack, reply, rerr, oom, rpc, stream, sentReplies, delivered, lastOK,
          table, used, iter, seen, found,
          str, part

syncVars == <<conf, fd, cerr, cobuf, cread, cpc, addr, reuses, ret, fds, way, up, gen,
              appended, asked, answers>>
readerVars == <<buf, pos, rstack, reply, rerr, oom, rpc, stream, sentReplies, delivered, lastOK>>
dictVars == <<table, used, iter, seen, found>>
allVars == <<vars, syncVars, readerVars, dictVars, str, part>>

Sync == INSTANCE RedisContext
Reader == INSTANCE RedisReader
Dictionary == INSTANCE Dict
Strings == INSTANCE Sds

PartsInit == /\ part \in {"async", "sync", "reader", "dict", "strings"}
             /\ Init
             /\ Sync!Init /\ (part # "sync" => conf = CHOOSE k \in Sync!Configurations : TRUE)
             /\ Reader!Init /\ Dictionary!Init
             /\ Strings!Init /\ (part # "strings" => str = Strings!sdsnewlen(<<>>))

AsyncStep == part = "async" /\ Next /\ UNCHANGED <<syncVars, readerVars, dictVars, str, part>>
SyncStep == part = "sync" /\ Sync!Next /\ UNCHANGED <<vars, readerVars, dictVars, str, part>>
ReaderStep == part = "reader" /\ Reader!Next /\ UNCHANGED <<vars, syncVars, dictVars, str, part>>
DictStep == part = "dict" /\ Dictionary!Next /\ UNCHANGED <<vars, syncVars, readerVars, str, part>>
StringStep == part = "strings" /\ Strings!Next
              /\ UNCHANGED <<vars, syncVars, readerVars, dictVars, part>>

PartsFairness ==
  /\ WF_vars(part = "async" /\ HandleWrite)
  /\ WF_vars(part = "async" /\ HandleRead)
  /\ WF_vars(part = "async" /\ HandleReadFails)
  /\ WF_vars(part = "async" /\ ProcessCallbacks)
  /\ WF_vars(part = "async" /\ (CallbackReturns \/ ConnectCallbackReturns))
  /\ WF_vars(part = "async" /\ Connects)
  /\ WF_readerVars(part = "reader" /\ Reader!Feed)
  /\ WF_readerVars(part = "reader" /\ Reader!GetReply)
  /\ WF_readerVars(part = "reader" /\ Reader!Items)

PartsSpec == /\ PartsInit
             /\ [][AsyncStep \/ SyncStep \/ ReaderStep \/ DictStep \/ StringStep]_allVars
             /\ PartsFairness

-----------------------------------------------------------------------------
Object(t, v) == [type |-> t, val |-> v, nil |-> FALSE]
Nil(t) == [type |-> t, val |-> 0, nil |-> TRUE]

MCLongLong == -8 .. 7

\* A status, an empty bulk, arrays in arrays as deep as Depth allows and deeper,
\* an integer that overflows, and what is no reply.
MCReplies ==
  {(<<>> :> Object("+", 7)), (<<>> :> Nil("$")),
   (<<>> :> Object("*", 2)) @@ (<<0>> :> Object("$", 1)) @@ (<<1>> :> Object(":", 2)),
   (<<>> :> Object("*", 3)) @@ (<<0>> :> Object("*", 1)) @@ (<<0, 0>> :> Object("$", 3))
     @@ (<<1>> :> Nil("*")) @@ (<<2>> :> Object("*", 0)),
   (<<>> :> Object("*", 1)) @@ (<<0>> :> Object("*", 1)) @@ (<<0, 0>> :> Object("*", 0)),
   (<<>> :> Object(":", 8)), (<<>> :> Object("?", 0))}

\* The keys 2 and 3 collide in every table of up to two slots.
MCHash == [k \in Keys |-> IF k = 1 THEN 1 ELSE 3]

\* Fields of headers wrap at 2, 4 and 16: strings grow through all three types.
MCTypeRange == <<2, 4, 16>>

\* All parts are well-typed; the header of a string tells the length of its bytes
\* and no more room than they have (sds.h:87-215, sds.c:81-738).
PartsTypeOK == /\ TypeOK /\ Sync!TypeOK /\ Reader!TypeOK /\ Dictionary!TypeOK
               /\ Strings!StringFits

\* Every callback is called with the reply of its own command, and once the context
\* is gone none is left that was not called (async.c:226-503).
CallbacksMatch == OwnReplies /\ CleanDisconnect

\* A reply that redisGetReply returns is that of the oldest command not answered,
\* over whichever connection, and each descriptor the process has open belongs to
\* the context (hiredis.c:604-1007, net.c:60-418).
RepliesMatch == Sync!RepliesMatch /\ Sync!DescriptorsOwned

\* The reader returns the replies the server sent, whole and in order, and as soon
\* as the last byte of one is in its buffer (read.c:235-598); what sdsrange leaves
\* of that buffer is all that was not read (sds.c:712-738).
RepliesInOrder == /\ Reader!RepliesInOrder /\ Reader!NothingHeldBack
                  /\ Strings!RangesInclusive

\* Every reply that the server sends whole is returned in the end, unless an
\* allocation fails (read.c:518-598).
RepliesArrive == Reader!RepliesArrive

\* The dictionary is a map from keys to values, and an iterator meets every entry
\* that stays in it once, whatever else is deleted meanwhile (dict.c:73-337).
DictIsMap == Dictionary!ImplementsMap /\ Dictionary!IteratesAll
==============================================================================
