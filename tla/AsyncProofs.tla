----------------------------- MODULE AsyncProofs -----------------------------
(***************************************************************************)
(* That the callbacks of the asynchronous context get the replies of their   *)
(* own commands, that its assertions hold, and that it leaves subscribed     *)
(* mode (async.c:64-716), for any number of channels and commands of a user  *)
(* who keeps to the rules of Orderly.                                        *)
(*                                                                          *)
(* Each callback knows its command by a number.  Out of subscribed mode the  *)
(* replies on their way come in the order of the callbacks that wait.  In it *)
(* they come among confirmations and messages, which the maps of channels    *)
(* take by name; so the invariant counts, for each channel, the              *)
(* confirmations that the connection still owes: they are as many as its     *)
(* entry has pending, and the last of them finds the entry there.  Nothing   *)
(* is said of a context that is gone but what its callbacks were given.      *)
(***************************************************************************)
EXTENDS AsyncContext, FiniteSetTheorems, WellFoundedInduction, TLAPS

Flight == inbuf \o wire                    \* the replies on their way to a callback
Newest == Len(cmds)
Written == Newest - Len(obuf)
Monitoring == "MONITORING" \in flags
Subscribed == "SUBSCRIBED" \in flags
Asks == {"subscribe", "unsubscribe"}
Told == {"subscribe", "unsubscribe", "message"}
Messages == [kind : {"value", "error"}, id : Nat] \cup [kind : Told, name : Names, left : Nat]
            \cup [kind : {"feed"}]
Callbacks(k) == [id : 0 .. k, pending : 0 .. k]

Says(q, i, kind, n) == q[i].kind = kind /\ q[i].name = n

\* The subscriptions to n whose confirmation is in q, and those not sent yet.
Confirms(q, n) == {i \in 1 .. Len(q) : Says(q, i, "subscribe", n)}
Unsent(w, n) == {id \in w + 1 .. Newest : Subscribes(id, n)}
Owed(q, w, n) == Cardinality(Confirms(q, n)) + IF open THEN Cardinality(Unsent(w, n)) ELSE 0

AsyncTypes ==
  /\ flags \subseteq {"CONNECTED", "DISCONNECTING", "FREEING", "SUBSCRIBED", "MONITORING"}
  /\ err \in BOOLEAN /\ pc \in {"loop", "onConnect", "process", "callback", "gone"}
  /\ cmds \in Seq([kind : Kinds, names : Seq(Names)])
  /\ got \in Seq(Seq({"own", "null", "other"})) /\ Len(got) = Newest
  /\ replies \in Seq(Callbacks(Newest)) /\ invalid = <<>> /\ cb \in Callbacks(Newest)
  /\ DOMAIN subs \subseteq Names /\ \A n \in DOMAIN subs : subs[n] \in Callbacks(Newest)
  /\ obuf \in Seq(Nat) /\ Written \in Nat /\ \A i \in 1 .. Len(obuf) : obuf[i] = Written + i
  /\ inbuf \in Seq(Messages) /\ wire \in Seq(Messages)
  /\ ssubs \subseteq Names /\ smon \in BOOLEAN /\ open \in BOOLEAN

\* What the commands accepted so far say of each other, whatever became of them.
HistoryInv ==
  /\ \A id \in 1 .. Newest :
       /\ cmds[id].kind \in Asks => /\ cmds[id].names # <<>> /\ IsInjective(cmds[id].names)
                                    /\ Len(cmds[id].names) <= MaxNames
       /\ cmds[id].kind = "monitor" => id = Newest /\ Monitoring
       /\ \A n \in Names : Unsubscribes(id, n) => n \in Wanted(id - 1)
  /\ Monitoring => Newest >= 1 /\ cmds[Newest].kind = "monitor"

Waits(id) == \E i \in 1 .. Len(replies) : replies[i].id = id

ModeInv ==
  /\ err => pc = "onConnect" /\ sock = "failed"
  /\ pc \in {"loop", "onConnect"} => inbuf = <<>>
  /\ ~(Subscribed /\ Monitoring)
  /\ ~Subscribed => DOMAIN subs = {}
  /\ smon => Monitoring

WaitingGetsInv ==
  /\ \A id \in 1 .. Newest :
       got[id] = IF cmds[id].kind = "get" /\ ~Waits(id) THEN <<"own">> ELSE <<>>
  /\ IF Monitoring
     THEN /\ \A i \in 1 .. Len(replies) : replies[i].id \in {0, Newest}
          /\ pc \notin {"loop", "onConnect"} => cb.id \in {0, Newest}
     ELSE /\ \A i \in 1 .. Len(replies) : replies[i].id >= 1 /\ IsRegular(replies[i].id)
          /\ \A i, j \in 1 .. Len(replies) : i < j => replies[i].id < replies[j].id

\* In q the replies to the first g regular commands that wait come before all
\* that is about subscriptions, and obuf has the other regular commands first.
Ordered(q, w, ss, g) ==
  /\ g <= Len(replies)
  /\ \A i \in 1 .. g : q[i] = Reply("value", replies[i].id)
  /\ \A i \in g + 1 .. Len(q) : q[i].kind \in Told
  /\ g < Len(q) => Len(replies) = g
  /\ open => /\ Len(replies) - g <= Newest - w
             /\ \A i \in g + 1 .. Len(replies) : replies[i].id = w + (i - g)
             /\ \A id \in w + (Len(replies) - g) + 1 .. Newest : cmds[id].kind \in Asks
             /\ ss # {} => Len(replies) = g

Fed(q, w, ss) ==
  /\ \A i \in 1 .. Len(q) : q[i] \in {Reply("value", Newest), Reply("error", 0), [kind |-> "feed"]}
  /\ open => ss = {} /\ w >= Newest - 1

LineInv(q, w, ss) ==
  IF Monitoring THEN Fed(q, w, ss)
  ELSE \/ q = <<Reply("error", 0)>> /\ ~open
       \/ \E g \in 0 .. Len(q) : Ordered(q, w, ss, g)

\* The entry of a name stays as long as anything about the name can arrive.
EntriesInv(q, w, ss) ==
  /\ \A n \in DOMAIN subs : /\ subs[n].id >= 1 /\ Subscribes(subs[n].id, n)
                            /\ subs[n].pending >= Owed(q, w, n)
  /\ \A i \in 1 .. Len(q) : q[i].kind \in Told => q[i].name \in DOMAIN subs
  /\ open => /\ ss = Wanted(w) /\ ss \subseteq DOMAIN subs
             /\ \A id \in w + 1 .. Newest, n \in Names : Subscribes(id, n) => n \in DOMAIN subs

\* Once unsubscribed, a name is not heard of before it is subscribed to again.
SilenceInv(q, ss) ==
  /\ \A i, j \in 1 .. Len(q), n \in Names :
       i < j /\ Says(q, i, "unsubscribe", n)
             /\ (Says(q, j, "unsubscribe", n) \/ Says(q, j, "message", n))
         => \E k \in i + 1 .. j - 1 : Says(q, k, "subscribe", n)
  /\ \A i \in 1 .. Len(q), n \in Names :
       open /\ n \in ss /\ Says(q, i, "unsubscribe", n)
         => \E k \in i + 1 .. Len(q) : Says(q, k, "subscribe", n)

\* With one name a command the counts are exact, and the last confirmation of
\* the last name ends subscribed mode.
LeaveInv(q, w, ss) ==
  MaxNames = 1 /\ open =>
    /\ Subscribed => DOMAIN subs # {}
    /\ \A n \in DOMAIN subs :
         /\ subs[n].pending = Owed(q, w, n)
         /\ \/ n \in ss \/ Unsent(w, n) # {}
            \/ \E i \in 1 .. Len(q) : Says(q, i, "unsubscribe", n)
    /\ \A i \in 1 .. Len(q), n \in Names : Says(q, i, "subscribe", n) =>
         n \in ss \/ \E j \in i + 1 .. Len(q) : Says(q, j, "unsubscribe", n)
    /\ \A i \in 1 .. Len(q) : q[i].kind = "unsubscribe" /\ q[i].left # 0 =>
         ss # {} \/ \E j \in i + 1 .. Len(q) : q[j].kind = "unsubscribe"

\* What holds of the replies on their way and of the commands not written, and
\* is kept by the server, which answers a command at a time.
LinkInv(q, w, ss) == /\ LineInv(q, w, ss) /\ EntriesInv(q, w, ss)
                     /\ SilenceInv(q, ss) /\ LeaveInv(q, w, ss)

AsyncInv ==
  /\ AsyncTypes /\ HistoryInv
  /\ IF pc = "gone" THEN OwnReplies /\ CleanDisconnect
     ELSE ModeInv /\ WaitingGetsInv /\ LinkInv(Flight, Written, ssubs)

-----------------------------------------------------------------------------
(* Sequences and counts                                                     *)

LEMMA Least ==
  ASSUME NEW T \in SUBSET Nat, T # {}
  PROVE  \E x \in T : \A y \in T : x <= y
  <1>1. PICK x \in T : \A y \in T : ~(<<y, x>> \in OpToRel(<, Nat))
    BY WFMin, NatLessThanWellFounded
  <1>2. \A y \in T : ~(y < x)
    BY <1>1 DEF OpToRel
  <1> QED
    BY <1>2

-----------------------------------------------------------------------------
LEMMA Joined ==
  ASSUME NEW q \in Seq(Messages), NEW r \in Seq(Messages)
  PROVE  /\ q \o r \in Seq(Messages) /\ Len(q \o r) = Len(q) + Len(r)
         /\ Len(q) \in Nat /\ Len(r) \in Nat
         /\ \A i \in 1 .. Len(q) : (q \o r)[i] = q[i]
         /\ \A i \in 1 .. Len(r) : (q \o r)[Len(q) + i] = r[i]
  OBVIOUS

LEMMA JoinedAt ==
  ASSUME NEW q \in Seq(Messages), NEW r \in Seq(Messages), NEW i \in 1 .. Len(q \o r)
  PROVE  \/ i \in 1 .. Len(q) /\ (q \o r)[i] = q[i]
         \/ \E j \in 1 .. Len(r) : i = Len(q) + j /\ (q \o r)[i] = r[j]
  <1>1. CASE i <= Len(q)
    BY <1>1
  <1>2. CASE i > Len(q)
    <2>1. PICK j \in 1 .. Len(r) : i = Len(q) + j
      <3>1. i - Len(q) \in 1 .. Len(r) /\ i = Len(q) + (i - Len(q))
        BY <1>2
      <3> QED
        BY <3>1
    <2>2. (q \o r)[Len(q) + j] = r[j]
      BY Joined
    <2> QED
      BY <2>1, <2>2
  <1> QED
    BY <1>1, <1>2

LEMMA JoinedMany ==
  ASSUME NEW q \in Seq(Messages), NEW r \in Seq(Messages), NEW t \in Seq(Messages)
  PROVE  (q \o r) \o t = q \o (r \o t)
  OBVIOUS

LEMMA Shifted ==
  ASSUME NEW q \in Seq(Messages), q # <<>>
  PROVE  /\ Tail(q) \in Seq(Messages) /\ Len(Tail(q)) = Len(q) - 1 /\ Len(q) \in Nat \ {0}
         /\ \A i \in 1 .. Len(q) - 1 : Tail(q)[i] = q[i + 1] /\ i + 1 \in 2 .. Len(q)
         /\ \A i \in 2 .. Len(q) : q[i] = Tail(q)[i - 1] /\ i - 1 \in 1 .. Len(q) - 1
         /\ Head(q) = q[1] /\ 1 \in 1 .. Len(q) /\ q[1] \in Messages
  OBVIOUS

LEMMA MessageKinds ==
  ASSUME NEW m \in Messages
  PROVE  /\ m.kind \in Told => /\ m \in [kind : Told, name : Names, left : Nat]
                               /\ m.name \in Names
         /\ m.kind \in {"value", "error"} => /\ m \in [kind : {"value", "error"}, id : Nat]
                                             /\ m.id \in Nat
         /\ m.kind \in {"value", "error", "feed"} \cup Told
         /\ m.kind = "feed" => m = [kind |-> "feed"]
  BY DEF Messages, Told

-----------------------------------------------------------------------------
(* Counting.                                                                *)

LEMMA ConfirmsFinite ==
  ASSUME NEW q \in Seq(Messages), NEW n
  PROVE  IsFiniteSet(Confirms(q, n)) /\ Cardinality(Confirms(q, n)) \in Nat
  <1>1. IsFiniteSet(1 .. Len(q)) /\ Confirms(q, n) \in SUBSET (1 .. Len(q))
    BY FS_Interval DEF Confirms
  <1> QED
    BY <1>1, FS_Subset, FS_CardinalityType

LEMMA UnsentFinite ==
  ASSUME AsyncTypes, NEW w \in Nat, NEW n
  PROVE  IsFiniteSet(Unsent(w, n)) /\ Cardinality(Unsent(w, n)) \in Nat
  <1>1. Newest \in Nat
    BY DEF AsyncTypes, Newest
  <1>2. IsFiniteSet(w + 1 .. Newest) /\ Unsent(w, n) \in SUBSET (w + 1 .. Newest)
    BY <1>1, FS_Interval DEF Unsent
  <1> QED
    BY <1>2, FS_Subset, FS_CardinalityType

LEMMA OwedNat ==
  ASSUME AsyncTypes, NEW q \in Seq(Messages), NEW w \in Nat, NEW n
  PROVE  Owed(q, w, n) \in Nat
  BY ConfirmsFinite, UnsentFinite DEF Owed

\* A message that confirms nothing.
LEMMA ConfirmsSame ==
  ASSUME NEW q \in Seq(Messages), NEW r \in Seq(Messages), NEW n,
         \A i \in 1 .. Len(r) : ~Says(r, i, "subscribe", n)
  PROVE  Confirms(q \o r, n) = Confirms(q, n)
  <1>1. ASSUME NEW i \in 1 .. Len(q \o r), Says(q \o r, i, "subscribe", n)
        PROVE  i \in 1 .. Len(q) /\ Says(q, i, "subscribe", n)
    BY <1>1, JoinedAt DEF Says
  <1>2. ASSUME NEW i \in 1 .. Len(q), Says(q, i, "subscribe", n)
        PROVE  i \in 1 .. Len(q \o r) /\ Says(q \o r, i, "subscribe", n)
    BY <1>2, Joined DEF Says
  <1> QED
    BY <1>1, <1>2 DEF Confirms

\* Messages of which exactly one confirms.
LEMMA ConfirmsOnce ==
  ASSUME NEW q \in Seq(Messages), NEW r \in Seq(Messages), NEW n, NEW j \in 1 .. Len(r),
         \A i \in 1 .. Len(r) : Says(r, i, "subscribe", n) <=> i = j
  PROVE  Cardinality(Confirms(q \o r, n)) = Cardinality(Confirms(q, n)) + 1
  <1>1. ASSUME NEW i \in 1 .. Len(q \o r), Says(q \o r, i, "subscribe", n)
        PROVE  i \in Confirms(q, n) \cup {Len(q) + j}
    <2>1. CASE i \in 1 .. Len(q) /\ (q \o r)[i] = q[i]
      BY <1>1, <2>1 DEF Says, Confirms
    <2>2. CASE \E k \in 1 .. Len(r) : i = Len(q) + k /\ (q \o r)[i] = r[k]
      BY <1>1, <2>2 DEF Says
    <2> QED
      BY <2>1, <2>2, JoinedAt
  <1>2. ASSUME NEW i \in Confirms(q, n) \cup {Len(q) + j}
        PROVE  i \in 1 .. Len(q \o r) /\ Says(q \o r, i, "subscribe", n)
    BY <1>2, Joined DEF Says, Confirms
  <1>3. Confirms(q \o r, n) = Confirms(q, n) \cup {Len(q) + j}
    BY <1>1, <1>2 DEF Confirms
  <1>4. Len(q) + j \notin Confirms(q, n)
    BY DEF Confirms
  <1> QED
    BY <1>3, <1>4, ConfirmsFinite, FS_AddElement

\* The first message is gone.
LEMMA ConfirmsTail ==
  ASSUME NEW q \in Seq(Messages), q # <<>>, NEW n
  PROVE  Cardinality(Confirms(Tail(q), n))
           = Cardinality(Confirms(q, n)) - IF Says(q, 1, "subscribe", n) THEN 1 ELSE 0
  <1> DEFINE T == Confirms(Tail(q), n)
             R == Confirms(q, n) \ {1}
             f == [i \in R |-> i - 1]
  <1>1. \A i \in 2 .. Len(q) : /\ Says(q, i, "subscribe", n) <=> Says(Tail(q), i - 1, "subscribe", n)
                               /\ i - 1 \in 1 .. Len(Tail(q))
    BY Shifted DEF Says
  <1>2. \A i \in R : i \in 2 .. Len(q) /\ Says(q, i, "subscribe", n)
    BY DEF Confirms
  <1>3. f \in [R -> T]
    BY <1>1, <1>2 DEF Confirms
  <1>4. \A i \in T : i + 1 \in R /\ f[i + 1] = i
    <2> TAKE i \in T
    <2>1. i \in 1 .. Len(Tail(q)) /\ Says(Tail(q), i, "subscribe", n)
      BY DEF Confirms
    <2>2. i + 1 \in 2 .. Len(q) /\ (i + 1) - 1 = i
      BY <2>1, Shifted
    <2>3. Says(q, i + 1, "subscribe", n)
      BY <1>1, <2>1, <2>2
    <2> QED
      BY <2>2, <2>3 DEF Confirms
  <1>5. \A i, k \in R : f[i] = f[k] => i = k
    BY <1>2
  <1>6. f \in Bijection(R, T)
    BY <1>3, <1>4, <1>5 DEF Bijection, Injection, Surjection, IsInjective
  <1>7. IsFiniteSet(R) /\ Cardinality(R) = Cardinality(Confirms(q, n))
                            - IF 1 \in Confirms(q, n) THEN 1 ELSE 0
    BY ConfirmsFinite, FS_RemoveElement
  <1>8. 1 \in Confirms(q, n) <=> Says(q, 1, "subscribe", n)
    BY Shifted DEF Confirms
  <1>9. Cardinality(T) = Cardinality(R)
    BY <1>6, <1>7, FS_Bijection DEF ExistsBijection
  <1> QED
    BY <1>7, <1>8, <1>9
-----------------------------------------------------------------------------
(* The commands the server has not executed: from w to w + 1 of them.        *)

LEMMA NamesOfCommand ==
  ASSUME AsyncTypes, NEW id \in 1 .. Newest
  PROVE  /\ Newest \in Nat /\ cmds[id].kind \in Kinds /\ cmds[id].names \in Seq(Names)
         /\ ToSet(cmds[id].names) \subseteq Names
         /\ \A n : Subscribes(id, n) \/ Unsubscribes(id, n) => cmds[id].kind \in Asks /\ n \in Names
         /\ \A n \in ToSet(cmds[id].names) :
              \E j \in 1 .. Len(cmds[id].names) : cmds[id].names[j] = n
  <1>1. Newest \in Nat /\ cmds[id] \in [kind : Kinds, names : Seq(Names)]
    <2> DEFINE C == [kind : Kinds, names : Seq(Names)]
    <2>1. cmds \in Seq(C) /\ id \in 1 .. Len(cmds)
      BY DEF AsyncTypes, Newest
    <2> HIDE DEF C
    <2>2. cmds[id] \in C /\ Len(cmds) \in Nat
      BY <2>1
    <2> QED
      BY <2>2 DEF C, Newest
  <1>2. \A s \in Seq(Names) : /\ ToSet(s) \subseteq Names
                              /\ \A n \in ToSet(s) : \E j \in 1 .. Len(s) : s[j] = n
    BY DEF ToSet
  <1> QED
    BY <1>1, <1>2 DEF Subscribes, Unsubscribes, Asks

LEMMA WantedNext ==
  ASSUME AsyncTypes, NEW w \in Nat, w < Newest
  PROVE  Wanted(w + 1) = IF cmds[w + 1].kind = "subscribe"
                         THEN Wanted(w) \cup ToSet(cmds[w + 1].names)
                         ELSE IF cmds[w + 1].kind = "unsubscribe"
                         THEN Wanted(w) \ ToSet(cmds[w + 1].names) ELSE Wanted(w)
  <1> DEFINE c == cmds[w + 1]
  <1>1. w + 1 \in 1 .. Newest /\ ToSet(c.names) \subseteq Names
    BY NamesOfCommand DEF AsyncTypes, Newest
  <1>2. ASSUME NEW n \in Names
        PROVE  n \in Wanted(w + 1) <=> \/ Subscribes(w + 1, n)
                                       \/ n \in Wanted(w) /\ ~Unsubscribes(w + 1, n)
    <2>1. ASSUME n \in Wanted(w + 1), ~Subscribes(w + 1, n)
          PROVE  n \in Wanted(w) /\ ~Unsubscribes(w + 1, n)
      <3>1. PICK i \in 1 .. w + 1 : /\ Subscribes(i, n)
                                    /\ \A j \in i + 1 .. w + 1 : ~Unsubscribes(j, n)
        BY <2>1 DEF Wanted
      <3>2. i \in 1 .. w
        BY <2>1, <3>1
      <3>3. \A j \in i + 1 .. w : j \in i + 1 .. w + 1
        BY <3>2
      <3>4. w + 1 \in i + 1 .. w + 1
        BY <3>2
      <3> QED
        BY <3>1, <3>2, <3>3, <3>4 DEF Wanted
    <2>2. ASSUME Subscribes(w + 1, n)
          PROVE  n \in Wanted(w + 1)
      <3>1. w + 1 \in 1 .. w + 1 /\ (w + 1) + 1 .. w + 1 = {}
        OBVIOUS
      <3> QED
        BY <2>2, <3>1 DEF Wanted
    <2>3. ASSUME n \in Wanted(w), ~Unsubscribes(w + 1, n)
          PROVE  n \in Wanted(w + 1)
      <3>1. PICK i \in 1 .. w : /\ Subscribes(i, n)
                                /\ \A j \in i + 1 .. w : ~Unsubscribes(j, n)
        BY <2>3 DEF Wanted
      <3>2. i \in 1 .. w + 1 /\ \A j \in i + 1 .. w + 1 : j \in i + 1 .. w \/ j = w + 1
        OBVIOUS
      <3> QED
        BY <2>3, <3>1, <3>2 DEF Wanted
    <2> QED
      BY <2>1, <2>2, <2>3
  <1>3. \A k : Wanted(k) \subseteq Names
    BY DEF Wanted
  <1> QED
    BY <1>1, <1>2, <1>3 DEF Subscribes, Unsubscribes

LEMMA UnsentNext ==
  ASSUME AsyncTypes, NEW w \in Nat, w < Newest, NEW n
  PROVE  /\ Unsent(w, n) = Unsent(w + 1, n) \cup IF Subscribes(w + 1, n) THEN {w + 1} ELSE {}
         /\ Cardinality(Unsent(w, n))
              = Cardinality(Unsent(w + 1, n)) + IF Subscribes(w + 1, n) THEN 1 ELSE 0
  <1>1. Newest \in Nat
    BY DEF AsyncTypes, Newest
  <1>2. w + 1 .. Newest = {w + 1} \cup (w + 1) + 1 .. Newest
    BY <1>1
  <1>3. Unsent(w, n) = Unsent(w + 1, n) \cup IF Subscribes(w + 1, n) THEN {w + 1} ELSE {}
    BY <1>2 DEF Unsent
  <1>4. w + 1 \notin Unsent(w + 1, n)
    BY <1>1 DEF Unsent
  <1>5. /\ IsFiniteSet(Unsent(w + 1, n)) /\ Cardinality(Unsent(w + 1, n)) \in Nat
    BY UnsentFinite
  <1>6. Cardinality(Unsent(w + 1, n) \cup {w + 1}) = Cardinality(Unsent(w + 1, n)) + 1
    BY <1>4, <1>5, FS_AddElement
  <1>7. CASE Subscribes(w + 1, n)
    BY <1>3, <1>6, <1>7
  <1>8. CASE ~Subscribes(w + 1, n)
    BY <1>3, <1>5, <1>8
  <1> QED
    BY <1>7, <1>8

LEMMA NotAsked ==
  ASSUME AsyncTypes, NEW q, NEW w \in Nat, w < Newest, NEW ss, cmds[w + 1].kind \notin Asks,
         EntriesInv(q, w, ss), LeaveInv(q, w, ss)
  PROVE  EntriesInv(q, w + 1, ss) /\ LeaveInv(q, w + 1, ss)
  <1>1. \A n : ~Subscribes(w + 1, n)
    BY DEF Subscribes, Asks
  <1>2. \A n : Unsent(w + 1, n) = Unsent(w, n)
    BY <1>1, UnsentNext
  <1>3. \A n : Owed(q, w + 1, n) = Owed(q, w, n)
    BY <1>2 DEF Owed
  <1>4. Wanted(w + 1) = Wanted(w)
    BY WantedNext DEF Asks
  <1>5. \A id \in (w + 1) + 1 .. Newest : id \in w + 1 .. Newest
    BY DEF AsyncTypes, Newest
  <1>6. EntriesInv(q, w + 1, ss)
    BY <1>3, <1>4, <1>5 DEF EntriesInv
  <1>7. LeaveInv(q, w + 1, ss)
    BY <1>2, <1>3 DEF LeaveInv
  <1> QED
    BY <1>6, <1>7

-----------------------------------------------------------------------------
(* Messages that confirm nothing.                                           *)

LEMMA Unconfirming ==
  ASSUME AsyncTypes, NEW q \in Seq(Messages), NEW w \in Nat, NEW ss,
         NEW m \in Messages, m.kind \in Told => m.kind = "message" /\ m.name \in ss /\ open,
         EntriesInv(q, w, ss), SilenceInv(q, ss), LeaveInv(q, w, ss)
  PROVE  /\ EntriesInv(q \o <<m>>, w, ss) /\ SilenceInv(q \o <<m>>, ss)
         /\ LeaveInv(q \o <<m>>, w, ss)
  <1> DEFINE p == q \o <<m>>
  <1>1. /\ p \in Seq(Messages) /\ Len(p) = Len(q) + 1 /\ Len(q) \in Nat
        /\ \A i \in 1 .. Len(q) : p[i] = q[i]
        /\ p[Len(q) + 1] = m
    OBVIOUS
  <1> HIDE DEF p
  <1>2. \A i \in 1 .. Len(p) : i \in 1 .. Len(q) \/ i = Len(q) + 1
    BY <1>1
  <1>3. \A i \in 1 .. Len(q) : i \in 1 .. Len(p)
    BY <1>1
  <1>4. \A i \in 1 .. Len(q) : \A k, n : Says(p, i, k, n) <=> Says(q, i, k, n)
    BY <1>1 DEF Says
  <1>5. \A n : \A k \in Asks : ~Says(p, Len(q) + 1, k, n)
    BY <1>1 DEF Says, Asks, Told
  <1>6. \A n : Confirms(p, n) = Confirms(q, n)
    BY <1>2, <1>3, <1>4, <1>5 DEF Confirms, Asks
  <1>7. \A n : Owed(p, w, n) = Owed(q, w, n)
    BY <1>6 DEF Owed
  <1>8. EntriesInv(p, w, ss)
    <2>1. ASSUME NEW i \in 1 .. Len(p), p[i].kind \in Told
          PROVE  p[i].name \in DOMAIN subs
      BY <1>1, <1>2, <2>1 DEF EntriesInv
    <2> QED
      BY <1>7, <2>1 DEF EntriesInv
  <1>9. SilenceInv(p, ss)
    <2>1. ASSUME NEW i \in 1 .. Len(p), NEW j \in 1 .. Len(p), NEW n \in Names,
                 i < j, Says(p, i, "unsubscribe", n),
                 Says(p, j, "unsubscribe", n) \/ Says(p, j, "message", n)
          PROVE  \E k \in i + 1 .. j - 1 : Says(p, k, "subscribe", n)
      <3>1. i \in 1 .. Len(q) /\ Says(q, i, "unsubscribe", n)
        BY <1>1, <1>2, <2>1, <1>4
      <3>2. CASE j \in 1 .. Len(q)
        <4>1. Says(q, j, "unsubscribe", n) \/ Says(q, j, "message", n)
          BY <1>4, <2>1, <3>2
        <4>2. PICK k \in i + 1 .. j - 1 : Says(q, k, "subscribe", n)
          BY <2>1, <3>1, <3>2, <4>1 DEF SilenceInv
        <4>3. k \in 1 .. Len(q)
          BY <3>1, <3>2
        <4> QED
          BY <1>4, <4>2, <4>3
      <3>3. CASE j = Len(q) + 1
        <4>1. Says(p, j, "message", n)
          BY <1>5, <2>1, <3>3 DEF Asks
        <4>2. open /\ n \in ss
          BY <1>1, <3>3, <4>1 DEF Says, Told
        <4>3. PICK k \in i + 1 .. Len(q) : Says(q, k, "subscribe", n)
          BY <3>1, <4>2 DEF SilenceInv
        <4>4. k \in 1 .. Len(q) /\ k \in i + 1 .. j - 1
          BY <1>1, <3>1, <3>3
        <4> QED
          BY <1>4, <4>3, <4>4
      <3> QED
        BY <1>2, <3>2, <3>3
    <2>2. ASSUME NEW i \in 1 .. Len(p), NEW n \in Names, open, n \in ss, Says(p, i, "unsubscribe", n)
          PROVE  \E k \in i + 1 .. Len(p) : Says(p, k, "subscribe", n)
      <3>1. i \in 1 .. Len(q) /\ Says(q, i, "unsubscribe", n)
        BY <1>2, <1>4, <1>5, <2>2 DEF Asks
      <3>2. PICK k \in i + 1 .. Len(q) : Says(q, k, "subscribe", n)
        BY <2>2, <3>1 DEF SilenceInv
      <3>3. k \in 1 .. Len(q) /\ k \in i + 1 .. Len(p)
        BY <1>1, <3>1
      <3> QED
        BY <1>4, <3>2, <3>3
    <2> QED
      BY <2>1, <2>2 DEF SilenceInv
  <1>10. LeaveInv(p, w, ss)
    <2> SUFFICES ASSUME MaxNames = 1, open
                 PROVE  LeaveInv(p, w, ss)
      BY DEF LeaveInv
    <2>1. ASSUME NEW n \in DOMAIN subs
          PROVE  /\ subs[n].pending = Owed(p, w, n)
                 /\ \/ n \in ss \/ Unsent(w, n) # {}
                    \/ \E i \in 1 .. Len(p) : Says(p, i, "unsubscribe", n)
      BY <1>3, <1>4, <1>7 DEF LeaveInv
    <2>2. ASSUME NEW i \in 1 .. Len(p), NEW n \in Names, Says(p, i, "subscribe", n)
          PROVE  n \in ss \/ \E j \in i + 1 .. Len(p) : Says(p, j, "unsubscribe", n)
      <3>1. i \in 1 .. Len(q) /\ Says(q, i, "subscribe", n)
        BY <1>2, <1>4, <1>5, <2>2 DEF Asks
      <3>2. \A j \in i + 1 .. Len(q) : j \in 1 .. Len(q) /\ j \in i + 1 .. Len(p)
        BY <1>1, <3>1
      <3> QED
        BY <1>4, <3>1, <3>2 DEF LeaveInv
    <2>3. ASSUME NEW i \in 1 .. Len(p), p[i].kind = "unsubscribe", p[i].left # 0
          PROVE  ss # {} \/ \E j \in i + 1 .. Len(p) : p[j].kind = "unsubscribe"
      <3>1. i \in 1 .. Len(q)
        BY <1>1, <1>2, <2>3 DEF Told
      <3>2. \A j \in i + 1 .. Len(q) : j \in 1 .. Len(q) /\ j \in i + 1 .. Len(p)
        BY <1>1, <3>1
      <3> QED
        BY <1>1, <2>3, <3>1, <3>2 DEF LeaveInv
    <2> QED
      BY <2>1, <2>2, <2>3 DEF LeaveInv
  <1> QED
    BY <1>8, <1>9, <1>10 DEF p
-----------------------------------------------------------------------------
(* One command is executed.                                                 *)

LEMMA LinkPlain ==
  ASSUME AsyncTypes, HistoryInv, WaitingGetsInv, open,
         NEW q \in Seq(Messages), NEW w \in Nat, w < Newest, NEW ss,
         LinkInv(q, w, ss), cmds[w + 1].kind \notin Asks
  PROVE  ss = {} /\ LinkInv(q \o <<Reply("value", w + 1)>>, w + 1, ss)
  <1> DEFINE m == Reply("value", w + 1)
             p == q \o <<m>>
  <1>0. Newest \in Nat /\ Len(replies) \in Nat
    BY DEF AsyncTypes, Newest
  <1>1. m \in Messages /\ m.kind = "value" /\ m.kind \notin Told
    BY DEF Messages, Reply, Told
  <1>2. /\ p \in Seq(Messages) /\ Len(p) = Len(q) + 1 /\ Len(q) \in Nat
        /\ \A i \in 1 .. Len(q) : p[i] = q[i]
        /\ p[Len(q) + 1] = m
    BY <1>1
  <1>3. EntriesInv(p, w, ss) /\ SilenceInv(p, ss) /\ LeaveInv(p, w, ss)
    BY <1>1, Unconfirming DEF LinkInv
  <1>4. EntriesInv(p, w + 1, ss) /\ LeaveInv(p, w + 1, ss)
    BY <1>3, NotAsked
  <1> HIDE DEF p, m
  <1>5. ss = {} /\ LineInv(p, w + 1, ss)
    <2>1. CASE Monitoring
      <3>1. Fed(q, w, ss)
        BY <2>1 DEF LinkInv, LineInv
      <3>2. w + 1 = Newest /\ ss = {}
        BY <1>0, <3>1 DEF Fed
      <3>3. m = Reply("value", Newest)
        BY <3>2 DEF m
      <3>4. \A i \in 1 .. Len(p) : i \in 1 .. Len(q) \/ i = Len(q) + 1
        BY <1>2
      <3>5. Fed(p, w + 1, ss)
        BY <1>2, <3>1, <3>2, <3>3, <3>4 DEF Fed
      <3> QED
        BY <2>1, <3>2, <3>5 DEF LineInv
    <2>2. CASE ~Monitoring
      <3>1. PICK g \in 0 .. Len(q) : Ordered(q, w, ss, g)
        BY <2>2 DEF LinkInv, LineInv
      <3>2. Len(replies) # g
        <4>1. SUFFICES ASSUME Len(replies) = g PROVE FALSE
          OBVIOUS
        <4>2. w + 1 \in w + (Len(replies) - g) + 1 .. Newest
          BY <1>0, <4>1
        <4> QED
          BY <3>1, <4>2 DEF Ordered
      <3>3. Len(q) = g /\ ss = {} /\ g < Len(replies)
        BY <1>0, <1>2, <3>1, <3>2 DEF Ordered
      <3>4. replies[g + 1].id = w + 1
        <4>1. g + 1 \in g + 1 .. Len(replies) /\ w + ((g + 1) - g) = w + 1
          BY <1>0, <3>3
        <4> QED
          BY <3>1, <4>1 DEF Ordered
      <3>5. \A i \in 1 .. g + 1 : p[i] = Reply("value", replies[i].id)
        <4>1. \A i \in 1 .. g + 1 : i \in 1 .. g \/ i = g + 1
          OBVIOUS
        <4>2. p[g + 1] = Reply("value", replies[g + 1].id)
          BY <1>2, <3>3, <3>4 DEF m
        <4> QED
          BY <1>2, <3>1, <3>3, <4>1, <4>2 DEF Ordered
      <3>6. /\ (g + 1) + 1 .. Len(p) = {} /\ ~(g + 1 < Len(p)) /\ g + 1 \in 0 .. Len(p)
            /\ g + 1 <= Len(replies)
        BY <1>0, <1>2, <3>3
      <3>7. /\ Len(replies) - (g + 1) <= Newest - (w + 1)
            /\ \A i \in (g + 1) + 1 .. Len(replies) : replies[i].id = (w + 1) + (i - (g + 1))
            /\ \A id \in (w + 1) + (Len(replies) - (g + 1)) + 1 .. Newest : cmds[id].kind \in Asks
        <4>1. Len(replies) - (g + 1) <= Newest - (w + 1)
          BY <1>0, <3>1 DEF Ordered
        <4>2. \A i \in (g + 1) + 1 .. Len(replies) :
                i \in g + 1 .. Len(replies) /\ w + (i - g) = (w + 1) + (i - (g + 1))
          BY <1>0
        <4>3. \A i \in (g + 1) + 1 .. Len(replies) : replies[i].id = (w + 1) + (i - (g + 1))
          BY <3>1, <4>2 DEF Ordered
        <4>4. (w + 1) + (Len(replies) - (g + 1)) + 1 = w + (Len(replies) - g) + 1
          BY <1>0
        <4> QED
          BY <3>1, <4>1, <4>3, <4>4 DEF Ordered
      <3>8. Ordered(p, w + 1, ss, g + 1)
        BY <3>3, <3>5, <3>6, <3>7 DEF Ordered
      <3> QED
        BY <2>2, <3>3, <3>6, <3>8 DEF LineInv
    <2> QED
      BY <2>1, <2>2
  <1> QED
    BY <1>3, <1>4, <1>5 DEF LinkInv, p, m

\* What a command about subscriptions makes of the server's, and how it answers.
Resulting(id, ss) == IF cmds[id].kind = "subscribe" THEN ss \cup ToSet(cmds[id].names)
                                                    ELSE ss \ ToSet(cmds[id].names)

Answering(r, id, ss) ==
  /\ Len(r) = Len(cmds[id].names)
  /\ \A j \in 1 .. Len(r) : Says(r, j, cmds[id].kind, cmds[id].names[j])
  /\ \A j \in 1 .. Len(r) : cmds[id].kind = "unsubscribe" /\ r[j].left # 0 =>
       \E n \in ss : \A i \in 1 .. j : cmds[id].names[i] # n

LEMMA OwedAsked ==
  ASSUME AsyncTypes, HistoryInv, open,
         NEW q \in Seq(Messages), NEW r \in Seq(Messages), NEW w \in Nat, w < Newest, NEW ss,
         cmds[w + 1].kind \in Asks, Answering(r, w + 1, ss), NEW n
  PROVE  Owed(q \o r, w + 1, n) = Owed(q, w, n)
  <1> DEFINE names == cmds[w + 1].names
  <1>1. w + 1 \in 1 .. Newest /\ names \in Seq(Names)
    BY NamesOfCommand DEF AsyncTypes, Newest
  <1>2. IsInjective(names)
    BY <1>1 DEF HistoryInv
  <1>3. CASE ~Subscribes(w + 1, n)
    <2>1. \A i \in 1 .. Len(r) : ~Says(r, i, "subscribe", n)
      <3> TAKE i \in 1 .. Len(r)
      <3>1. Says(r, i, cmds[w + 1].kind, names[i]) /\ names[i] \in ToSet(names)
        BY <1>1 DEF Answering, ToSet
      <3> QED
        BY <1>3, <3>1 DEF Says, Subscribes
    <2>2. Confirms(q \o r, n) = Confirms(q, n)
      BY <2>1, ConfirmsSame
    <2>3. Cardinality(Unsent(w, n)) = Cardinality(Unsent(w + 1, n))
      BY <1>3, UnsentNext, UnsentFinite
    <2> QED
      BY <2>2, <2>3 DEF Owed
  <1>4. CASE Subscribes(w + 1, n)
    <2>1. PICK j \in 1 .. Len(names) : names[j] = n
      BY <1>1, <1>4, NamesOfCommand DEF Subscribes
    <2>2. j \in 1 .. Len(r) /\ cmds[w + 1].kind = "subscribe"
      BY <1>4, <2>1 DEF Answering, Subscribes
    <2>3. \A i \in 1 .. Len(r) : Says(r, i, "subscribe", n) <=> i = j
      <3> TAKE i \in 1 .. Len(r)
      <3>1. Says(r, i, "subscribe", names[i]) /\ i \in DOMAIN names /\ j \in DOMAIN names
        BY <1>1, <2>1, <2>2 DEF Answering
      <3> QED
        BY <1>2, <2>1, <3>1 DEF Says, IsInjective
    <2>4. Cardinality(Confirms(q \o r, n)) = Cardinality(Confirms(q, n)) + 1
      BY <2>2, <2>3, ConfirmsOnce
    <2>5. Cardinality(Unsent(w, n)) = Cardinality(Unsent(w + 1, n)) + 1
      BY <1>4, UnsentNext
    <2> QED
      BY <2>4, <2>5, ConfirmsFinite, UnsentFinite DEF Owed
  <1> QED
    BY <1>3, <1>4
LEMMA LinkAsked ==
  ASSUME AsyncTypes, HistoryInv, WaitingGetsInv, open,
         NEW q \in Seq(Messages), NEW r \in Seq(Messages), NEW w \in Nat, w < Newest,
         NEW ss \in SUBSET Names, LinkInv(q, w, ss),
         cmds[w + 1].kind \in Asks, Answering(r, w + 1, ss)
  PROVE  /\ Resulting(w + 1, ss) \in SUBSET Names
         /\ LinkInv(q \o r, w + 1, Resulting(w + 1, ss))
  <1> DEFINE c == cmds[w + 1]
             p == q \o r
             now == Resulting(w + 1, ss)
             L == Len(q)
  <1>1. /\ w + 1 \in 1 .. Newest /\ c.names \in Seq(Names) /\ ToSet(c.names) \subseteq Names
        /\ Newest \in Nat /\ Len(replies) \in Nat
        /\ \A n \in ToSet(c.names) : \E j \in 1 .. Len(c.names) : c.names[j] = n
        /\ \A j \in 1 .. Len(c.names) : c.names[j] \in ToSet(c.names) /\ c.names[j] \in Names
    <2>1. w + 1 \in 1 .. Newest /\ Newest \in Nat /\ Len(replies) \in Nat
      BY DEF AsyncTypes, Newest
    <2>2. c.names \in Seq(Names)
      BY <2>1, NamesOfCommand
    <2>3. \A j \in 1 .. Len(c.names) : c.names[j] \in ToSet(c.names) /\ c.names[j] \in Names
      BY <2>2 DEF ToSet
    <2> QED
      BY <2>1, <2>2, <2>3, NamesOfCommand
  <1>2. now = (IF c.kind = "subscribe" THEN ss \cup ToSet(c.names) ELSE ss \ ToSet(c.names))
        /\ now \in SUBSET Names
    BY <1>1 DEF Resulting
  <1>3. /\ p \in Seq(Messages) /\ Len(p) = L + Len(r) /\ L \in Nat /\ Len(r) \in Nat
        /\ \A i \in 1 .. L : p[i] = q[i] /\ i \in 1 .. Len(p)
        /\ \A i \in 1 .. Len(r) : p[L + i] = r[i] /\ L + i \in 1 .. Len(p)
    BY Joined
  <1>4. Len(r) = Len(c.names) /\ \A j \in 1 .. Len(r) : Says(r, j, c.kind, c.names[j])
    BY DEF Answering
  <1>5. c.kind \in {"subscribe", "unsubscribe"} /\ c.kind \in Told
    BY DEF Asks, Told
  <1>6. \A i \in 1 .. Len(p) : i \in 1 .. L \/ \E j \in 1 .. Len(r) : i = L + j
    BY JoinedAt
  <1>7. IsInjective(c.names)
    BY <1>1 DEF HistoryInv
  <1>8. LineInv(q, w, ss) /\ EntriesInv(q, w, ss) /\ SilenceInv(q, ss) /\ LeaveInv(q, w, ss)
    BY DEF LinkInv
  <1>9. \A n : Owed(p, w + 1, n) = Owed(q, w, n)
    BY OwedAsked
  <1>10. \A i \in 1 .. L : \A k, n : Says(p, i, k, n) <=> Says(q, i, k, n)
    BY <1>3 DEF Says
  <1>11. \A j \in 1 .. Len(r) : \A k, n : Says(p, L + j, k, n) <=> k = c.kind /\ n = c.names[j]
    BY <1>3, <1>4 DEF Says
  <1>12. ss = Wanted(w) /\ now = Wanted(w + 1)
    <2>1. ss = Wanted(w)
      BY <1>8 DEF EntriesInv
    <2> QED
      BY <2>1, <1>2, <1>5, WantedNext
  <1>13. c.kind = "unsubscribe" => ToSet(c.names) \subseteq ss
    <2>1. ASSUME c.kind = "unsubscribe", NEW n \in ToSet(c.names)
          PROVE  n \in ss
      <3>1. n \in Names /\ Unsubscribes(w + 1, n)
        BY <1>1, <2>1 DEF Unsubscribes
      <3>2. n \in Wanted((w + 1) - 1)
        BY <1>1, <3>1 DEF HistoryInv
      <3> QED
        BY <1>12, <3>2
    <2> QED
      BY <2>1
  <1>14. \A n \in Names : Subscribes(w + 1, n) => n \in DOMAIN subs
    BY <1>1, <1>8 DEF EntriesInv
  <1>15. \A j \in 1 .. Len(r) : c.names[j] \in DOMAIN subs
    <2> TAKE j \in 1 .. Len(r)
    <2>1. c.names[j] \in ToSet(c.names) /\ c.names[j] \in Names
      BY <1>1, <1>4
    <2>2. CASE c.kind = "subscribe"
      BY <1>14, <2>1, <2>2 DEF Subscribes
    <2>3. CASE c.kind = "unsubscribe"
      BY <1>8, <1>13, <2>1, <2>3 DEF EntriesInv
    <2> QED
      BY <1>5, <2>2, <2>3
  <1>16. now \subseteq DOMAIN subs
    <2>1. ss \subseteq DOMAIN subs
      BY <1>8 DEF EntriesInv
    <2>2. CASE c.kind = "subscribe"
      BY <1>1, <1>2, <1>14, <2>1, <2>2 DEF Subscribes
    <2>3. CASE c.kind = "unsubscribe"
      BY <1>2, <2>1, <2>3
    <2> QED
      BY <1>5, <2>2, <2>3
  <1> HIDE DEF p, now, L
  <1>17. LineInv(p, w + 1, now)
    <2>1. ~Monitoring
      <3>1. SUFFICES ASSUME Monitoring PROVE FALSE
        OBVIOUS
      <3>2. w + 1 = Newest
        BY <1>1, <1>8, <3>1 DEF LineInv, Fed
      <3> QED
        BY <1>5, <3>1, <3>2 DEF HistoryInv
    <2>2. PICK g \in 0 .. L : Ordered(q, w, ss, g)
      BY <1>8, <2>1 DEF LineInv, L
    <2>3. g = Len(replies)
      <3>1. SUFFICES ASSUME g < Len(replies) PROVE FALSE
        BY <1>1, <2>2 DEF Ordered
      <3>2. g + 1 \in g + 1 .. Len(replies) /\ g + 1 \in 1 .. Len(replies)
            /\ w + ((g + 1) - g) = w + 1
        BY <1>1, <1>3, <3>1
      <3>3. replies[g + 1].id = w + 1
        BY <2>2, <3>2 DEF Ordered
      <3>4. IsRegular(w + 1)
        BY <2>1, <3>2, <3>3 DEF WaitingGetsInv
      <3> QED
        BY <1>5, <3>4 DEF IsRegular
    <2>4. \A i \in g + 1 .. Len(p) : p[i].kind \in Told
      <3> TAKE i \in g + 1 .. Len(p)
      <3>1. i \in 1 .. Len(p)
        BY <1>3
      <3>2. CASE i \in 1 .. L
        <4>1. i \in g + 1 .. Len(q)
          BY <1>3, <3>2 DEF L
        <4> QED
          BY <1>3, <2>2, <3>2, <4>1 DEF Ordered
      <3>3. ASSUME NEW j \in 1 .. Len(r), i = L + j PROVE p[i].kind \in Told
        BY <1>3, <1>4, <1>5, <3>3 DEF Says
      <3> QED
        BY <1>6, <3>1, <3>2, <3>3
    <2>5. \A i \in 1 .. g : p[i] = Reply("value", replies[i].id)
      BY <1>3, <2>2 DEF Ordered
    <2>6. /\ Len(replies) - g <= Newest - (w + 1)
          /\ g + 1 .. Len(replies) = {}
          /\ (w + 1) + (Len(replies) - g) + 1 = w + 2
          /\ w + (Len(replies) - g) + 1 = w + 1
          /\ g \in 0 .. Len(p)
      BY <1>1, <1>3, <2>3
    <2>7. \A id \in (w + 1) + (Len(replies) - g) + 1 .. Newest : cmds[id].kind \in Asks
      <3>1. \A id \in w + 2 .. Newest : id \in w + 1 .. Newest
        BY <1>1
      <3> QED
        BY <2>2, <2>6, <3>1 DEF Ordered
    <2>8. Ordered(p, w + 1, now, g)
      BY <2>3, <2>4, <2>5, <2>6, <2>7 DEF Ordered
    <2> QED
      BY <2>1, <2>6, <2>8 DEF LineInv
  <1>18. EntriesInv(p, w + 1, now)
    <2>1. \A i \in 1 .. Len(p) : p[i].kind \in Told => p[i].name \in DOMAIN subs
      <3> TAKE i \in 1 .. Len(p)
      <3>1. CASE i \in 1 .. L
        BY <1>3, <1>8, <3>1 DEF EntriesInv, L
      <3>2. ASSUME NEW j \in 1 .. Len(r), i = L + j PROVE p[i].name \in DOMAIN subs
        BY <1>3, <1>4, <1>15, <3>2 DEF Says
      <3> QED
        BY <1>6, <3>1, <3>2
    <2>2. \A id \in (w + 1) + 1 .. Newest : id \in w + 1 .. Newest
      BY <1>1
    <2> QED
      BY <1>8, <1>9, <1>12, <1>16, <2>1, <2>2 DEF EntriesInv
  <1>19. SilenceInv(p, now)
    <2>1. ASSUME NEW i \in 1 .. Len(p), NEW j \in 1 .. Len(p), NEW n \in Names,
                 i < j, Says(p, i, "unsubscribe", n),
                 Says(p, j, "unsubscribe", n) \/ Says(p, j, "message", n)
          PROVE  \E k \in i + 1 .. j - 1 : Says(p, k, "subscribe", n)
      <3>1. CASE j \in 1 .. L
        <4>1. i \in 1 .. L
          BY <1>3, <2>1, <3>1
        <4>2. PICK k \in i + 1 .. j - 1 : Says(q, k, "subscribe", n)
          BY <1>8, <1>10, <2>1, <3>1, <4>1 DEF SilenceInv, L
        <4>3. k \in 1 .. L
          BY <1>3, <3>1, <4>1
        <4> QED
          BY <1>10, <4>2, <4>3
      <3>2. ASSUME NEW b \in 1 .. Len(r), j = L + b
            PROVE  \E k \in i + 1 .. j - 1 : Says(p, k, "subscribe", n)
        <4>1. c.kind = "unsubscribe" /\ n = c.names[b]
          BY <1>5, <1>11, <2>1, <3>2
        <4>2. i \in 1 .. L
          <5>1. ASSUME NEW a \in 1 .. Len(r), i = L + a PROVE FALSE
            <6>1. n = c.names[a] /\ a # b
              BY <1>3, <1>11, <2>1, <3>2, <5>1
            <6>2. DOMAIN c.names = 1 .. Len(c.names) /\ Len(r) = Len(c.names)
              BY <1>1, <1>4
            <6> QED
              BY <1>7, <4>1, <6>1, <6>2 DEF IsInjective
          <5> QED
            BY <1>6, <5>1
        <4>3. n \in ss
          BY <1>1, <1>4, <1>13, <4>1
        <4>4. PICK k \in i + 1 .. L : Says(q, k, "subscribe", n)
          BY <1>8, <1>10, <2>1, <4>2, <4>3 DEF SilenceInv, L
        <4>5. k \in 1 .. L /\ k \in i + 1 .. j - 1
          BY <1>3, <3>2, <4>2
        <4> QED
          BY <1>10, <4>4, <4>5
      <3> QED
        BY <1>6, <3>1, <3>2
    <2>2. ASSUME NEW i \in 1 .. Len(p), NEW n \in Names, n \in now, Says(p, i, "unsubscribe", n)
          PROVE  \E k \in i + 1 .. Len(p) : Says(p, k, "subscribe", n)
      <3>1. i \in 1 .. L
        <4>1. ASSUME NEW a \in 1 .. Len(r), i = L + a PROVE FALSE
          <5>1. c.kind = "unsubscribe" /\ n = c.names[a]
            BY <1>11, <2>2, <4>1
          <5> QED
            BY <1>1, <1>2, <1>4, <2>2, <5>1
        <4> QED
          BY <1>6, <4>1
      <3>2. CASE n \in ss
        <4>1. PICK k \in i + 1 .. L : Says(q, k, "subscribe", n)
          BY <1>8, <1>10, <2>2, <3>1, <3>2 DEF SilenceInv, L
        <4>2. k \in 1 .. L /\ k \in i + 1 .. Len(p)
          BY <1>3, <3>1
        <4> QED
          BY <1>10, <4>1, <4>2
      <3>3. CASE n \notin ss
        <4>1. c.kind = "subscribe" /\ n \in ToSet(c.names)
          BY <1>2, <2>2, <3>3
        <4>2. PICK b \in 1 .. Len(r) : c.names[b] = n
          BY <1>1, <1>4, <4>1
        <4>3. L + b \in i + 1 .. Len(p)
          BY <1>3, <3>1
        <4> QED
          BY <1>11, <4>1, <4>2, <4>3
      <3> QED
        BY <3>2, <3>3
    <2> QED
      BY <2>1, <2>2 DEF SilenceInv
  <1>20. LeaveInv(p, w + 1, now)
    <2> SUFFICES ASSUME MaxNames = 1
                 PROVE  LeaveInv(p, w + 1, now)
      BY DEF LeaveInv
    <2>1. /\ Subscribed => DOMAIN subs # {}
          /\ \A n \in DOMAIN subs : subs[n].pending = Owed(p, w + 1, n)
      BY <1>8, <1>9 DEF LeaveInv
    <2>2. ASSUME NEW n \in Names, n \in ss
          PROVE  n \in now \/ \E b \in 1 .. Len(r) : Says(p, L + b, "unsubscribe", n)
      <3>1. CASE n \notin now
        <4>1. c.kind = "unsubscribe" /\ n \in ToSet(c.names)
          BY <1>2, <1>5, <2>2, <3>1
        <4> QED
          BY <1>1, <1>4, <1>11, <4>1
      <3> QED
        BY <3>1
    <2>3. ASSUME NEW n \in DOMAIN subs
          PROVE  \/ n \in now \/ Unsent(w + 1, n) # {}
                 \/ \E i \in 1 .. Len(p) : Says(p, i, "unsubscribe", n)
      <3>0. n \in Names
        BY DEF AsyncTypes
      <3>1. CASE n \in ss
        BY <1>3, <2>2, <3>0, <3>1
      <3>2. CASE Unsent(w, n) # {}
        <4>1. CASE Subscribes(w + 1, n)
          BY <1>2, <4>1 DEF Subscribes
        <4>2. CASE ~Subscribes(w + 1, n)
          BY <3>2, <4>2, UnsentNext
        <4> QED
          BY <4>1, <4>2
      <3>3. CASE \E i \in 1 .. L : Says(q, i, "unsubscribe", n)
        BY <1>3, <1>10, <3>3
      <3> QED
        BY <1>8, <3>1, <3>2, <3>3 DEF LeaveInv, L
    <2>4. ASSUME NEW i \in 1 .. Len(p), NEW n \in Names, Says(p, i, "subscribe", n)
          PROVE  n \in now \/ \E j \in i + 1 .. Len(p) : Says(p, j, "unsubscribe", n)
      <3>1. CASE i \in 1 .. L
        <4>1. n \in ss \/ \E j \in i + 1 .. L : Says(q, j, "unsubscribe", n)
          BY <1>8, <1>10, <2>4, <3>1 DEF LeaveInv, L
        <4>2. \A j \in i + 1 .. L : j \in 1 .. L /\ j \in i + 1 .. Len(p)
          BY <1>3, <3>1
        <4>3. \A b \in 1 .. Len(r) : L + b \in i + 1 .. Len(p)
          BY <1>3, <3>1
        <4> QED
          BY <1>10, <2>2, <4>1, <4>2, <4>3
      <3>2. ASSUME NEW a \in 1 .. Len(r), i = L + a PROVE n \in now
        <4>1. c.kind = "subscribe" /\ n = c.names[a]
          BY <1>11, <2>4, <3>2
        <4>2. n \in ToSet(c.names)
          BY <1>1, <1>4, <4>1
        <4> QED
          BY <1>2, <4>1, <4>2
      <3> QED
        BY <1>6, <3>1, <3>2
    <2>5. ASSUME NEW i \in 1 .. Len(p), p[i].kind = "unsubscribe", p[i].left # 0
          PROVE  now # {} \/ \E j \in i + 1 .. Len(p) : p[j].kind = "unsubscribe"
      <3>0. \A b \in 1 .. Len(r) : p[L + b].kind = c.kind
        BY <1>3, <1>4 DEF Says
      <3>1. CASE i \in 1 .. L
        <4>1. ss # {} \/ \E j \in i + 1 .. L : q[j].kind = "unsubscribe"
          BY <1>3, <1>8, <2>5, <3>1 DEF LeaveInv, L
        <4>2. \A j \in i + 1 .. L : j \in 1 .. L /\ j \in i + 1 .. Len(p)
          BY <1>3, <3>1
        <4>3. \A b \in 1 .. Len(r) : L + b \in i + 1 .. Len(p)
          BY <1>3, <3>1
        <4>4. CASE \E j \in i + 1 .. L : q[j].kind = "unsubscribe"
          BY <1>3, <4>2, <4>4
        <4>5. CASE ss # {} /\ now = {}
          <5>1. PICK n \in ss : n \in Names
            BY <4>5
          <5>2. PICK b \in 1 .. Len(r) : Says(p, L + b, "unsubscribe", n)
            BY <2>2, <4>5, <5>1
          <5> QED
            BY <4>3, <5>2 DEF Says
        <4> QED
          BY <4>1, <4>4, <4>5
      <3>2. ASSUME NEW a \in 1 .. Len(r), i = L + a, now = {}
            PROVE  \E j \in i + 1 .. Len(p) : p[j].kind = "unsubscribe"
        <4>1. r[a].left # 0 /\ c.kind = "unsubscribe"
          BY <1>3, <2>5, <3>0, <3>2
        <4>2. PICK n \in ss : \A k \in 1 .. a : c.names[k] # n
          BY <4>1 DEF Answering
        <4>3. n \in Names /\ n \notin now
          BY <3>2
        <4>4. n \in ToSet(c.names)
          BY <1>2, <4>1, <4>3, <4>2
        <4>5. PICK b \in 1 .. Len(r) : c.names[b] = n
          BY <1>1, <1>4, <4>4
        <4>6. a < b
          BY <4>2, <4>5
        <4>7. L + b \in i + 1 .. Len(p)
          BY <1>3, <3>2, <4>6
        <4> QED
          BY <3>0, <4>1, <4>7
      <3> QED
        BY <1>6, <3>1, <3>2
    <2> QED
      BY <2>1, <2>3, <2>4, <2>5 DEF LeaveInv
  <1> QED
    BY <1>2, <1>17, <1>18, <1>19, <1>20 DEF LinkInv, p, now
-----------------------------------------------------------------------------
(* The commands of one write are executed.                                  *)

LEMMA ExecutedIs ==
  ASSUME Len(obuf) \in Nat
  PROVE  /\ Executed[0] = [subs |-> ssubs, mon |-> smon, out |-> <<>>]
         /\ \A k \in 1 .. Len(obuf) : Executed[k] = Execute(Executed[k - 1], obuf[k])
  <1> DEFINE first == [subs |-> ssubs, mon |-> smon, out |-> <<>>]
             Turn(f, k) == IF k = 0 THEN first ELSE Execute(f[k - 1], obuf[k])
             Is(f, n) == f = [k \in 0 .. n |-> Turn(f, k)]
             Bad == {n \in Nat : ~\E f : Is(f, n)}
  <1>1. Bad = {}
    <2>1. SUFFICES ASSUME Bad # {} PROVE FALSE
      OBVIOUS
    <2>2. PICK n \in Bad : \A m \in Bad : n <= m
      BY <2>1, Least
    <2>3. n # 0
      <3> DEFINE f == [k \in 0 .. 0 |-> first]
      <3>1. \A k \in 0 .. 0 : Turn(f, k) = first
        OBVIOUS
      <3>2. Is(f, 0)
        BY <3>1
      <3> QED
        BY <3>2
    <2>4. n - 1 \in Nat /\ n - 1 \notin Bad
      <3>1. n \in Nat
        BY <2>2
      <3> HIDE DEF Bad
      <3> QED
        BY <2>2, <2>3, <3>1
    <2>5. PICK f : Is(f, n - 1)
      BY <2>4
    <2> DEFINE g == [k \in 0 .. n |-> Turn(f, k)]
    <2>6. ASSUME NEW k \in 1 .. n PROVE g[k - 1] = f[k - 1]
      <3>1. k - 1 \in 0 .. n - 1 /\ k - 1 \in 0 .. n
        BY <2>2, <2>6
      <3> HIDE DEF Turn
      <3> QED
        BY <2>5, <3>1
    <2> HIDE DEF g
    <2>7. ASSUME NEW k \in 0 .. n PROVE Turn(g, k) = Turn(f, k)
      <3>1. k = 0 \/ k \in 1 .. n
        BY <2>2
      <3> QED
        BY <2>6, <3>1
    <2> HIDE DEF Turn
    <2>8. Is(g, n)
      BY <2>7 DEF g
    <2> QED
      BY <2>2, <2>8
  <1>2. \E f : Is(f, Len(obuf))
    BY <1>1
  <1>3. Is(Executed, Len(obuf))
    <2>1. Executed = CHOOSE f : Is(f, Len(obuf))
      BY DEF Executed
    <2> HIDE DEF Is
    <2> QED
      BY <1>2, <2>1
  <1> HIDE DEF Turn
  <1>4. \A k \in 0 .. Len(obuf) : Executed[k] = Turn(Executed, k)
    BY <1>3
  <1> QED
    BY <1>4 DEF Turn

ServerAt(s, k) ==
  \E a \in SUBSET Names, b \in BOOLEAN, c \in Seq(Messages) :
    /\ s = [subs |-> a, mon |-> b, out |-> c]
    /\ b => Monitoring
    /\ LinkInv(Flight \o c, Written + k, a)

LEMMA ExecuteOne ==
  ASSUME AsyncTypes, HistoryInv, WaitingGetsInv, open,
         NEW k \in 1 .. Len(obuf), NEW s, ServerAt(s, k - 1)
  PROVE  ServerAt(Execute(s, obuf[k]), k)
  <1> DEFINE w == Written + (k - 1)
             id == w + 1
             c == cmds[id]
  <1>1. PICK a \in SUBSET Names, b \in BOOLEAN, o \in Seq(Messages) :
          /\ s = [subs |-> a, mon |-> b, out |-> o]
          /\ b => Monitoring
          /\ LinkInv(Flight \o o, w, a)
    BY DEF ServerAt
  <1>2. /\ w \in Nat /\ w < Newest /\ obuf[k] = id /\ id = Written + k /\ id \in 1 .. Newest
        /\ Newest \in Nat
    <2>1. /\ Written \in Nat /\ Newest \in Nat /\ Len(obuf) \in Nat
          /\ \A i \in 1 .. Len(obuf) : obuf[i] = Written + i
      BY DEF AsyncTypes, Newest
    <2>2. Written = Newest - Len(obuf)
      BY DEF Written
    <2> QED
      BY <2>1, <2>2
  <1>3. Flight \in Seq(Messages) /\ Flight \o o \in Seq(Messages)
    BY DEF Flight, AsyncTypes
  <1>4. \A r \in Seq(Messages) : (Flight \o o) \o r = Flight \o (o \o r)
    BY <1>3, JoinedMany
  <1>5. c.kind \in Kinds /\ c.names \in Seq(Names) /\ ToSet(c.names) \subseteq Names
    BY <1>2, NamesOfCommand
  <1> HIDE DEF w, id
  <1>6. CASE c.kind \notin Asks
    <2> DEFINE m == Reply("value", id)
    <2>1. m \in Messages /\ <<m>> \in Seq(Messages)
      BY <1>2 DEF Messages, Reply
    <2>2. a = {} /\ LinkInv((Flight \o o) \o <<m>>, id, a)
      <3>1. w + 1 = id
        BY DEF id
      <3> QED
        BY <1>1, <1>2, <1>3, <1>6, <3>1, LinkPlain
    <2>3. o \o <<m>> \in Seq(Messages) /\ Append(o, m) = o \o <<m>>
      BY <2>1
    <2>4. LinkInv(Flight \o Append(o, m), Written + k, a)
      BY <1>2, <1>4, <2>1, <2>2, <2>3
    <2>5. CASE c.kind = "get"
      <3>1. Execute(s, id) = [subs |-> a, mon |-> b, out |-> Append(o, m)]
        BY <1>1, <2>2, <2>5 DEF Execute
      <3> QED
        BY <1>1, <1>2, <2>3, <2>4, <3>1 DEF ServerAt
    <2>6. CASE c.kind = "monitor"
      <3>1. Execute(s, id) = [subs |-> a, mon |-> TRUE, out |-> Append(o, m)]
        BY <1>1, <2>2, <2>6 DEF Execute
      <3>2. Monitoring
        BY <1>2, <2>6 DEF HistoryInv
      <3> QED
        BY <1>1, <1>2, <2>3, <2>4, <3>1, <3>2 DEF ServerAt
    <2> QED
      BY <1>5, <1>6, <2>5, <2>6 DEF Kinds, Asks
  <1>7. CASE c.kind \in Asks
    <2> DEFINE After(j) == IF c.kind = "subscribe" THEN a \cup ToSet(SubSeq(c.names, 1, j))
                                                   ELSE a \ ToSet(SubSeq(c.names, 1, j))
               r == [j \in DOMAIN c.names |-> PubSub(c.kind, c.names[j], Cardinality(After(j)))]
    <2>1. \A j \in 1 .. Len(c.names) :
            /\ SubSeq(c.names, 1, j) \in Seq(Names) /\ Len(SubSeq(c.names, 1, j)) = j
            /\ \A i \in 1 .. j : SubSeq(c.names, 1, j)[i] = c.names[i]
      BY <1>5
    <2>2. \A j \in 1 .. Len(c.names) :
            /\ ToSet(SubSeq(c.names, 1, j)) \subseteq Names
            /\ \A i \in 1 .. j : c.names[i] \in ToSet(SubSeq(c.names, 1, j))
      <3> TAKE j \in 1 .. Len(c.names)
      <3> DEFINE t == SubSeq(c.names, 1, j)
      <3>1. t \in Seq(Names) /\ Len(t) = j /\ \A i \in 1 .. j : t[i] = c.names[i]
        BY <2>1
      <3> HIDE DEF t
      <3>2. ToSet(t) \subseteq Names /\ \A i \in 1 .. j : t[i] \in ToSet(t)
        BY <3>1 DEF ToSet
      <3> QED
        BY <3>1, <3>2 DEF t
    <2>3. SubSeq(c.names, 1, Len(c.names)) = c.names /\ DOMAIN c.names = 1 .. Len(c.names)
      BY <1>5
    <2>4. \A j \in 1 .. Len(c.names) : /\ After(j) \subseteq Names
                                       /\ IsFiniteSet(After(j)) /\ Cardinality(After(j)) \in Nat
      <3> TAKE j \in 1 .. Len(c.names)
      <3>1. After(j) \subseteq Names
        BY <1>1, <2>2
      <3> QED
        BY <3>1, AsyncAssumption, FS_Subset, FS_CardinalityType
    <2>5. \A j \in 1 .. Len(c.names) : r[j] = PubSub(c.kind, c.names[j], Cardinality(After(j)))
      BY <2>3
    <2>6. r \in Seq(Messages) /\ Len(r) = Len(c.names)
      <3>1. \A j \in 1 .. Len(c.names) : r[j] \in Messages
        <4> TAKE j \in 1 .. Len(c.names)
        <4>0. Cardinality(After(j)) \in Nat
          BY <2>4
        <4> HIDE DEF After
        <4>1. /\ c.kind \in Told /\ c.names[j] \in Names
          BY <1>5, <1>7 DEF Asks, Told
        <4>2. PubSub(c.kind, c.names[j], Cardinality(After(j)))
                \in [kind : Told, name : Names, left : Nat]
          BY <4>0, <4>1 DEF PubSub
        <4> QED
          BY <2>5, <4>2 DEF Messages
      <3>2. r = [j \in 1 .. Len(c.names) |-> r[j]] /\ Len(c.names) \in Nat
        BY <1>5, <2>3
      <3> HIDE DEF r
      <3>3. r \in [1 .. Len(c.names) -> Messages]
        BY <3>1, <3>2
      <3> QED
        BY <3>2, <3>3
    <2>7. Answering(r, id, a)
      <3>1. \A j \in 1 .. Len(r) : Says(r, j, c.kind, c.names[j])
        BY <2>5, <2>6 DEF Says, PubSub
      <3>2. ASSUME NEW j \in 1 .. Len(r), c.kind = "unsubscribe", r[j].left # 0
            PROVE  \E n \in a : \A i \in 1 .. j : c.names[i] # n
        <4>1. Cardinality(After(j)) # 0
          BY <2>5, <2>6, <3>2 DEF PubSub
        <4>2. After(j) # {}
          BY <4>1, FS_EmptySet
        <4> QED
          BY <2>2, <2>6, <3>2, <4>2
      <3> QED
        BY <2>6, <3>1, <3>2 DEF Answering
    <2>8. Execute(s, id) = [subs |-> Resulting(id, a), mon |-> b, out |-> o \o r]
      <3>1. Execute(s, id) = [s EXCEPT !.subs = After(Len(c.names)), !.out = @ \o r]
        BY <1>1, <1>7 DEF Execute, Asks
      <3>2. After(Len(c.names)) = Resulting(id, a)
        BY <2>3 DEF Resulting
      <3> QED
        BY <1>1, <3>1, <3>2
    <2> HIDE DEF r
    <2>9. Resulting(id, a) \in SUBSET Names /\ LinkInv((Flight \o o) \o r, id, Resulting(id, a))
      <3>1. w + 1 = id
        BY DEF id
      <3> QED
        BY <1>1, <1>2, <1>3, <1>7, <2>6, <2>7, <3>1, LinkAsked
    <2>10. o \o r \in Seq(Messages)
      BY <2>6
    <2>11. LinkInv(Flight \o (o \o r), Written + k, Resulting(id, a))
      BY <1>2, <1>4, <2>6, <2>9
    <2> QED
      BY <1>1, <1>2, <2>8, <2>9, <2>10, <2>11 DEF ServerAt
  <1> QED
    BY <1>2, <1>6, <1>7

LEMMA ExecuteMany ==
  ASSUME AsyncTypes, HistoryInv, ModeInv, WaitingGetsInv, open, LinkInv(Flight, Written, ssubs),
         NEW k \in 0 .. Len(obuf)
  PROVE  ServerAt(Executed[k], k)
  <1> DEFINE Bad == {j \in Nat : j <= Len(obuf) /\ ~ServerAt(Executed[j], j)}
  <1>0. Len(obuf) \in Nat /\ Written \in Nat /\ Flight \in Seq(Messages)
    BY DEF AsyncTypes, Flight
  <1>1. Bad = {}
    <2>1. SUFFICES ASSUME Bad # {} PROVE FALSE
      OBVIOUS
    <2>2. PICK j \in Bad : \A i \in Bad : j <= i
      BY <2>1, Least
    <2>3. j # 0
      <3>1. Flight \o <<>> = Flight /\ Written + 0 = Written
        BY <1>0
      <3>2. ServerAt(Executed[0], 0)
        <4>1. /\ ssubs \in SUBSET Names /\ smon \in BOOLEAN /\ (smon => Monitoring)
              /\ <<>> \in Seq(Messages)
          BY DEF AsyncTypes, ModeInv
        <4>2. LinkInv(Flight \o <<>>, Written + 0, ssubs)
          BY <3>1
        <4>3. Executed[0] = [subs |-> ssubs, mon |-> smon, out |-> <<>>]
          BY <1>0, ExecutedIs
        <4> QED
          BY <4>1, <4>2, <4>3 DEF ServerAt
      <3> QED
        BY <3>2
    <2>4. j \in 1 .. Len(obuf) /\ j - 1 \in Nat /\ j - 1 \notin Bad
      BY <1>0, <2>2, <2>3
    <2>5. ServerAt(Executed[j - 1], j - 1)
      BY <1>0, <2>4
    <2>6. ServerAt(Executed[j], j)
      BY <1>0, <2>4, <2>5, ExecuteOne, ExecutedIs
    <2> QED
      BY <2>6
  <1> QED
    BY <1>0, <1>1
-----------------------------------------------------------------------------
(* Steps that leave the callbacks and the commands alone.                   *)

LEMMA PartsFrame ==
  ASSUME UNCHANGED <<subs, cmds, open>>, Subscribed' <=> Subscribed,
         NEW q, NEW w, NEW ss, EntriesInv(q, w, ss), SilenceInv(q, ss), LeaveInv(q, w, ss),
         Flight' = q, Written' = w, ssubs' = ss
  PROVE  /\ EntriesInv(Flight, Written, ssubs)' /\ SilenceInv(Flight, ssubs)'
         /\ LeaveInv(Flight, Written, ssubs)'
  <1>1. Newest' = Newest
    BY DEF Newest
  <1>2. \A i, n : (Subscribes(i, n)' <=> Subscribes(i, n)) /\ (Unsubscribes(i, n)' <=> Unsubscribes(i, n))
    BY DEF Subscribes, Unsubscribes
  <1>3. Wanted(Written)' = Wanted(w)
    BY <1>2 DEF Wanted
  <1>4. \A n : Unsent(Written, n)' = Unsent(w, n)
    BY <1>1, <1>2 DEF Unsent
  <1>5. \A n : Confirms(Flight, n)' = Confirms(q, n)
    BY DEF Confirms, Says
  <1>6. \A n : Owed(Flight, Written, n)' = Owed(q, w, n)
    BY <1>4, <1>5 DEF Owed
  <1>7. EntriesInv(Flight, Written, ssubs)'
    BY <1>1, <1>2, <1>3, <1>6 DEF EntriesInv
  <1>8. SilenceInv(Flight, ssubs)'
    BY DEF SilenceInv, Says
  <1>9. LeaveInv(Flight, Written, ssubs)'
    BY <1>4, <1>6 DEF LeaveInv, Says
  <1> QED
    BY <1>7, <1>8, <1>9

LEMMA LinkFrame ==
  ASSUME UNCHANGED <<subs, cmds, open>>, replies' = replies \/ Monitoring,
         Subscribed' <=> Subscribed, Monitoring' <=> Monitoring,
         NEW q, NEW w, NEW ss, LinkInv(q, w, ss),
         Flight' = q, Written' = w, ssubs' = ss
  PROVE  LinkInv(Flight, Written, ssubs)'
  <1>1. Newest' = Newest
    BY DEF Newest
  <1>2. LineInv(Flight, Written, ssubs)'
    <2>1. CASE Monitoring
      BY <1>1, <2>1 DEF LinkInv, LineInv, Fed, Reply
    <2>2. CASE ~Monitoring
      BY <1>1, <2>2 DEF LinkInv, LineInv, Ordered, Reply
    <2> QED
      BY <2>1, <2>2
  <1> QED
    BY <1>2, PartsFrame DEF LinkInv

LEMMA HistoryFrame ==
  ASSUME HistoryInv, cmds' = cmds, Monitoring' <=> Monitoring
  PROVE  HistoryInv'
  <1>1. Newest' = Newest
    BY DEF Newest
  <1>2. \A i, n : (Subscribes(i, n)' <=> Subscribes(i, n)) /\ (Unsubscribes(i, n)' <=> Unsubscribes(i, n))
    BY DEF Subscribes, Unsubscribes
  <1>3. \A k : Wanted(k)' = Wanted(k)
    BY <1>2 DEF Wanted
  <1> QED
    BY <1>1, <1>2, <1>3 DEF HistoryInv

\* A step that moves replies from the network to the reader, or moves on in the code.
LEMMA Moves ==
  ASSUME AsyncInv, pc # "gone",
         UNCHANGED <<replies, invalid, subs, obuf, cmds, got, ssubs, smon, open>>,
         err' \in BOOLEAN, err' => pc' = "onConnect" /\ sock' = "failed", Flight' = Flight,
         inbuf' \in Seq(Messages), wire' \in Seq(Messages),
         flags' \subseteq {"CONNECTED", "DISCONNECTING", "FREEING", "SUBSCRIBED", "MONITORING"},
         Subscribed' <=> Subscribed, Monitoring' <=> Monitoring,
         pc' \in {"loop", "onConnect", "process", "callback"},
         pc' \in {"loop", "onConnect"} => inbuf' = <<>>, cb' \in Callbacks(Newest),
         Monitoring /\ pc' \notin {"loop", "onConnect"} => cb'.id \in {0, Newest}
  PROVE  AsyncInv'
  <1>1. AsyncTypes /\ HistoryInv /\ ModeInv /\ WaitingGetsInv /\ LinkInv(Flight, Written, ssubs)
    BY DEF AsyncInv
  <1>2. Newest' = Newest /\ Written' = Written
    BY DEF Newest, Written
  <1>3. AsyncTypes'
    BY <1>1, <1>2 DEF AsyncTypes, Callbacks
  <1>4. HistoryInv'
    BY <1>1, HistoryFrame
  <1>5. ModeInv'
    BY <1>1 DEF ModeInv
  <1>6. WaitingGetsInv'
    BY <1>1, <1>2 DEF WaitingGetsInv, Waits, IsRegular
  <1>7. LinkInv(Flight, Written, ssubs)'
    BY <1>1, <1>2, LinkFrame
  <1> QED
    BY <1>3, <1>4, <1>5, <1>6, <1>7 DEF AsyncInv

-----------------------------------------------------------------------------
(* The end of a context.                                                    *)

LEMMA GoneKeeps ==
  ASSUME AsyncInv, pc = "gone", UNCHANGED <<client, user, ssubs, smon>>,
         wire' \in Seq(Messages), open' \in BOOLEAN
  PROVE  AsyncInv'
  <1>1. AsyncTypes /\ HistoryInv /\ OwnReplies /\ CleanDisconnect
    BY DEF AsyncInv
  <1>2. Newest' = Newest /\ Written' = Written
    BY DEF Newest, Written, client, user
  <1>3. AsyncTypes'
    BY <1>1, <1>2 DEF AsyncTypes, Callbacks, client, user
  <1>4. HistoryInv'
    BY <1>1, HistoryFrame DEF client, user, Monitoring
  <1>5. OwnReplies' /\ CleanDisconnect'
    BY <1>1 DEF OwnReplies, CleanDisconnect, IsRegular, client, user
  <1> QED
    BY <1>3, <1>4, <1>5 DEF AsyncInv, client

LEMMA Release ==
  ASSUME AsyncTypes, HistoryInv, WaitingGetsInv, Released("gone"), UNCHANGED server,
         flags' \subseteq {"CONNECTED", "DISCONNECTING", "FREEING", "SUBSCRIBED", "MONITORING"},
         Monitoring' <=> Monitoring, err' \in BOOLEAN,
         err' \/ "FREEING" \in flags' \/ replies = <<>>
  PROVE  AsyncInv'
  <1> DEFINE null(id) == [i \in 1 .. IF IsRegular(id) THEN Cardinality(Occurrences(id, Pending))
                                     ELSE 0 |-> "null"]
  <1>1. /\ Newest \in Nat /\ Newest' = Newest /\ DOMAIN got = 1 .. Newest /\ DOMAIN cmds = 1 .. Newest
        /\ Len(replies) \in Nat
    BY DEF AsyncTypes, Newest, Released
  <1>2. got' = [id \in 1 .. Newest |-> got[id] \o null(id)]
    BY <1>1 DEF Released
  <1>3. ASSUME NEW id \in 1 .. Newest
        PROVE  Occurrences(id, Pending) = {i \in 1 .. Len(replies) : replies[i].id = id}
    <2>1. Pending = replies /\ DOMAIN replies = 1 .. Len(replies)
      BY DEF Pending, AsyncTypes
    <2> QED
      BY <2>1 DEF Occurrences
  <1>4. ASSUME NEW id \in 1 .. Newest
        PROVE  /\ ~IsRegular(id) => got'[id] = <<>>
               /\ IsRegular(id) => /\ got'[id] \in {<<"own">>, <<"null">>}
                                   /\ replies = <<>> => got'[id] = <<"own">>
    <2>0. got'[id] = got[id] \o null(id)
      BY <1>2
    <2>1. CASE ~IsRegular(id)
      <3>1. got[id] = <<>> /\ null(id) = <<>>
        BY <2>1 DEF WaitingGetsInv, IsRegular
      <3> QED
        BY <2>0, <2>1, <3>1
    <2>2. CASE IsRegular(id) /\ ~Waits(id)
      <3>1. got[id] = <<"own">>
        BY <2>2 DEF WaitingGetsInv, IsRegular
      <3>2. Occurrences(id, Pending) = {}
        BY <1>3, <2>2 DEF Waits
      <3>3. null(id) = <<>>
        BY <3>2, FS_EmptySet
      <3>4. <<"own">> \o <<>> = <<"own">>
        OBVIOUS
      <3> HIDE DEF null
      <3> QED
        BY <2>0, <2>2, <3>1, <3>3, <3>4
    <2>3. CASE IsRegular(id) /\ Waits(id)
      <3>1. got[id] = <<>>
        BY <2>3 DEF WaitingGetsInv, IsRegular
      <3>2. PICK i \in 1 .. Len(replies) : replies[i].id = id
        BY <2>3 DEF Waits
      <3>3. ~Monitoring
        BY <2>3, <3>2 DEF WaitingGetsInv, HistoryInv, IsRegular
      <3>4. \A j \in 1 .. Len(replies) : replies[j].id = id => j = i
        <4> SUFFICES ASSUME NEW j \in 1 .. Len(replies), replies[j].id = id, j # i PROVE FALSE
          OBVIOUS
        <4>1. replies[i].id < replies[j].id \/ replies[j].id < replies[i].id
          BY <1>1, <3>3 DEF WaitingGetsInv
        <4> QED
          BY <3>2, <4>1
      <3>5. Occurrences(id, Pending) = {i}
        BY <1>3, <3>2, <3>4
      <3>6. null(id) = <<"null">>
        <4>1. Cardinality(Occurrences(id, Pending)) = 1
          BY <3>5, FS_Singleton
        <4>2. null(id) = [k \in 1 .. 1 |-> "null"]
          BY <2>3, <4>1
        <4> QED
          BY <4>2
      <3>7. replies # <<>>
        BY <3>2
      <3> QED
        BY <2>0, <2>3, <3>1, <3>6, <3>7
    <2> QED
      BY <2>1, <2>2, <2>3
  <1> DEFINE A == {"own", "null", "other"}
  <1>5. got' \in Seq(Seq(A)) /\ Len(got') = Newest
    <2>1. \A id \in 1 .. Newest : got'[id] \in Seq(A)
      <3> TAKE id \in 1 .. Newest
      <3>1. <<>> \in Seq(A) /\ <<"own">> \in Seq(A) /\ <<"null">> \in Seq(A)
        OBVIOUS
      <3> QED
        BY <1>4, <3>1
    <2> HIDE DEF A, null
    <2>2. got' \in [1 .. Newest -> Seq(A)]
      BY <1>2, <2>1
    <2> QED
      BY <1>1, <2>2
  <1>6. AsyncTypes'
    <2>1. /\ <<>> \in Seq(Callbacks(Newest)) /\ NoCb \in Callbacks(Newest)
          /\ <<>> \in Seq(Nat) /\ <<>> \in Seq(Messages)
      BY <1>1 DEF Callbacks, NoCb
    <2>2. Written' = Newest
      BY <1>1 DEF Written, Newest, Released
    <2>3. /\ replies' = <<>> /\ invalid' = <<>> /\ subs' = <<>> /\ obuf' = <<>> /\ inbuf' = <<>>
          /\ pc' = "gone" /\ cb' = NoCb /\ cmds' = cmds
          /\ wire' = wire /\ open' = open /\ ssubs' = ssubs /\ smon' = smon
      BY DEF Released, server
    <2>4. DOMAIN subs' = {}
      BY <2>3
    <2> QED
      BY <1>1, <1>5, <2>1, <2>2, <2>3, <2>4 DEF AsyncTypes
  <1>7. HistoryInv'
    BY HistoryFrame DEF Released
  <1>8. OwnReplies' /\ CleanDisconnect'
    <2>1. /\ cmds' = cmds /\ \A id : IsRegular(id)' <=> IsRegular(id)
      BY DEF Released, IsRegular
    <2>2. ToSet(<<>>) = {} /\ ToSet(<<"own">>) = {"own"} /\ ToSet(<<"null">>) = {"null"}
      BY DEF ToSet
    <2>3. "other" \notin ToSet(<<>>) /\ "other" \notin ToSet(<<"own">>) /\ "other" \notin ToSet(<<"null">>)
      BY <2>2
    <2>4. Len(<<>>) = 0 /\ Len(<<"own">>) = 1 /\ Len(<<"null">>) = 1
      OBVIOUS
    <2>5. OwnReplies'
      <3>1. ASSUME NEW id \in 1 .. Newest
            PROVE  /\ "other" \notin ToSet(got'[id])
                   /\ IsRegular(id) => Len(got'[id]) = 1
        BY <1>4, <2>3, <2>4
      <3>2. DOMAIN cmds' = 1 .. Newest /\ \A id \in 1 .. Newest : IsRegular(id)' <=> IsRegular(id)
        BY <1>1, <2>1
      <3>3. 1 <= 1
        OBVIOUS
      <3> QED
        BY <3>1, <3>2, <3>3 DEF OwnReplies
    <2>6. CleanDisconnect'
      <3> SUFFICES ASSUME ~err', "FREEING" \notin flags', NEW id \in 1 .. Newest, IsRegular(id)
                   PROVE  got'[id] = <<"own">>
        BY <1>1, <2>1 DEF CleanDisconnect
      <3> QED
        BY <1>4
    <2> QED
      BY <2>5, <2>6
  <1>9. pc' = "gone"
    BY DEF Released
  <1> QED
    BY <1>6, <1>7, <1>8, <1>9 DEF AsyncInv

LEMMA Disconnects ==
  ASSUME AsyncInv, pc # "gone", UNCHANGED server, NEW e \in BOOLEAN, NEW fl,
         fl \subseteq {"CONNECTED", "DISCONNECTING", "FREEING", "SUBSCRIBED", "MONITORING"},
         "MONITORING" \in fl <=> Monitoring,
         Disconnected(e, fl, "gone"), e \/ replies = <<>>
  PROVE  AsyncInv'
  <1>1. AsyncTypes /\ HistoryInv /\ WaitingGetsInv
    BY DEF AsyncInv
  <1>2. Released("gone") /\ err' = e /\ flags' = IF e THEN fl \cup {"DISCONNECTING"} ELSE fl
    BY DEF Disconnected
  <1> QED
    BY <1>1, <1>2, Release DEF Monitoring
-----------------------------------------------------------------------------
(* The steps of the server and those that only end a context or move on.     *)

LEMMA InvParts ==
  ASSUME AsyncInv, pc # "gone"
  PROVE  /\ AsyncTypes /\ HistoryInv /\ ModeInv /\ WaitingGetsInv
         /\ LinkInv(Flight, Written, ssubs)
         /\ Newest \in Nat /\ Flight \in Seq(Messages) /\ Written \in Nat /\ Written <= Newest
  <1>1. AsyncTypes /\ HistoryInv /\ ModeInv /\ WaitingGetsInv /\ LinkInv(Flight, Written, ssubs)
    BY DEF AsyncInv
  <1>2. Newest \in Nat /\ Len(obuf) \in Nat /\ Flight \in Seq(Messages) /\ Written \in Nat
    BY <1>1 DEF AsyncTypes, Newest, Flight
  <1> QED
    BY <1>1, <1>2 DEF Written

LEMMA DisconnectStep ==
  ASSUME AsyncInv, Unruly = FALSE, redisAsyncDisconnect
  PROVE  AsyncInv'
  <1>1. pc \in {"loop", "onConnect", "callback"} /\ UNCHANGED server
    BY DEF redisAsyncDisconnect, MayCall
  <1>2. AsyncTypes /\ ModeInv
    BY <1>1, InvParts
  <1>3. CASE pc # "callback" /\ replies = <<>>
    <2>1. pc = "loop" /\ Disconnected(err, flags \cup {"DISCONNECTING"}, "gone")
      BY <1>1, <1>3 DEF redisAsyncDisconnect, MayEnd, AtOnce
    <2> QED
      BY <1>1, <1>2, <1>3, <2>1, Disconnects DEF AsyncTypes, Monitoring
  <1>4. CASE ~(pc # "callback" /\ replies = <<>>)
    <2>1. /\ flags' = flags \cup {"DISCONNECTING"}
          /\ UNCHANGED <<err, replies, invalid, subs, obuf, inbuf, pc, cb, user>>
      BY <1>4 DEF redisAsyncDisconnect
    <2>2. UNCHANGED <<cmds, got, ssubs, smon, open, wire, sock>> /\ Flight' = Flight
      BY <1>1, <2>1 DEF user, server, Flight
    <2>3. (Subscribed' <=> Subscribed) /\ (Monitoring' <=> Monitoring)
      BY <2>1 DEF Subscribed, Monitoring
    <2> QED
      BY <1>1, <1>2, <2>1, <2>2, <2>3, Moves, InvParts DEF AsyncTypes, ModeInv, WaitingGetsInv
  <1> QED
    BY <1>3, <1>4

LEMMA FreeStep ==
  ASSUME AsyncInv, Unruly = FALSE, redisAsyncFree
  PROVE  AsyncInv'
  <1>1. /\ pc \in {"loop", "callback"} /\ UNCHANGED <<err, server>>
        /\ flags' = flags \cup {"FREEING"}
    BY DEF redisAsyncFree, MayCall, MayEnd
  <1>2. AsyncTypes /\ HistoryInv /\ WaitingGetsInv
    BY <1>1, InvParts
  <1>3. (Subscribed' <=> Subscribed) /\ (Monitoring' <=> Monitoring)
    BY <1>1 DEF Subscribed, Monitoring
  <1>4. CASE pc = "loop"
    <2>1. Released("gone")
      BY <1>4 DEF redisAsyncFree, AtOnce
    <2> QED
      BY <1>1, <1>2, <1>3, <2>1, Release DEF AsyncTypes
  <1>5. CASE pc # "loop"
    <2>1. UNCHANGED <<replies, invalid, subs, obuf, inbuf, pc, cb, user>>
      BY <1>1, <1>5 DEF redisAsyncFree
    <2>2. UNCHANGED <<cmds, got, ssubs, smon, open, wire, sock>> /\ Flight' = Flight
      BY <1>1, <2>1 DEF user, server, Flight
    <2> QED
      BY <1>1, <1>2, <1>3, <2>1, <2>2, Moves, InvParts DEF AsyncTypes, ModeInv, WaitingGetsInv
  <1> QED
    BY <1>4, <1>5

LEMMA SetConnectStep ==
  ASSUME AsyncInv, redisAsyncSetConnectCallback
  PROVE  AsyncInv'
  <1>1. /\ pc \in {"loop", "onConnect", "callback"}
        /\ UNCHANGED <<flags, err, replies, invalid, subs, obuf, inbuf, pc, cb, user, server>>
    BY DEF redisAsyncSetConnectCallback, MayCall
  <1>2. AsyncTypes /\ ModeInv /\ WaitingGetsInv
    BY <1>1, InvParts
  <1>3. UNCHANGED <<cmds, got, ssubs, smon, open, wire, sock>> /\ Flight' = Flight
    BY <1>1 DEF user, server, Flight
  <1> QED
    BY <1>1, <1>2, <1>3, Moves DEF AsyncTypes, ModeInv, WaitingGetsInv, Subscribed, Monitoring

LEMMA ReadStep ==
  ASSUME AsyncInv, HandleRead \/ HandleReadPart
  PROVE  AsyncInv'
  <1>1. /\ pc = "loop" /\ pc' = "process" /\ cb' = NoCb
        /\ UNCHANGED <<flags, err, replies, invalid, subs, obuf, user, ssubs, smon, open>>
    BY DEF HandleRead, HandleReadPart
  <1>2. AsyncTypes /\ ModeInv /\ inbuf = <<>> /\ Newest \in Nat /\ err = FALSE
    BY <1>1, InvParts DEF ModeInv, AsyncTypes
  <1>3. NoCb \in Callbacks(Newest) /\ NoCb.id = 0
    BY <1>2 DEF NoCb, Callbacks
  <1>4. Flight' = Flight /\ inbuf' \in Seq(Messages) /\ wire' \in Seq(Messages)
    <2>1. CASE HandleRead
      <3>1. PICK k \in 1 .. Len(wire) : /\ inbuf' = SubSeq(wire, 1, k)
                                        /\ wire' = SubSeq(wire, k + 1, Len(wire))
        BY <2>1 DEF HandleRead
      <3>2. wire \in Seq(Messages)
        BY <1>2 DEF AsyncTypes
      <3>3. SubSeq(wire, 1, k) \in Seq(Messages) /\ SubSeq(wire, k + 1, Len(wire)) \in Seq(Messages)
        BY <3>2
      <3>4. SubSeq(wire, 1, k) \o SubSeq(wire, k + 1, Len(wire)) = wire /\ <<>> \o wire = wire
        BY <3>2
      <3> QED
        BY <1>2, <3>1, <3>3, <3>4 DEF Flight
    <2>2. CASE HandleReadPart
      BY <1>2, <2>2 DEF HandleReadPart, AsyncTypes, Flight
    <2> QED
      BY <2>1, <2>2
  <1> QED
    BY <1>1, <1>2, <1>3, <1>4, Moves DEF user, AsyncTypes, Subscribed, Monitoring

LEMMA FailStep ==
  ASSUME AsyncInv, HandleReadFails \/ ProcessSpontaneousError
  PROVE  AsyncInv'
  <1>1. pc # "gone" /\ Disconnected(TRUE, flags, "gone") /\ UNCHANGED server
    BY DEF HandleReadFails, ProcessSpontaneousError, InTurn
  <1>2. AsyncTypes
    BY <1>1, InvParts
  <1> QED
    BY <1>1, <1>2, Disconnects DEF AsyncTypes, Monitoring

LEMMA ReturnStep ==
  ASSUME AsyncInv, CallbackReturns
  PROVE  AsyncInv'
  <1>1. pc = "callback" /\ UNCHANGED <<flags, err, server>>
    BY DEF CallbackReturns
  <1>2. AsyncTypes /\ HistoryInv /\ WaitingGetsInv /\ err = FALSE
    BY <1>1, InvParts DEF ModeInv, AsyncTypes
  <1>3. CASE "FREEING" \in flags
    <2>1. Released("gone")
      BY <1>3 DEF CallbackReturns
    <2> QED
      BY <1>1, <1>2, <1>3, <2>1, Release DEF AsyncTypes, Monitoring
  <1>4. CASE "FREEING" \notin flags
    <2>1. pc' = "process"
          /\ UNCHANGED <<replies, invalid, subs, obuf, inbuf, cb, user>>
      BY <1>4 DEF CallbackReturns
    <2>2. UNCHANGED <<cmds, got, ssubs, smon, open, wire, sock>> /\ Flight' = Flight
      BY <1>1, <2>1 DEF user, server, Flight
    <2> QED
      BY <1>1, <1>2, <2>1, <2>2, Moves
      DEF AsyncTypes, WaitingGetsInv, Subscribed, Monitoring
  <1> QED
    BY <1>3, <1>4

LEMMA ConnectsStep ==
  ASSUME AsyncInv, Connects
  PROVE  AsyncInv'
  <1>1. UNCHANGED <<client, user, wire, open, ssubs, smon>>
    BY DEF Connects
  <1>2. AsyncTypes
    BY DEF AsyncInv
  <1>3. CASE pc = "gone"
    BY <1>1, <1>2, <1>3, GoneKeeps DEF AsyncTypes
  <1>4. CASE pc # "gone"
    <2>1. Flight' = Flight
      BY <1>1 DEF client, Flight
    <2>2. ModeInv /\ WaitingGetsInv
      BY <1>4, InvParts
    <2>3. err' = FALSE
      BY <1>1, <1>2, <2>2 DEF Connects, AsyncTypes, ModeInv, client
    <2> QED
      BY <1>1, <1>2, <1>4, <2>1, <2>2, <2>3, Moves
      DEF client, user, AsyncTypes, ModeInv, WaitingGetsInv, Subscribed, Monitoring
  <1> QED
    BY <1>3, <1>4

LEMMA PublishedStep ==
  ASSUME AsyncInv, Published
  PROVE  AsyncInv'
  <1>1. open /\ UNCHANGED <<client, user, ssubs, smon, sock>> /\ open' = open
    BY DEF Published
  <1>2. AsyncTypes
    BY DEF AsyncInv
  <1>3. PICK m \in Messages : /\ wire' = Append(wire, m)
                              /\ \/ m.kind = "message" /\ m.name \in ssubs
                                 \/ m = [kind |-> "feed"] /\ smon
    <2>1. CASE \E n \in ssubs : wire' = Append(wire, PubSub("message", n, 0))
      <3>1. PICK n \in ssubs : wire' = Append(wire, PubSub("message", n, 0))
        BY <2>1
      <3>2. /\ PubSub("message", n, 0) \in [kind : Told, name : Names, left : Nat]
            /\ PubSub("message", n, 0).kind = "message" /\ PubSub("message", n, 0).name = n
        BY <1>2 DEF PubSub, Told, AsyncTypes
      <3> QED
        BY <3>1, <3>2 DEF Messages
    <2>2. CASE smon /\ wire' = Append(wire, [kind |-> "feed"])
      BY <2>2 DEF Messages
    <2> QED
      BY <2>1, <2>2 DEF Published
  <1>4. wire' \in Seq(Messages) /\ wire \in Seq(Messages) /\ inbuf \in Seq(Messages)
    BY <1>2, <1>3 DEF AsyncTypes
  <1>5. CASE pc = "gone"
    BY <1>1, <1>2, <1>4, <1>5, GoneKeeps DEF AsyncTypes
  <1>6. CASE pc # "gone"
    <2>1. /\ HistoryInv /\ ModeInv /\ WaitingGetsInv /\ LinkInv(Flight, Written, ssubs)
          /\ Flight \in Seq(Messages) /\ Written \in Nat /\ Newest \in Nat /\ Written <= Newest
      BY <1>6, InvParts
    <2> DEFINE q == Flight
               p == q \o <<m>>
    <2>2. Flight' = p /\ Newest' = Newest /\ Written' = Written
      <3>1. Append(wire, m) = wire \o <<m>> /\ inbuf' = inbuf /\ <<m>> \in Seq(Messages)
        BY <1>1, <1>4 DEF client
      <3>2. (inbuf \o wire) \o <<m>> = inbuf \o (wire \o <<m>>)
        BY <1>4, <3>1, JoinedMany
      <3> QED
        BY <1>1, <1>3, <3>1, <3>2 DEF Flight, Newest, Written, client, user
    <2>3. m.kind \in Told => m.kind = "message" /\ m.name \in ssubs /\ open
      BY <1>1, <1>3 DEF Told
    <2>4. EntriesInv(p, Written, ssubs) /\ SilenceInv(p, ssubs) /\ LeaveInv(p, Written, ssubs)
      BY <1>2, <2>1, <2>3, Unconfirming DEF LinkInv
    <2>5. /\ Len(p) = Len(q) + 1 /\ Len(q) \in Nat
          /\ \A i \in 1 .. Len(q) : p[i] = q[i]
          /\ p[Len(q) + 1] = m
      BY <2>1
    <2> HIDE DEF p, q
    <2>6. LineInv(p, Written, ssubs)
      <3>1. CASE Monitoring
        <4>1. Fed(q, Written, ssubs)
          BY <2>1, <3>1 DEF LinkInv, LineInv, q
        <4>2. m = [kind |-> "feed"]
          BY <1>1, <1>3, <4>1 DEF Fed
        <4>3. \A i \in 1 .. Len(p) : i \in 1 .. Len(q) \/ i = Len(q) + 1
          BY <2>5
        <4>4. Fed(p, Written, ssubs)
          BY <2>5, <4>1, <4>2, <4>3 DEF Fed
        <4> QED
          BY <3>1, <4>4 DEF LineInv
      <3>2. CASE ~Monitoring
        <4>1. PICK g \in 0 .. Len(q) : Ordered(q, Written, ssubs, g)
          BY <1>1, <2>1, <3>2 DEF LinkInv, LineInv, q
        <4>2. m.kind = "message" /\ ssubs # {}
          BY <1>3, <2>1, <3>2 DEF ModeInv
        <4>3. Len(replies) = g
          BY <1>1, <4>1, <4>2 DEF Ordered
        <4>4. \A i \in g + 1 .. Len(p) : p[i].kind \in Told
          <5>1. \A i \in g + 1 .. Len(p) : i \in g + 1 .. Len(q) \/ i = Len(q) + 1
            BY <2>5
          <5>2. \A i \in g + 1 .. Len(q) : i \in 1 .. Len(q)
            BY <2>5
          <5> QED
            BY <2>5, <4>1, <4>2, <5>1, <5>2 DEF Ordered, Told
        <4>5. g \in 0 .. Len(p) /\ \A i \in 1 .. g : i \in 1 .. Len(q)
          BY <2>5
        <4>6. Ordered(p, Written, ssubs, g)
          BY <2>5, <4>1, <4>3, <4>4, <4>5 DEF Ordered
        <4> QED
          BY <3>2, <4>5, <4>6 DEF LineInv
      <3> QED
        BY <3>1, <3>2
    <2>7. LinkInv(p, Written, ssubs)
      BY <2>4, <2>6 DEF LinkInv
    <2>8. LinkInv(Flight, Written, ssubs)'
      BY <1>1, <2>2, <2>7, LinkFrame DEF client, user, Subscribed, Monitoring
    <2>9. AsyncTypes'
      BY <1>1, <1>2, <1>4, <2>2 DEF AsyncTypes, client, user, Callbacks
    <2>10. HistoryInv'
      BY <1>1, <2>1, HistoryFrame DEF client, user, Monitoring
    <2>11. ModeInv' /\ WaitingGetsInv'
      BY <1>1, <2>1, <2>2
      DEF ModeInv, WaitingGetsInv, Waits, IsRegular, client, user, Monitoring, Subscribed
    <2>12. pc' # "gone"
      BY <1>1, <1>6 DEF client
    <2> QED
      BY <2>8, <2>9, <2>10, <2>11, <2>12 DEF AsyncInv
  <1> QED
    BY <1>5, <1>6

LEMMA ClosedStep ==
  ASSUME AsyncInv, Closed
  PROVE  AsyncInv'
  <1>1. /\ UNCHANGED <<client, user, ssubs, smon, sock>> /\ open /\ open' = FALSE
        /\ \/ wire' = wire
           \/ wire = <<>> /\ inbuf = <<>> /\ wire' = <<Reply("error", 0)>>
    BY DEF Closed
  <1>2. AsyncTypes
    BY DEF AsyncInv
  <1>3. Reply("error", 0) \in Messages /\ Reply("error", 0).kind = "error"
    BY DEF Reply, Messages
  <1>4. wire' \in Seq(Messages)
    <2>1. wire \in Seq(Messages) /\ <<Reply("error", 0)>> \in Seq(Messages)
      BY <1>2, <1>3 DEF AsyncTypes
    <2> QED
      BY <1>1, <2>1
  <1>5. CASE pc = "gone"
    BY <1>1, <1>4, <1>5, GoneKeeps
  <1>6. CASE pc # "gone"
    <2>1. /\ HistoryInv /\ ModeInv /\ WaitingGetsInv /\ LinkInv(Flight, Written, ssubs)
          /\ Flight \in Seq(Messages) /\ Written \in Nat /\ Newest \in Nat /\ Written <= Newest
      BY <1>6, InvParts
    <2>2. Newest' = Newest /\ Written' = Written /\ (Monitoring' <=> Monitoring)
          /\ (Subscribed' <=> Subscribed) /\ subs' = subs /\ cmds' = cmds /\ replies' = replies
      BY <1>1 DEF Newest, Written, client, user, Monitoring, Subscribed
    <2>3. \A i, n : Subscribes(i, n)' <=> Subscribes(i, n)
      BY <2>2 DEF Subscribes
    <2>4. Flight' = Flight \/ Flight' = <<Reply("error", 0)>>
      <3>1. inbuf' = inbuf /\ <<>> \o <<Reply("error", 0)>> = <<Reply("error", 0)>>
        BY <1>1, <1>3 DEF client
      <3> QED
        BY <1>1, <3>1 DEF Flight
    <2>5. ASSUME NEW n \in Names
          PROVE  Owed(Flight, Written, n)' \in Nat /\ Owed(Flight, Written, n)' <= Owed(Flight, Written, n)
      <3>1. Owed(Flight, Written, n)' = Cardinality(Confirms(Flight, n)') + 0
        BY <1>1 DEF Owed
      <3>2. Cardinality(Confirms(Flight, n)) \in Nat /\ Cardinality(Unsent(Written, n)) \in Nat
        BY <1>2, <2>1, ConfirmsFinite, UnsentFinite
      <3>3. CASE Flight' = Flight
        <4>1. Confirms(Flight, n)' = Confirms(Flight, n)
          BY <3>3 DEF Confirms, Says
        <4> QED
          BY <1>1, <3>1, <3>2, <4>1 DEF Owed
      <3>4. CASE Flight' = <<Reply("error", 0)>>
        <4>1. Confirms(Flight, n)' = {}
          BY <1>3, <3>4 DEF Confirms, Says
        <4> QED
          BY <1>1, <3>1, <3>2, <4>1, FS_EmptySet DEF Owed
      <3> QED
        BY <2>4, <3>3, <3>4
    <2>6. LineInv(Flight, Written, ssubs)'
      <3>1. CASE Monitoring
        <4>1. \A i \in 1 .. Len(Flight') :
                Flight'[i] \in {Reply("value", Newest), Reply("error", 0), [kind |-> "feed"]}
          BY <2>1, <2>4, <3>1 DEF LinkInv, LineInv, Fed
        <4> QED
          BY <1>1, <2>2, <3>1, <4>1 DEF LineInv, Fed, Reply
      <3>2. CASE ~Monitoring
        <4>1. CASE Flight' = <<Reply("error", 0)>>
          BY <1>1, <2>2, <3>2, <4>1 DEF LineInv, Reply
        <4>2. CASE Flight' = Flight
          <5>1. PICK g \in 0 .. Len(Flight) : Ordered(Flight, Written, ssubs, g)
            BY <1>1, <2>1, <3>2 DEF LinkInv, LineInv
          <5>2. /\ g <= Len(replies')
                /\ \A i \in 1 .. g : Flight'[i] = Reply("value", replies'[i].id)
                /\ \A i \in g + 1 .. Len(Flight') : Flight'[i].kind \in Told
                /\ g < Len(Flight') => Len(replies') = g
            BY <2>2, <4>2, <5>1 DEF Ordered
          <5> QED
            BY <1>1, <2>2, <3>2, <4>2, <5>2 DEF LineInv, Ordered, Reply
        <4> QED
          BY <2>4, <4>1, <4>2
      <3> QED
        BY <3>1, <3>2
    <2>7. EntriesInv(Flight, Written, ssubs)'
      <3>1. ASSUME NEW n \in DOMAIN subs
            PROVE  /\ subs[n].id >= 1 /\ Subscribes(subs[n].id, n)
                   /\ subs[n].pending >= Owed(Flight, Written, n)'
        <4>1. n \in Names /\ subs[n].pending \in Nat
          BY <1>2, <2>1 DEF AsyncTypes, Callbacks
        <4>2. subs[n].pending >= Owed(Flight, Written, n) /\ Owed(Flight, Written, n) \in Nat
          BY <1>2, <2>1, OwedNat DEF LinkInv, EntriesInv
        <4> QED
          BY <2>1, <2>5, <4>1, <4>2 DEF LinkInv, EntriesInv
      <3>2. \A i \in 1 .. Len(Flight') : Flight'[i].kind \in Told => Flight'[i].name \in DOMAIN subs
        BY <1>3, <2>1, <2>4 DEF LinkInv, EntriesInv, Told
      <3> QED
        BY <1>1, <2>2, <2>3, <3>1, <3>2 DEF EntriesInv
    <2>8. SilenceInv(Flight, ssubs)'
      <3>1. CASE Flight' = Flight
        BY <1>1, <2>1, <3>1 DEF LinkInv, SilenceInv, Says
      <3>2. CASE Flight' = <<Reply("error", 0)>>
        <4>1. Len(Flight') = 1
          BY <3>2
        <4> QED
          BY <1>1, <4>1 DEF SilenceInv
      <3> QED
        BY <2>4, <3>1, <3>2
    <2>9. LeaveInv(Flight, Written, ssubs)'
      BY <1>1 DEF LeaveInv
    <2>10. LinkInv(Flight, Written, ssubs)'
      BY <2>6, <2>7, <2>8, <2>9 DEF LinkInv
    <2>11. AsyncTypes'
      BY <1>1, <1>2, <1>4, <2>2 DEF AsyncTypes, client, user, Callbacks
    <2>12. HistoryInv'
      BY <2>1, <2>2, HistoryFrame
    <2>13. ModeInv' /\ WaitingGetsInv'
      BY <1>1, <2>1, <2>2
      DEF ModeInv, WaitingGetsInv, Waits, IsRegular, client, user
    <2>14. pc' # "gone"
      BY <1>1, <1>6 DEF client
    <2> QED
      BY <2>10, <2>11, <2>12, <2>13, <2>14 DEF AsyncInv
  <1> QED
    BY <1>5, <1>6
-----------------------------------------------------------------------------
(* Commands are written.                                                    *)

LEMMA LinkClosed ==
  ASSUME ~open, NEW q, NEW w, NEW v, NEW ss, LinkInv(q, w, ss)
  PROVE  LinkInv(q, v, ss)
  <1>1. \A n : Owed(q, v, n) = Owed(q, w, n)
    BY DEF Owed
  <1>2. LineInv(q, v, ss)
    BY DEF LinkInv, LineInv, Fed, Ordered
  <1>3. EntriesInv(q, v, ss)
    BY <1>1 DEF LinkInv, EntriesInv
  <1>4. LeaveInv(q, v, ss)
    BY DEF LeaveInv
  <1> QED
    BY <1>2, <1>3, <1>4 DEF LinkInv

LEMMA Rest ==
  ASSUME NEW s \in Seq(Nat), NEW k \in 0 .. Len(s)
  PROVE  /\ SubSeq(s, k + 1, Len(s)) \in Seq(Nat) /\ Len(SubSeq(s, k + 1, Len(s))) = Len(s) - k
         /\ \A i \in 1 .. Len(s) - k : SubSeq(s, k + 1, Len(s))[i] = s[k + i]
  <1>1. SubSeq(s, k + 1, Len(s)) = [i \in 1 .. Len(s) - k |-> s[i + k]]
    OBVIOUS
  <1>2. Len(SubSeq(s, k + 1, Len(s))) = Len(s) - k
    OBVIOUS
  <1>3. SubSeq(s, k + 1, Len(s)) \in Seq(Nat)
    OBVIOUS
  <1>4. \A i \in 1 .. Len(s) - k : SubSeq(s, k + 1, Len(s))[i] = s[k + i]
    OBVIOUS
  <1> QED
    BY <1>2, <1>3, <1>4

LEMMA WriteStep ==
  ASSUME AsyncInv, HandleWrite \/ ConnectCallbackReturns
  PROVE  AsyncInv'
  <1>1. pc \in {"loop", "onConnect"}
    BY DEF HandleWrite, ConnectCallbackReturns
  <1>2. /\ AsyncTypes /\ HistoryInv /\ ModeInv /\ WaitingGetsInv /\ LinkInv(Flight, Written, ssubs)
        /\ Newest \in Nat /\ Flight \in Seq(Messages) /\ Written \in Nat /\ Written <= Newest
    BY <1>1, InvParts
  <1>3. CASE Disconnected(TRUE, flags, "gone") /\ UNCHANGED server
    BY <1>1, <1>2, <1>3, Disconnects DEF AsyncTypes, Monitoring
  <1>4. CASE Disconnected(TRUE, Connected, "gone") /\ UNCHANGED server
    <2>1. /\ Connected \subseteq {"CONNECTED", "DISCONNECTING", "FREEING", "SUBSCRIBED", "MONITORING"}
          /\ "MONITORING" \in Connected <=> Monitoring
      BY <1>2 DEF Connected, AsyncTypes, Monitoring
    <2> QED
      BY <1>1, <1>4, <2>1, Disconnects
  <1>5. ASSUME NEW k \in 0 .. Len(obuf), sock # "failed",
               obuf' = SubSeq(obuf, k + 1, Len(obuf)),
               IF open THEN /\ ssubs' = Executed[k].subs /\ smon' = Executed[k].mon
                            /\ wire' = wire \o Executed[k].out
                       ELSE UNCHANGED <<ssubs, smon, wire>>,
               flags' = Connected, pc' = "loop",
               UNCHANGED <<err, replies, invalid, subs, inbuf, cb, user, open>>
        PROVE  AsyncInv'
    <2>1. /\ (Monitoring' <=> Monitoring) /\ (Subscribed' <=> Subscribed)
          /\ cmds' = cmds /\ got' = got /\ Newest' = Newest
      BY <1>5 DEF Monitoring, Subscribed, user, Newest, Connected
    <2>2. /\ obuf' \in Seq(Nat) /\ Len(obuf') = Len(obuf) - k /\ Len(obuf) \in Nat
          /\ \A i \in 1 .. Len(obuf') : obuf'[i] = obuf[k + i]
      <3>1. obuf \in Seq(Nat)
        BY <1>2 DEF AsyncTypes
      <3> QED
        BY <1>5, <3>1, Rest
    <2>3. Written' = Written + k
      BY <1>2, <2>1, <2>2 DEF Written
    <2>4. \A i \in 1 .. Len(obuf') : obuf'[i] = Written' + i
      <3> TAKE i \in 1 .. Len(obuf')
      <3>1. k + i \in 1 .. Len(obuf) /\ Written + (k + i) = (Written + k) + i
        BY <1>2, <2>2
      <3> QED
        BY <1>2, <2>2, <2>3, <3>1 DEF AsyncTypes
    <2>5. /\ ssubs' \subseteq Names /\ smon' \in BOOLEAN /\ wire' \in Seq(Messages)
          /\ (smon' => Monitoring) /\ LinkInv(Flight, Written, ssubs)'
      <3>1. CASE open
        <4>1. ServerAt(Executed[k], k)
          BY <1>2, <3>1, ExecuteMany
        <4>2. PICK a \in SUBSET Names, b \in BOOLEAN, c \in Seq(Messages) :
                /\ Executed[k] = [subs |-> a, mon |-> b, out |-> c]
                /\ b => Monitoring
                /\ LinkInv(Flight \o c, Written + k, a)
          BY <4>1 DEF ServerAt
        <4>3. ssubs' = a /\ smon' = b /\ wire' = wire \o c
          BY <1>5, <3>1, <4>2
        <4>4. inbuf \in Seq(Messages) /\ wire \in Seq(Messages)
          BY <1>2 DEF AsyncTypes
        <4>5. Flight' = Flight \o c /\ wire' \in Seq(Messages)
          <5>1. (inbuf \o wire) \o c = inbuf \o (wire \o c) /\ wire \o c \in Seq(Messages)
            BY <4>4, JoinedMany, SMTT(30)
          <5> QED
            BY <1>5, <4>3, <5>1 DEF Flight
        <4>6. LinkInv(Flight, Written, ssubs)'
          BY <1>5, <2>1, <2>3, <4>2, <4>3, <4>5, LinkFrame
        <4> QED
          BY <4>2, <4>3, <4>5, <4>6
      <3>2. CASE ~open
        <4>1. LinkInv(Flight, Written + k, ssubs)
          BY <1>2, <3>2, LinkClosed
        <4>2. Flight' = Flight /\ ssubs' = ssubs /\ smon' = smon /\ wire' = wire
          BY <1>5, <3>2 DEF Flight
        <4>3. LinkInv(Flight, Written, ssubs)'
          BY <1>5, <2>1, <2>3, <4>1, <4>2, LinkFrame
        <4> QED
          BY <1>2, <4>2, <4>3 DEF AsyncTypes, ModeInv
      <3> QED
        BY <3>1, <3>2
    <2>6. AsyncTypes'
      <3>1. Written' \in Nat /\ flags' \subseteq {"CONNECTED", "DISCONNECTING", "FREEING",
                                                  "SUBSCRIBED", "MONITORING"}
        BY <1>2, <1>5, <2>3 DEF AsyncTypes, Connected
      <3> QED
        BY <1>2, <1>5, <2>1, <2>2, <2>4, <2>5, <3>1 DEF AsyncTypes, Callbacks
    <2>7. HistoryInv'
      BY <1>2, <2>1, HistoryFrame
    <2>8. ModeInv' /\ WaitingGetsInv'
      BY <1>1, <1>2, <1>5, <2>1, <2>5 DEF ModeInv, WaitingGetsInv, Waits, IsRegular
    <2> QED
      BY <1>1, <1>5, <2>5, <2>6, <2>7, <2>8 DEF AsyncInv
  <1>6. CASE pc = "loop" /\ pc' = "onConnect" /\ flags' = Connected /\ err' = (sock = "failed")
             /\ UNCHANGED <<replies, invalid, subs, obuf, inbuf, cb, user, server>>
    <2>1. UNCHANGED <<cmds, got, ssubs, smon, open, wire, sock>> /\ Flight' = Flight
      BY <1>6 DEF user, server, Flight
    <2>2. /\ flags' \subseteq {"CONNECTED", "DISCONNECTING", "FREEING", "SUBSCRIBED", "MONITORING"}
          /\ (Subscribed' <=> Subscribed) /\ (Monitoring' <=> Monitoring)
      BY <1>2, <1>6 DEF AsyncTypes, Connected, Subscribed, Monitoring
    <2> QED
      BY <1>2, <1>6, <2>1, <2>2, Moves DEF AsyncTypes, ModeInv
  <1>7. CASE Write
    BY <1>3, <1>4, <1>5, <1>7 DEF Write
  <1> QED
    BY <1>6, <1>7 DEF HandleWrite, ConnectCallbackReturns

-----------------------------------------------------------------------------
(* The first message is taken.                                              *)

LEMMA SilenceTail ==
  ASSUME NEW q \in Seq(Messages), q # <<>>, NEW ss, SilenceInv(q, ss)
  PROVE  SilenceInv(Tail(q), ss)
  <1> DEFINE t == Tail(q)
  <1>1. /\ Len(t) = Len(q) - 1 /\ Len(q) \in Nat
        /\ \A i \in 1 .. Len(t) : t[i] = q[i + 1] /\ i + 1 \in 1 .. Len(q)
        /\ \A i \in 2 .. Len(q) : q[i] = t[i - 1] /\ i - 1 \in 1 .. Len(t)
    BY Shifted
  <1> HIDE DEF t
  <1>2. \A i \in 1 .. Len(t) : \A k, n : Says(t, i, k, n) <=> Says(q, i + 1, k, n)
    BY <1>1 DEF Says
  <1>3. ASSUME NEW i \in 1 .. Len(t), NEW j \in 1 .. Len(t), NEW n \in Names,
               i < j, Says(t, i, "unsubscribe", n),
               Says(t, j, "unsubscribe", n) \/ Says(t, j, "message", n)
        PROVE  \E k \in i + 1 .. j - 1 : Says(t, k, "subscribe", n)
    <2>1. i + 1 < j + 1 /\ i + 1 \in 1 .. Len(q) /\ j + 1 \in 1 .. Len(q)
      BY <1>1, <1>3
    <2>2. PICK k \in (i + 1) + 1 .. (j + 1) - 1 : Says(q, k, "subscribe", n)
      BY <1>2, <1>3, <2>1 DEF SilenceInv
    <2>3. k - 1 \in i + 1 .. j - 1 /\ k - 1 \in 1 .. Len(t) /\ (k - 1) + 1 = k
      BY <1>1, <1>3, <2>1
    <2> QED
      BY <1>2, <2>2, <2>3
  <1>4. ASSUME NEW i \in 1 .. Len(t), NEW n \in Names, open, n \in ss, Says(t, i, "unsubscribe", n)
        PROVE  \E k \in i + 1 .. Len(t) : Says(t, k, "subscribe", n)
    <2>1. PICK k \in (i + 1) + 1 .. Len(q) : Says(q, k, "subscribe", n)
      BY <1>1, <1>2, <1>4 DEF SilenceInv
    <2>2. k - 1 \in i + 1 .. Len(t) /\ k - 1 \in 1 .. Len(t) /\ (k - 1) + 1 = k
      BY <1>1
    <2> QED
      BY <1>2, <2>1, <2>2
  <1> QED
    BY <1>3, <1>4 DEF SilenceInv, t

\* What LeaveInv says of the messages alone.
LeftInv(q, ss) ==
  /\ \A i \in 1 .. Len(q), n \in Names : Says(q, i, "subscribe", n) =>
       n \in ss \/ \E j \in i + 1 .. Len(q) : Says(q, j, "unsubscribe", n)
  /\ \A i \in 1 .. Len(q) : q[i].kind = "unsubscribe" /\ q[i].left # 0 =>
       ss # {} \/ \E j \in i + 1 .. Len(q) : q[j].kind = "unsubscribe"

LEMMA LeftTail ==
  ASSUME NEW q \in Seq(Messages), q # <<>>, NEW ss, LeftInv(q, ss)
  PROVE  LeftInv(Tail(q), ss)
  <1> DEFINE t == Tail(q)
  <1>1. /\ Len(t) = Len(q) - 1 /\ Len(q) \in Nat
        /\ \A i \in 1 .. Len(t) : t[i] = q[i + 1] /\ i + 1 \in 1 .. Len(q)
        /\ \A i \in 2 .. Len(q) : q[i] = t[i - 1] /\ i - 1 \in 1 .. Len(t)
    BY Shifted
  <1> HIDE DEF t
  <1>2. \A i \in 1 .. Len(t) : \A k, n : Says(t, i, k, n) <=> Says(q, i + 1, k, n)
    BY <1>1 DEF Says
  <1>3. \A i \in 1 .. Len(t) : \A j \in (i + 1) + 1 .. Len(q) :
          j - 1 \in i + 1 .. Len(t) /\ j - 1 \in 1 .. Len(t) /\ (j - 1) + 1 = j
    BY <1>1
  <1>4. ASSUME NEW i \in 1 .. Len(t), NEW n \in Names, Says(t, i, "subscribe", n), n \notin ss
        PROVE  \E j \in i + 1 .. Len(t) : Says(t, j, "unsubscribe", n)
    <2>1. PICK j \in (i + 1) + 1 .. Len(q) : Says(q, j, "unsubscribe", n)
      BY <1>1, <1>2, <1>4 DEF LeftInv
    <2>2. j - 1 \in i + 1 .. Len(t) /\ j - 1 \in 1 .. Len(t) /\ (j - 1) + 1 = j
      BY <1>3
    <2> QED
      BY <1>2, <2>1, <2>2
  <1>5. ASSUME NEW i \in 1 .. Len(t), t[i].kind = "unsubscribe", t[i].left # 0, ss = {}
        PROVE  \E j \in i + 1 .. Len(t) : t[j].kind = "unsubscribe"
    <2>1. PICK j \in (i + 1) + 1 .. Len(q) : q[j].kind = "unsubscribe"
      BY <1>1, <1>5 DEF LeftInv
    <2> QED
      BY <1>1, <1>3, <2>1
  <1> QED
    BY <1>4, <1>5 DEF LeftInv, t

LEMMA PlainTail ==
  ASSUME AsyncTypes, NEW q \in Seq(Messages), q # <<>>, q[1].kind \notin Asks,
         NEW w \in Nat, NEW ss,
         EntriesInv(q, w, ss), SilenceInv(q, ss), LeaveInv(q, w, ss)
  PROVE  EntriesInv(Tail(q), w, ss) /\ SilenceInv(Tail(q), ss) /\ LeaveInv(Tail(q), w, ss)
  <1> DEFINE t == Tail(q)
  <1>1. /\ Len(t) = Len(q) - 1 /\ Len(q) \in Nat
        /\ \A i \in 1 .. Len(t) : t[i] = q[i + 1] /\ i + 1 \in 1 .. Len(q)
        /\ \A i \in 2 .. Len(q) : q[i] = t[i - 1] /\ i - 1 \in 1 .. Len(t)
    BY Shifted
  <1>2. SilenceInv(t, ss)
    BY SilenceTail
  <1>3. \A n : Owed(t, w, n) = Owed(q, w, n)
    <2> TAKE n
    <2>1. ~Says(q, 1, "subscribe", n)
      BY DEF Says, Asks
    <2>2. Cardinality(Confirms(t, n)) = Cardinality(Confirms(q, n)) - 0
      BY <2>1, ConfirmsTail
    <2>3. Cardinality(Confirms(t, n)) = Cardinality(Confirms(q, n))
      BY <2>2, ConfirmsFinite
    <2> QED
      BY <2>3 DEF Owed
  <1>4. LeaveInv(q, w, ss) /\ MaxNames = 1 /\ open => LeftInv(t, ss)
    BY LeftTail DEF LeaveInv, LeftInv
  <1> HIDE DEF t
  <1>5. EntriesInv(t, w, ss)
    BY <1>1, <1>3 DEF EntriesInv
  <1>6. LeaveInv(t, w, ss)
    <2> SUFFICES ASSUME MaxNames = 1, open PROVE LeaveInv(t, w, ss)
      BY DEF LeaveInv
    <2>1. ASSUME NEW i \in 1 .. Len(q), NEW n, Says(q, i, "unsubscribe", n)
          PROVE  \E j \in 1 .. Len(t) : Says(t, j, "unsubscribe", n)
      <3>1. i # 1
        BY <2>1 DEF Says, Asks
      <3>2. i \in 2 .. Len(q)
        BY <1>1, <3>1
      <3> QED
        BY <1>1, <2>1, <3>2 DEF Says
    <2> QED
      BY <1>3, <1>4, <2>1 DEF LeaveInv, LeftInv
  <1> QED
    BY <1>2, <1>5, <1>6 DEF t
-----------------------------------------------------------------------------
(* A callback is run.                                                       *)

LEMMA FirstOfFlight ==
  ASSUME AsyncTypes, inbuf # <<>>
  PROVE  /\ Flight \in Seq(Messages) /\ Flight # <<>> /\ ReplyOf = Flight[1]
         /\ Tail(inbuf) \in Seq(Messages) /\ Tail(inbuf) \o wire = Tail(Flight)
  <1>1. inbuf \in Seq(Messages) /\ wire \in Seq(Messages)
    BY DEF AsyncTypes
  <1>2. /\ inbuf \o wire \in Seq(Messages) /\ inbuf \o wire # <<>>
        /\ Head(inbuf) = (inbuf \o wire)[1]
        /\ Tail(inbuf) \in Seq(Messages) /\ Tail(inbuf) \o wire = Tail(inbuf \o wire)
    BY <1>1
  <1> QED
    BY <1>2 DEF Flight, ReplyOf

\* What Run says of a callback that is not of a regular command, or of one that is.
LEMMA RunIs ==
  ASSUME AsyncTypes, NEW c, NEW r, Run(c, r), c.id = 0 \/ Fits(c, r)
  PROVE  /\ cb' = c /\ inbuf' = Tail(inbuf) /\ pc' \in {"process", "callback"}
         /\ UNCHANGED <<err, obuf, cmds, server>>
         /\ got' = IF c.id # 0 /\ IsRegular(c.id) THEN [got EXCEPT ![c.id] = Append(@, "own")]
                                                  ELSE got
  BY DEF Run

\* A monitor's callback may take all that can arrive.
LEMMA MonitorFits ==
  ASSUME AsyncInv, pc # "gone", Monitoring, inbuf # <<>>, NEW c, c.id \in {0, Newest}
  PROVE  /\ c.id = 0 \/ Fits(c, ReplyOf)
         /\ ~(c.id # 0 /\ IsRegular(c.id))
         /\ ReplyOf.kind \notin Asks
         /\ LinkInv(Tail(Flight), Written, ssubs)
  <1>1. AsyncTypes /\ HistoryInv /\ LinkInv(Flight, Written, ssubs) /\ Written \in Nat
    BY InvParts
  <1>2. Flight \in Seq(Messages) /\ Flight # <<>> /\ ReplyOf = Flight[1]
    BY <1>1, FirstOfFlight
  <1>3. Fed(Flight, Written, ssubs)
    BY <1>1 DEF LinkInv, LineInv
  <1>4. ReplyOf \in {Reply("value", Newest), Reply("error", 0), [kind |-> "feed"]}
    BY <1>2, <1>3 DEF Fed
  <1>5. cmds[Newest].kind = "monitor"
    BY <1>1 DEF HistoryInv
  <1>6. c.id = 0 \/ Fits(c, ReplyOf)
    BY <1>4, <1>5 DEF Fits, Reply
  <1>7. ReplyOf.kind \notin Asks
    BY <1>4 DEF Reply, Asks
  <1>8. Fed(Tail(Flight), Written, ssubs)
    BY <1>2, <1>3, Shifted DEF Fed
  <1>9. LinkInv(Tail(Flight), Written, ssubs)
    BY <1>1, <1>2, <1>7, <1>8, PlainTail DEF LinkInv, LineInv
  <1> QED
    BY <1>5, <1>6, <1>7, <1>9 DEF IsRegular

\* A step with a reply for a monitor, which changes the list of replies at most.
LEMMA MonitorTakes ==
  ASSUME AsyncInv, pc = "process", Monitoring, inbuf # <<>>,
         NEW c \in Callbacks(Newest), c.id \in {0, Newest}, Run(c, ReplyOf),
         UNCHANGED <<flags, invalid, subs>>,
         replies' \in Seq(Callbacks(Newest)),
         \A i \in 1 .. Len(replies') : replies'[i].id \in {0, Newest}
  PROVE  AsyncInv'
  <1>1. /\ AsyncTypes /\ HistoryInv /\ ModeInv /\ WaitingGetsInv /\ Newest \in Nat
    BY InvParts
  <1>2. /\ c.id = 0 \/ Fits(c, ReplyOf)
        /\ ~(c.id # 0 /\ IsRegular(c.id))
        /\ LinkInv(Tail(Flight), Written, ssubs)
    BY MonitorFits
  <1>3. /\ cb' = c /\ inbuf' = Tail(inbuf) /\ pc' \in {"process", "callback"}
        /\ UNCHANGED <<err, obuf, cmds, server>> /\ got' = got
    BY <1>1, <1>2, RunIs
  <1>4. UNCHANGED <<wire, open, ssubs, smon>>
    BY <1>3 DEF server
  <1>5. /\ (Monitoring' <=> Monitoring) /\ (Subscribed' <=> Subscribed)
        /\ Newest' = Newest /\ Written' = Written
    BY <1>3 DEF Monitoring, Subscribed, Newest, Written
  <1>6. Flight' = Tail(Flight) /\ inbuf' \in Seq(Messages)
    BY <1>1, <1>3, <1>4, FirstOfFlight DEF Flight
  <1>7. AsyncTypes'
    BY <1>1, <1>3, <1>4, <1>5, <1>6 DEF AsyncTypes, Callbacks
  <1>8. HistoryInv' /\ ModeInv'
    BY <1>1, <1>3, <1>4, <1>5, HistoryFrame DEF ModeInv
  <1>9. WaitingGetsInv'
    <2>1. ASSUME NEW id \in 1 .. Newest, cmds[id].kind = "get"
          PROVE  ~Waits(id) /\ ~Waits(id)'
      <3>1. id # 0 /\ id # Newest
        BY <1>1, <2>1 DEF HistoryInv
      <3> QED
        BY <1>1, <3>1 DEF Waits, WaitingGetsInv
    <2> QED
      BY <1>1, <1>3, <1>5, <2>1 DEF WaitingGetsInv
  <1>10. LinkInv(Flight, Written, ssubs)'
    BY <1>2, <1>3, <1>4, <1>5, <1>6, LinkFrame
  <1> QED
    BY <1>3, <1>7, <1>8, <1>9, <1>10 DEF AsyncInv

LEMMA MonitorStep ==
  ASSUME AsyncInv, ProcessMonitor
  PROVE  AsyncInv'
  <1>1. /\ pc = "process" /\ inbuf # <<>> /\ replies = <<>> /\ ReplyOf.kind # "error"
        /\ ~Subscribed /\ UNCHANGED <<flags, replies, invalid, subs>>
    BY DEF ProcessMonitor, Unasked, InTurn, Subscribed
  <1>2. /\ AsyncTypes /\ ModeInv /\ WaitingGetsInv /\ LinkInv(Flight, Written, ssubs)
    BY <1>1, InvParts
  <1>3. Monitoring
    <2>1. SUFFICES ASSUME ~Monitoring PROVE FALSE
      OBVIOUS
    <2>2. Flight \in Seq(Messages) /\ Flight # <<>> /\ ReplyOf = Flight[1]
      BY <1>1, <1>2, FirstOfFlight
    <2>3. DOMAIN subs = {}
      BY <1>1, <1>2 DEF ModeInv
    <2>4. Flight # <<Reply("error", 0)>>
      BY <1>1, <2>2 DEF Reply
    <2>5. PICK g \in 0 .. Len(Flight) : Ordered(Flight, Written, ssubs, g)
      BY <1>2, <2>1, <2>4 DEF LinkInv, LineInv
    <2>6. 1 \in g + 1 .. Len(Flight) /\ 1 \in 1 .. Len(Flight)
      BY <1>1, <2>2, <2>5 DEF Ordered
    <2> QED
      BY <1>2, <2>3, <2>5, <2>6 DEF Ordered, LinkInv, EntriesInv
  <1>4. Run(cb, ReplyOf)
    BY <1>3 DEF ProcessMonitor, Monitoring
  <1> QED
    BY <1>1, <1>2, <1>3, <1>4, MonitorTakes DEF AsyncTypes, WaitingGetsInv

LEMMA RegularStep ==
  ASSUME AsyncInv, ProcessRegular
  PROVE  AsyncInv'
  <1> DEFINE c == replies[1]
             r == ReplyOf
             q == Flight
             t == Tail(Flight)
             N == Len(replies)
  <1>1. /\ pc = "process" /\ inbuf # <<>> /\ replies # <<>> /\ Run(Head(replies), ReplyOf)
        /\ replies' = Tail(replies) /\ UNCHANGED <<flags, invalid, subs>>
    BY DEF ProcessRegular, InTurn, NextCallback
  <1>2. /\ AsyncTypes /\ HistoryInv /\ ModeInv /\ WaitingGetsInv /\ LinkInv(Flight, Written, ssubs)
        /\ Newest \in Nat /\ Written \in Nat
    BY <1>1, InvParts
  <1>3. /\ Head(replies) = c /\ c \in Callbacks(Newest) /\ N \in Nat \ {0} /\ 1 \in 1 .. N
        /\ replies' \in Seq(Callbacks(Newest)) /\ Len(replies') = N - 1
        /\ \A i \in 1 .. N - 1 : replies'[i] = replies[i + 1] /\ i + 1 \in 1 .. N
        /\ \A i \in 2 .. N : i - 1 \in 1 .. N - 1 /\ replies[i] = replies'[i - 1]
    <2>1. replies \in Seq(Callbacks(Newest))
      BY <1>2 DEF AsyncTypes
    <2> QED
      BY <1>1, <2>1
  <1>4. CASE Monitoring
    BY <1>1, <1>2, <1>3, <1>4, MonitorTakes DEF WaitingGetsInv
  <1>5. CASE ~Monitoring
    <2>1. /\ q \in Seq(Messages) /\ q # <<>> /\ r = q[1]
          /\ Tail(inbuf) \in Seq(Messages) /\ Tail(inbuf) \o wire = t
      BY <1>1, <1>2, FirstOfFlight
    <2>2. /\ t \in Seq(Messages) /\ Len(t) = Len(q) - 1 /\ Len(q) \in Nat \ {0}
          /\ \A i \in 1 .. Len(q) - 1 : t[i] = q[i + 1] /\ i + 1 \in 2 .. Len(q)
      BY <2>1, Shifted
    <2>3. c.id \in 1 .. Newest /\ IsRegular(c.id)
      BY <1>2, <1>3, <1>5 DEF WaitingGetsInv, Callbacks
    <2> HIDE DEF c, q, t, N, r
    <2>4. /\ Fits(c, r) /\ r.kind \notin Asks
          /\ \/ t = <<>> /\ ~open
             \/ \E g \in 1 .. Len(q) : Ordered(q, Written, ssubs, g)
      <3>1. CASE q = <<Reply("error", 0)>> /\ ~open
        <4>1. r = Reply("error", 0) /\ Len(q) = 1
          BY <2>1, <3>1
        <4>2. t = <<>>
          BY <2>2, <4>1
        <4> QED
          BY <3>1, <4>1, <4>2 DEF Fits, Reply, Asks
      <3>2. CASE \E g \in 0 .. Len(q) : Ordered(q, Written, ssubs, g)
        <4>1. PICK g \in 0 .. Len(q) : Ordered(q, Written, ssubs, g)
          BY <3>2
        <4>2. g # 0 /\ 1 \in 1 .. g
          <5>1. g # 0
            BY <1>3, <2>2, <4>1 DEF Ordered, N
          <5> QED
            BY <2>2, <4>1, <5>1
        <4>3. q[1] = Reply("value", c.id)
          BY <4>1, <4>2 DEF Ordered, c
        <4> QED
          BY <2>1, <4>1, <4>2, <4>3 DEF Fits, Reply, Asks
      <3> QED
        BY <1>2, <1>5, <3>1, <3>2 DEF LinkInv, LineInv, q
    <2>5. /\ cb' = c /\ inbuf' = Tail(inbuf) /\ pc' \in {"process", "callback"}
          /\ UNCHANGED <<err, obuf, cmds, server>>
          /\ got' = [got EXCEPT ![c.id] = Append(@, "own")]
      <3>1. c.id # 0 /\ Run(c, r)
        BY <1>1, <1>3, <2>3 DEF r
      <3> QED
        BY <1>2, <2>3, <2>4, <3>1, RunIs
    <2>6. UNCHANGED <<wire, open, ssubs, smon>>
      BY <2>5 DEF server
    <2>7. /\ (Monitoring' <=> Monitoring) /\ (Subscribed' <=> Subscribed)
          /\ Newest' = Newest /\ Written' = Written
      BY <1>1, <2>5 DEF Monitoring, Subscribed, Newest, Written
    <2>8. Flight' = t /\ inbuf' \in Seq(Messages)
      BY <2>1, <2>5, <2>6 DEF Flight
    <2>9. got'[c.id] = <<"own">> /\ \A id \in 1 .. Newest : id # c.id => got'[id] = got[id]
      <3>1. got[c.id] = <<>> /\ DOMAIN got = 1 .. Newest
        <4>1. Waits(c.id)
          BY <1>3 DEF Waits, N, c
        <4> QED
          BY <1>2, <2>3, <4>1 DEF WaitingGetsInv, AsyncTypes
      <3>2. Append(<<>>, "own") = <<"own">>
        OBVIOUS
      <3> QED
        BY <2>3, <2>5, <3>1, <3>2
    <2>10. got' \in Seq(Seq({"own", "null", "other"})) /\ Len(got') = Newest
      <3> DEFINE A == Seq({"own", "null", "other"})
      <3>1. got \in Seq(A) /\ Len(got) = Newest /\ <<"own">> \in A
        BY <1>2 DEF AsyncTypes
      <3> HIDE DEF A
      <3>2. got' = [got EXCEPT ![c.id] = got'[c.id]]
        BY <2>3, <2>5, <3>1
      <3>3. got' \in Seq(A) /\ Len(got') = Newest
        BY <2>3, <2>9, <3>1, <3>2, SMTT(30)
      <3> QED
        BY <3>3 DEF A
    <2>11. AsyncTypes'
      BY <1>1, <1>2, <1>3, <2>5, <2>6, <2>7, <2>8, <2>10 DEF AsyncTypes, Callbacks
    <2>12. HistoryInv' /\ ModeInv'
      BY <1>1, <1>2, <2>5, <2>6, <2>7, HistoryFrame DEF ModeInv
    <2>13. WaitingGetsInv'
      <3>1. \A i \in 1 .. N - 1 : replies'[i].id >= 1 /\ IsRegular(replies'[i].id)
        BY <1>2, <1>3, <1>5 DEF WaitingGetsInv, N
      <3>2. \A i, j \in 1 .. N - 1 : i < j => replies'[i].id < replies'[j].id
        <4> TAKE i, j \in 1 .. N - 1
        <4>1. i < j => i + 1 < j + 1
          OBVIOUS
        <4> QED
          BY <1>2, <1>3, <1>5, <4>1 DEF WaitingGetsInv, N
      <3>3. ASSUME NEW id \in 1 .. Newest
            PROVE  Waits(id)' <=> Waits(id) /\ id # c.id
        <4>1. ASSUME NEW i \in 1 .. N - 1, replies'[i].id = id
              PROVE  Waits(id) /\ id # c.id
          <5>1. replies[i + 1].id = id /\ i + 1 \in 1 .. N /\ 1 < i + 1
            BY <1>3, <4>1
          <5>2. c.id < replies[i + 1].id
            BY <1>2, <1>3, <1>5, <5>1 DEF WaitingGetsInv, N, c
          <5> QED
            BY <2>3, <3>3, <5>1, <5>2 DEF Waits, N
        <4>2. ASSUME NEW i \in 1 .. N, replies[i].id = id, id # c.id
              PROVE  \E j \in 1 .. N - 1 : replies'[j].id = id
          <5>1. i \in 2 .. N
            BY <1>3, <4>2 DEF c
          <5> QED
            BY <1>3, <4>2, <5>1
        <4> QED
          BY <1>3, <4>1, <4>2 DEF Waits, N
      <3>4. \A id \in 1 .. Newest :
              got'[id] = IF cmds[id].kind = "get" /\ ~Waits(id)' THEN <<"own">> ELSE <<>>
        BY <1>2, <2>3, <2>9, <3>3 DEF WaitingGetsInv, IsRegular
      <3> QED
        BY <1>3, <1>5, <2>5, <2>7, <3>1, <3>2, <3>4 DEF WaitingGetsInv, IsRegular
    <2>14. LineInv(Flight, Written, ssubs)'
      <3>1. CASE t = <<>> /\ ~open
        <4>1. Ordered(Flight, Written, ssubs, 0)' /\ 0 \in 0 .. Len(Flight')
          BY <1>3, <2>6, <2>8, <3>1 DEF Ordered
        <4> QED
          BY <1>5, <2>7, <4>1 DEF LineInv
      <3>2. CASE \E g \in 1 .. Len(q) : Ordered(q, Written, ssubs, g)
        <4>1. PICK g \in 1 .. Len(q) : Ordered(q, Written, ssubs, g)
          BY <3>2
        <4>2. /\ g <= N /\ \A i \in 1 .. g : q[i] = Reply("value", replies[i].id)
              /\ \A i \in g + 1 .. Len(q) : q[i].kind \in Told
              /\ g < Len(q) => N = g
          BY <4>1 DEF Ordered, N
        <4>3. /\ g - 1 <= N - 1 /\ g - 1 \in 0 .. Len(t)
              /\ g - 1 < Len(t) => N - 1 = g - 1
          BY <1>3, <2>2, <4>2
        <4>4. \A i \in 1 .. g - 1 : t[i] = Reply("value", replies'[i].id)
          <5> TAKE i \in 1 .. g - 1
          <5>1. i + 1 \in 1 .. g /\ i \in 1 .. Len(q) - 1 /\ i \in 1 .. N - 1
            BY <1>3, <2>2, <4>2
          <5> QED
            BY <1>3, <2>2, <4>2, <5>1
        <4>5. \A i \in (g - 1) + 1 .. Len(t) : t[i].kind \in Told
          <5> TAKE i \in (g - 1) + 1 .. Len(t)
          <5>1. i + 1 \in g + 1 .. Len(q) /\ i \in 1 .. Len(q) - 1
            BY <2>2, <4>2
          <5> QED
            BY <2>2, <4>2, <5>1
        <4>6. ASSUME open
              PROVE  /\ (N - 1) - (g - 1) <= Newest - Written
                     /\ \A i \in (g - 1) + 1 .. N - 1 : replies'[i].id = Written + (i - (g - 1))
                     /\ \A id \in Written + ((N - 1) - (g - 1)) + 1 .. Newest : cmds[id].kind \in Asks
                     /\ ssubs # {} => N - 1 = g - 1
          <5>1. (N - 1) - (g - 1) = N - g
            BY <1>3, <4>2
          <5>2. \A i \in (g - 1) + 1 .. N - 1 :
                  /\ i + 1 \in g + 1 .. N /\ i \in 1 .. N - 1
                  /\ Written + ((i + 1) - g) = Written + (i - (g - 1))
            BY <1>2, <1>3, <4>2
          <5>3. \A i \in g + 1 .. N : replies[i].id = Written + (i - g)
            BY <4>1, <4>6 DEF Ordered, N
          <5>4. \A i \in (g - 1) + 1 .. N - 1 : replies'[i].id = Written + (i - (g - 1))
            BY <1>3, <5>2, <5>3
          <5> QED
            BY <1>3, <4>1, <4>6, <5>1, <5>4 DEF Ordered, N
        <4>7. Ordered(Flight, Written, ssubs, g - 1)'
          BY <1>3, <2>5, <2>6, <2>7, <2>8, <4>3, <4>4, <4>5, <4>6 DEF Ordered, Reply
        <4> QED
          BY <1>5, <2>7, <2>8, <4>3, <4>7 DEF LineInv
      <3> QED
        BY <2>4, <3>1, <3>2
    <2>15. /\ EntriesInv(Flight, Written, ssubs)' /\ SilenceInv(Flight, ssubs)'
           /\ LeaveInv(Flight, Written, ssubs)'
      <3>1. EntriesInv(t, Written, ssubs) /\ SilenceInv(t, ssubs) /\ LeaveInv(t, Written, ssubs)
        BY <1>2, <2>1, <2>4, PlainTail DEF LinkInv, q, t
      <3> QED
        BY <1>1, <2>5, <2>6, <2>7, <2>8, <3>1, PartsFrame
    <2> QED
      BY <2>5, <2>11, <2>12, <2>13, <2>14, <2>15 DEF AsyncInv, LinkInv
  <1> QED
    BY <1>4, <1>5

LEMMA EndStep ==
  ASSUME AsyncInv, ProcessEnd
  PROVE  AsyncInv'
  <1>1. pc = "process" /\ inbuf = <<>> /\ UNCHANGED server
    BY DEF ProcessEnd
  <1>2. /\ AsyncTypes /\ HistoryInv /\ ModeInv /\ WaitingGetsInv /\ LinkInv(Flight, Written, ssubs)
        /\ Newest \in Nat
    BY <1>1, InvParts
  <1>3. CASE "DISCONNECTING" \in flags /\ Drained
    <2>1. Disconnected(err, flags, "gone") /\ err \in BOOLEAN /\ replies = <<>>
      BY <1>2, <1>3 DEF ProcessEnd, Drained, AsyncTypes
    <2> QED
      BY <1>1, <1>2, <2>1, Disconnects DEF AsyncTypes, Monitoring
  <1>4. CASE ~("DISCONNECTING" \in flags /\ Drained)
    <2>1. /\ replies' = IF Monitoring THEN Append(replies, cb) ELSE replies
          /\ pc' = "loop"
          /\ UNCHANGED <<flags, err, invalid, subs, obuf, inbuf, cb, user>>
      BY <1>4 DEF ProcessEnd, Monitoring
    <2>2. UNCHANGED <<cmds, got, ssubs, smon, open, wire, sock>> /\ Flight' = Flight
          /\ Newest' = Newest /\ Written' = Written
          /\ (Monitoring' <=> Monitoring) /\ (Subscribed' <=> Subscribed)
      BY <1>1, <2>1 DEF user, server, Flight, Newest, Written, Monitoring, Subscribed
    <2>3. CASE ~Monitoring
      BY <1>1, <1>2, <2>1, <2>2, <2>3, Moves DEF AsyncTypes, ModeInv
    <2>4. CASE Monitoring
      <3>1. /\ replies' \in Seq(Callbacks(Newest)) /\ Len(replies') = Len(replies) + 1
            /\ Len(replies) \in Nat
            /\ \A i \in 1 .. Len(replies) : replies'[i] = replies[i]
            /\ replies'[Len(replies) + 1] = cb
        BY <1>2, <2>1, <2>4 DEF AsyncTypes
      <3>2. \A i \in 1 .. Len(replies') : replies'[i].id \in {0, Newest}
        <4>1. \A i \in 1 .. Len(replies') : i \in 1 .. Len(replies) \/ i = Len(replies) + 1
          BY <3>1
        <4> QED
          BY <1>1, <1>2, <2>4, <3>1, <4>1 DEF WaitingGetsInv
      <3>3. AsyncTypes'
        BY <1>2, <2>1, <2>2, <3>1 DEF AsyncTypes, Callbacks
      <3>4. HistoryInv' /\ ModeInv'
        BY <1>1, <1>2, <2>1, <2>2, HistoryFrame DEF ModeInv
      <3>5. WaitingGetsInv'
        <4>1. ASSUME NEW id \in 1 .. Newest, cmds[id].kind = "get"
              PROVE  ~Waits(id) /\ ~Waits(id)'
          <5>1. id # 0 /\ id # Newest
            BY <1>2, <2>4, <4>1 DEF HistoryInv
          <5> QED
            BY <1>2, <2>4, <3>2, <5>1 DEF Waits, WaitingGetsInv
        <4> QED
          BY <1>2, <2>1, <2>2, <2>4, <3>2, <4>1 DEF WaitingGetsInv
      <3>6. LinkInv(Flight, Written, ssubs)'
        BY <1>2, <2>1, <2>2, <2>4, LinkFrame
      <3> QED
        BY <2>1, <3>3, <3>4, <3>5, <3>6 DEF AsyncInv
    <2> QED
      BY <2>3, <2>4
  <1> QED
    BY <1>3, <1>4
-----------------------------------------------------------------------------
(* A message about a subscription.                                          *)

LEMMA CountsFrame ==
  ASSUME UNCHANGED <<cmds, open>>, NEW q, NEW w, Flight' = q, Written' = w
  PROVE  /\ Newest' = Newest /\ Wanted(Written)' = Wanted(w)
         /\ \A i, n : Subscribes(i, n)' <=> Subscribes(i, n)
         /\ \A n : Unsent(Written, n)' = Unsent(w, n) /\ Owed(Flight, Written, n)' = Owed(q, w, n)
  <1>1. Newest' = Newest
    BY DEF Newest
  <1>2. \A i, n : (Subscribes(i, n)' <=> Subscribes(i, n)) /\ (Unsubscribes(i, n)' <=> Unsubscribes(i, n))
    BY DEF Subscribes, Unsubscribes
  <1>3. Wanted(Written)' = Wanted(w)
    BY <1>2 DEF Wanted
  <1>4. \A n : Unsent(Written, n)' = Unsent(w, n)
    BY <1>1, <1>2 DEF Unsent
  <1>5. \A n : Confirms(Flight, n)' = Confirms(q, n)
    BY DEF Confirms, Says
  <1>6. \A n : Owed(Flight, Written, n)' = Owed(q, w, n)
    BY <1>4, <1>5 DEF Owed
  <1> QED
    BY <1>1, <1>2, <1>3, <1>4, <1>6

\* A name that is owed nothing is not about to be confirmed.
LEMMA OwedNothing ==
  ASSUME AsyncTypes, NEW q \in Seq(Messages), NEW w \in Nat, NEW n, Owed(q, w, n) = 0
  PROVE  Confirms(q, n) = {} /\ (open => Unsent(w, n) = {})
  <1>1. /\ IsFiniteSet(Confirms(q, n)) /\ Cardinality(Confirms(q, n)) \in Nat
        /\ IsFiniteSet(Unsent(w, n)) /\ Cardinality(Unsent(w, n)) \in Nat
    BY ConfirmsFinite, UnsentFinite
  <1>2. Cardinality(Confirms(q, n)) = 0 /\ (open => Cardinality(Unsent(w, n)) = 0)
    BY <1>1 DEF Owed
  <1> QED
    BY <1>1, <1>2, FS_EmptySet

LEMMA OwedSomething ==
  ASSUME AsyncTypes, NEW q \in Seq(Messages), NEW w \in Nat, NEW n, Owed(q, w, n) # 0
  PROVE  Confirms(q, n) # {} \/ (open /\ Unsent(w, n) # {})
  <1>1. Cardinality({}) = 0
    BY FS_EmptySet
  <1>2. SUFFICES ASSUME Confirms(q, n) = {}, open => Unsent(w, n) = {} PROVE FALSE
    OBVIOUS
  <1>3. Cardinality(Confirms(q, n)) = 0 /\ (open => Cardinality(Unsent(w, n)) = 0)
    BY <1>1, <1>2
  <1>4. Owed(q, w, n) = 0
    BY <1>3 DEF Owed
  <1> QED
    BY <1>4

LEMMA OwedTail ==
  ASSUME AsyncTypes, NEW q \in Seq(Messages), q # <<>>, NEW w \in Nat, NEW n
  PROVE  /\ Owed(Tail(q), w, n) = Owed(q, w, n) - IF Says(q, 1, "subscribe", n) THEN 1 ELSE 0
         /\ Owed(Tail(q), w, n) \in Nat /\ Owed(q, w, n) \in Nat
  <1>1. /\ Cardinality(Confirms(Tail(q), n))
             = Cardinality(Confirms(q, n)) - IF Says(q, 1, "subscribe", n) THEN 1 ELSE 0
        /\ Cardinality(Confirms(q, n)) \in Nat /\ Cardinality(Unsent(w, n)) \in Nat
    BY ConfirmsTail, ConfirmsFinite, UnsentFinite
  <1>2. Tail(q) \in Seq(Messages)
    BY Shifted
  <1>3. Owed(Tail(q), w, n) \in Nat /\ Owed(q, w, n) \in Nat
    BY <1>2, OwedNat
  <1> QED
    BY <1>1, <1>3 DEF Owed

\* What ProcessPubSub does: n is the name, p its count afterwards.
Leaving(r, p) == r.kind = "unsubscribe" /\ p = 0

EntryTaken(r, p) ==
  /\ p = subs[r.name].pending - IF r.kind = "subscribe" THEN 1 ELSE 0
  /\ DOMAIN subs' = IF Leaving(r, p) THEN DOMAIN subs \ {r.name} ELSE DOMAIN subs
  /\ \A m \in DOMAIN subs' : subs'[m] = IF m = r.name THEN [id |-> subs[m].id, pending |-> p]
                                                     ELSE subs[m]
  /\ flags' = IF r.kind = "unsubscribe" /\ r.left = 0 /\ DOMAIN subs' = {}
              THEN flags \ {"SUBSCRIBED"} ELSE flags

LEMMA PubSubIs ==
  ASSUME AsyncInv, ProcessPubSub
  PROVE  /\ pc = "process" /\ inbuf # <<>> /\ Subscribed /\ ~Monitoring /\ replies = <<>>
         /\ Flight[1].kind \in Told /\ Flight[1].name \in DOMAIN subs
         /\ Ordered(Flight, Written, ssubs, 0)
         /\ \E p : /\ EntryTaken(Flight[1], p)
                   /\ Run([id |-> subs[Flight[1].name].id, pending |-> p], Flight[1])
         /\ UNCHANGED <<replies, invalid>>
  <1>1. /\ pc = "process" /\ inbuf # <<>> /\ Subscribed /\ replies = <<>> /\ ReplyOf.kind # "error"
        /\ UNCHANGED replies
    BY DEF ProcessPubSub, Unasked, InTurn, Subscribed
  <1>2. /\ AsyncTypes /\ ModeInv /\ LinkInv(Flight, Written, ssubs) /\ Written \in Nat
    BY <1>1, InvParts
  <1>3. /\ ~Monitoring /\ Flight \in Seq(Messages) /\ Flight # <<>> /\ ReplyOf = Flight[1]
        /\ Len(Flight) \in Nat \ {0} /\ 1 \in 1 .. Len(Flight) /\ Flight[1] \in Messages
    BY <1>1, <1>2, FirstOfFlight, Shifted DEF ModeInv
  <1>4. Ordered(Flight, Written, ssubs, 0)
    <2>1. Flight # <<Reply("error", 0)>>
      BY <1>1, <1>3 DEF Reply
    <2>2. PICK g \in 0 .. Len(Flight) : Ordered(Flight, Written, ssubs, g)
      BY <1>2, <1>3, <2>1 DEF LinkInv, LineInv
    <2>3. g = 0
      BY <1>1, <2>2 DEF Ordered
    <2> QED
      BY <2>2, <2>3
  <1>5. Flight[1].kind \in Told
    BY <1>3, <1>4 DEF Ordered
  <1>6. Flight[1].name \in DOMAIN subs
    BY <1>2, <1>3, <1>5 DEF LinkInv, EntriesInv
  <1> DEFINE r == ReplyOf
             p == subs[r.name].pending - IF r.kind = "subscribe" THEN 1 ELSE 0
             e == [subs[r.name] EXCEPT !.pending = IF r.kind = "subscribe" THEN @ - 1 ELSE @]
             s == IF r.kind = "unsubscribe" /\ LastOf(e)
                  THEN [n \in DOMAIN subs \ {r.name} |-> subs[n]]
                  ELSE [subs EXCEPT ![r.name] = e]
  <1>7. /\ subs' = s
        /\ flags' = IF r.kind = "unsubscribe" /\ r.left = 0 /\ DOMAIN s = {}
                    THEN flags \ {"SUBSCRIBED"} ELSE flags
        /\ Run(e, r) /\ UNCHANGED invalid
    BY <1>3, <1>5, <1>6 DEF ProcessPubSub, Told
  <1>8. e = [id |-> subs[r.name].id, pending |-> p]
    <2>1. subs[r.name] \in Callbacks(Newest)
      BY <1>2, <1>3, <1>6 DEF AsyncTypes
    <2>2. /\ subs[r.name].pending \in Int
          /\ subs[r.name] = [id |-> subs[r.name].id, pending |-> subs[r.name].pending]
      BY <1>2, <2>1 DEF Callbacks, AsyncTypes, Newest
    <2> QED
      BY <2>2
  <1>9. Leaving(r, p) <=> r.kind = "unsubscribe" /\ LastOf(e)
    BY <1>8 DEF Leaving, LastOf
  <1> HIDE DEF e, p
  <1>10. /\ DOMAIN subs' = IF Leaving(r, p) THEN DOMAIN subs \ {r.name} ELSE DOMAIN subs
         /\ \A m \in DOMAIN subs' : subs'[m] = IF m = r.name THEN e ELSE subs[m]
    <2>1. CASE Leaving(r, p)
      BY <1>7, <1>9, <2>1
    <2>2. CASE ~Leaving(r, p)
      BY <1>6, <1>7, <1>9, <2>2
    <2> QED
      BY <2>1, <2>2
  <1>11. subs' = s
    BY <1>7
  <1> HIDE DEF s
  <1>12. EntryTaken(Flight[1], p)
    BY <1>3, <1>7, <1>8, <1>10, <1>11 DEF p, EntryTaken
  <1>13. Run([id |-> subs[Flight[1].name].id, pending |-> p], Flight[1])
    BY <1>3, <1>7, <1>8
  <1> QED
    BY <1>1, <1>3, <1>4, <1>5, <1>6, <1>7, <1>12, <1>13

\* A name that leaves the dictionary is not heard of any more.
LEMMA LeavingName ==
  ASSUME AsyncTypes, NEW q \in Seq(Messages), q # <<>>, NEW w \in Nat, NEW ss,
         EntriesInv(q, w, ss), SilenceInv(q, ss),
         NEW n \in DOMAIN subs, Says(q, 1, "unsubscribe", n), subs[n].pending = 0
  PROVE  /\ \A i \in 1 .. Len(Tail(q)) : Tail(q)[i].kind \in Told => Tail(q)[i].name # n
         /\ open => n \notin ss /\ Unsent(w, n) = {}
  <1>1. /\ Len(Tail(q)) = Len(q) - 1 /\ Len(q) \in Nat \ {0} /\ 1 \in 1 .. Len(q)
        /\ \A i \in 1 .. Len(Tail(q)) : Tail(q)[i] = q[i + 1] /\ i + 1 \in 2 .. Len(q)
    BY Shifted
  <1>2. n \in Names
    BY DEF AsyncTypes
  <1>3. Owed(q, w, n) = 0
    <2>1. Owed(q, w, n) \in Nat /\ subs[n].pending >= Owed(q, w, n)
      BY OwedNat DEF EntriesInv
    <2> QED
      BY <2>1
  <1>4. Confirms(q, n) = {} /\ (open => Unsent(w, n) = {})
    BY <1>3, OwedNothing
  <1>5. \A i \in 1 .. Len(q) : ~Says(q, i, "subscribe", n)
    BY <1>4 DEF Confirms
  <1>6. ASSUME NEW i \in 1 .. Len(Tail(q)), Tail(q)[i].kind \in Told, Tail(q)[i].name = n
        PROVE  FALSE
    <2>1. i + 1 \in 1 .. Len(q) /\ 1 < i + 1 /\ q[i + 1].kind \in Told /\ q[i + 1].name = n
      BY <1>1, <1>6
    <2>2. Says(q, i + 1, "unsubscribe", n) \/ Says(q, i + 1, "message", n)
      BY <1>5, <2>1 DEF Says, Told
    <2>3. \E k \in 1 + 1 .. (i + 1) - 1 : Says(q, k, "subscribe", n)
      BY <1>1, <1>2, <2>1, <2>2 DEF SilenceInv
    <2>4. \A k \in 1 + 1 .. (i + 1) - 1 : k \in 1 .. Len(q)
      BY <1>1, <2>1
    <2> QED
      BY <1>5, <2>3, <2>4
  <1>7. ASSUME open, n \in ss
        PROVE  FALSE
    <2>1. \E k \in 1 + 1 .. Len(q) : Says(q, k, "subscribe", n)
      BY <1>1, <1>2, <1>7 DEF SilenceInv
    <2> QED
      BY <1>1, <1>5, <2>1
  <1> QED
    BY <1>4, <1>6, <1>7
\* What is left to say of the entries, of those on their way and of leaving.
LEMMA PubSubEntries ==
  ASSUME AsyncTypes, NEW q \in Seq(Messages), q # <<>>, NEW w \in Nat, NEW ss, NEW p,
         EntriesInv(q, w, ss), SilenceInv(q, ss), q[1].kind \in Told, q[1].name \in DOMAIN subs,
         EntryTaken(q[1], p)
  PROVE  /\ p \in 0 .. Newest
         /\ \A m \in DOMAIN subs' : /\ m \in DOMAIN subs /\ subs'[m].id = subs[m].id
                                    /\ subs'[m] \in Callbacks(Newest)
                                    /\ subs'[m].pending >= Owed(Tail(q), w, m)
         /\ \A i \in 1 .. Len(Tail(q)) : Tail(q)[i].kind \in Told => Tail(q)[i].name \in DOMAIN subs'
         /\ open => /\ ss \subseteq DOMAIN subs'
                    /\ \A id \in w + 1 .. Newest, m \in Names : Subscribes(id, m) => m \in DOMAIN subs'
  <1> DEFINE n == q[1].name
             t == Tail(q)
  <1>1. /\ Len(t) = Len(q) - 1 /\ Len(q) \in Nat \ {0} /\ 1 \in 1 .. Len(q)
        /\ \A i \in 1 .. Len(t) : t[i] = q[i + 1] /\ i + 1 \in 1 .. Len(q)
    BY Shifted
  <1>2. /\ Newest \in Nat /\ subs[n].id \in 0 .. Newest /\ subs[n].pending \in 0 .. Newest
        /\ \A m \in DOMAIN subs : subs[m] \in Callbacks(Newest)
        /\ subs[n].pending >= Owed(q, w, n)
    <2>1. subs[n] \in Callbacks(Newest) /\ \A m \in DOMAIN subs : subs[m] \in Callbacks(Newest)
      BY DEF AsyncTypes
    <2>2. Newest \in Nat /\ subs[n].pending >= Owed(q, w, n)
      BY DEF AsyncTypes, Newest, EntriesInv
    <2> QED
      BY <2>1, <2>2 DEF Callbacks
  <1>0. /\ p = subs[n].pending - IF q[1].kind = "subscribe" THEN 1 ELSE 0
        /\ DOMAIN subs' = IF Leaving(q[1], p) THEN DOMAIN subs \ {n} ELSE DOMAIN subs
        /\ \A m \in DOMAIN subs' : subs'[m] = IF m = n THEN [id |-> subs[m].id, pending |-> p]
                                                       ELSE subs[m]
    BY DEF EntryTaken
  <1>3. \A m : /\ Owed(t, w, m) = Owed(q, w, m) - IF Says(q, 1, "subscribe", m) THEN 1 ELSE 0
               /\ Owed(t, w, m) \in Nat /\ Owed(q, w, m) \in Nat
    BY OwedTail
  <1>4. p >= Owed(t, w, n) /\ p \in 0 .. Newest
    <2>1. CASE q[1].kind = "subscribe"
      BY <1>0, <1>2, <1>3, <2>1 DEF Says
    <2>2. CASE q[1].kind # "subscribe"
      BY <1>0, <1>2, <1>3, <2>2 DEF Says
    <2> QED
      BY <2>1, <2>2
  <1> HIDE DEF t
  <1>5. ASSUME NEW m \in DOMAIN subs'
        PROVE  /\ m \in DOMAIN subs /\ subs'[m].id = subs[m].id /\ subs'[m] \in Callbacks(Newest)
               /\ subs'[m].pending >= Owed(t, w, m)
    <2>1. CASE m = n
      <3>1. m \in DOMAIN subs /\ subs'[m] = [id |-> subs[n].id, pending |-> p]
        BY <1>0, <1>5, <2>1
      <3> QED
        BY <1>2, <1>4, <2>1, <3>1 DEF Callbacks
    <2>2. CASE m # n
      <3>1. m \in DOMAIN subs /\ subs'[m] = subs[m] /\ ~Says(q, 1, "subscribe", m)
        BY <1>0, <1>5, <2>2 DEF Says
      <3>2. Owed(t, w, m) = Owed(q, w, m)
        BY <1>3, <3>1
      <3> QED
        BY <1>2, <3>1, <3>2 DEF EntriesInv
    <2> QED
      BY <2>1, <2>2
  <1>6. CASE ~Leaving(q[1], p)
    <2>1. \A i \in 1 .. Len(t) : t[i].kind \in Told => t[i].name \in DOMAIN subs
      BY <1>1 DEF EntriesInv
    <2> QED
      BY <1>0, <1>4, <1>5, <1>6, <2>1 DEF EntriesInv, t
  <1>7. CASE Leaving(q[1], p)
    <2>1. Says(q, 1, "unsubscribe", n) /\ subs[n].pending = 0 /\ DOMAIN subs' = DOMAIN subs \ {n}
      BY <1>0, <1>2, <1>7 DEF Leaving, Says
    <2>2. /\ \A i \in 1 .. Len(t) : t[i].kind \in Told => t[i].name # n
          /\ open => n \notin ss /\ Unsent(w, n) = {}
      BY <2>1, LeavingName DEF t
    <2>3. \A i \in 1 .. Len(t) : t[i].kind \in Told => t[i].name \in DOMAIN subs'
      BY <1>1, <2>1, <2>2 DEF EntriesInv
    <2>4. ASSUME open
          PROVE  /\ ss \subseteq DOMAIN subs'
                 /\ \A id \in w + 1 .. Newest, m \in Names : Subscribes(id, m) => m \in DOMAIN subs'
      BY <2>1, <2>2, <2>4 DEF EntriesInv, Unsent
    <2> QED
      BY <1>4, <1>5, <2>3, <2>4 DEF t
  <1> QED
    BY <1>6, <1>7

LEMMA PubSubLeaves ==
  ASSUME AsyncTypes, NEW q \in Seq(Messages), q # <<>>, NEW w \in Nat, NEW ss, NEW p,
         EntriesInv(q, w, ss), SilenceInv(q, ss), LeaveInv(q, w, ss), MaxNames = 1, open,
         q[1].kind \in Told, q[1].name \in DOMAIN subs, Subscribed,
         EntryTaken(q[1], p)
  PROVE  /\ Subscribed' => DOMAIN subs' # {}
         /\ \A m \in DOMAIN subs' :
              /\ subs'[m].pending = Owed(Tail(q), w, m)
              /\ \/ m \in ss \/ Unsent(w, m) # {}
                 \/ \E i \in 1 .. Len(Tail(q)) : Says(Tail(q), i, "unsubscribe", m)
         /\ LeftInv(Tail(q), ss)
  <1> DEFINE n == q[1].name
             t == Tail(q)
  <1>1. /\ Len(t) = Len(q) - 1 /\ Len(q) \in Nat \ {0} /\ 1 \in 1 .. Len(q)
        /\ \A i \in 1 .. Len(t) : t[i] = q[i + 1] /\ i + 1 \in 1 .. Len(q)
        /\ \A i \in 2 .. Len(q) : q[i] = t[i - 1] /\ i - 1 \in 1 .. Len(t)
    BY Shifted
  <1>0. /\ p = subs[n].pending - IF q[1].kind = "subscribe" THEN 1 ELSE 0
        /\ DOMAIN subs' = IF Leaving(q[1], p) THEN DOMAIN subs \ {n} ELSE DOMAIN subs
        /\ \A m \in DOMAIN subs' : subs'[m] = IF m = n THEN [id |-> subs[m].id, pending |-> p]
                                                       ELSE subs[m]
        /\ flags' = IF q[1].kind = "unsubscribe" /\ q[1].left = 0 /\ DOMAIN subs' = {}
                    THEN flags \ {"SUBSCRIBED"} ELSE flags
    BY DEF EntryTaken
  <1>2. LeftInv(q, ss) /\ LeftInv(t, ss)
    BY LeftTail DEF LeaveInv, LeftInv
  <1>3. /\ \A i \in 1 .. Len(t) : t[i].kind \in Told => t[i].name \in DOMAIN subs'
        /\ ss \subseteq DOMAIN subs'
    BY PubSubEntries
  <1>4. \A m : /\ Owed(t, w, m) = Owed(q, w, m) - IF Says(q, 1, "subscribe", m) THEN 1 ELSE 0
               /\ Owed(t, w, m) \in Nat /\ Owed(q, w, m) \in Nat
    BY OwedTail
  <1> HIDE DEF t
  <1>5. ASSUME NEW m, NEW i \in 2 .. Len(q), Says(q, i, "unsubscribe", m)
        PROVE  \E j \in 1 .. Len(t) : Says(t, j, "unsubscribe", m)
    BY <1>1, <1>5 DEF Says
  <1>6. ASSUME Subscribed', DOMAIN subs' = {}
        PROVE  FALSE
    <2>1. q[1].kind = "unsubscribe" /\ q[1].left # 0
      BY <1>0, <1>6 DEF Leaving, Subscribed
    <2>2. PICK j \in 1 + 1 .. Len(q) : q[j].kind = "unsubscribe"
      BY <1>1, <1>2, <1>3, <1>6, <2>1 DEF LeftInv
    <2>3. j - 1 \in 1 .. Len(t) /\ t[j - 1].kind = "unsubscribe"
      BY <1>1, <2>2
    <2> QED
      BY <1>3, <1>6, <2>3 DEF Told
  <1>7. ASSUME NEW m \in DOMAIN subs'
        PROVE  /\ subs'[m].pending = Owed(t, w, m)
               /\ \/ m \in ss \/ Unsent(w, m) # {}
                  \/ \E i \in 1 .. Len(t) : Says(t, i, "unsubscribe", m)
    <2>1. /\ m \in DOMAIN subs /\ m \in Names /\ subs[m].pending = Owed(q, w, m)
          /\ \/ m \in ss \/ Unsent(w, m) # {}
             \/ \E i \in 1 .. Len(q) : Says(q, i, "unsubscribe", m)
      BY <1>0, <1>7 DEF LeaveInv, AsyncTypes
    <2>2. subs'[m].pending = Owed(t, w, m)
      <3>1. CASE m = n
        <4>1. subs'[m].pending = p
          <5>1. subs'[m] = [id |-> subs[m].id, pending |-> p]
            BY <1>0, <1>7, <3>1
          <5> QED
            BY <5>1
        <4>2. Says(q, 1, "subscribe", m) <=> q[1].kind = "subscribe"
          BY <3>1 DEF Says
        <4> QED
          BY <1>0, <1>4, <2>1, <3>1, <4>1, <4>2
      <3>2. CASE m # n
        <4>1. subs'[m] = subs[m] /\ ~Says(q, 1, "subscribe", m)
          BY <1>0, <1>7, <3>2 DEF Says
        <4> QED
          BY <1>4, <2>1, <4>1
      <3> QED
        BY <3>1, <3>2
    <2>3. ASSUME m \notin ss, Unsent(w, m) = {}
          PROVE  \E i \in 1 .. Len(t) : Says(t, i, "unsubscribe", m)
      <3>1. PICK i \in 1 .. Len(q) : Says(q, i, "unsubscribe", m)
        BY <2>1, <2>3
      <3>2. CASE i # 1
        <4>1. i \in 2 .. Len(q)
          BY <1>1, <3>2
        <4> QED
          BY <1>5, <3>1, <4>1
      <3>3. CASE i = 1
        <4>1. m = n /\ q[1].kind = "unsubscribe" /\ ~Leaving(q[1], p)
          BY <1>0, <1>7, <3>1, <3>3 DEF Says
        <4>2. p = subs[m].pending - 0
          BY <1>0, <4>1
        <4>3. p = Owed(q, w, m)
          BY <1>4, <2>1, <4>2
        <4>4. Owed(q, w, m) # 0
          BY <4>1, <4>3 DEF Leaving
        <4>5. PICK k \in Confirms(q, m) : TRUE
          BY <2>3, <4>4, OwedSomething
        <4>6. k \in 1 .. Len(q) /\ Says(q, k, "subscribe", m)
          BY DEF Confirms
        <4>7. PICK j \in k + 1 .. Len(q) : Says(q, j, "unsubscribe", m)
          BY <1>2, <2>1, <2>3, <4>6 DEF LeftInv
        <4>8. j \in 2 .. Len(q)
          BY <1>1, <4>6
        <4> QED
          BY <1>5, <4>7, <4>8
      <3> QED
        BY <3>2, <3>3
    <2> QED
      BY <2>2, <2>3
  <1> QED
    BY <1>2, <1>6, <1>7 DEF t

LEMMA PubSubStep ==
  ASSUME AsyncInv, ProcessPubSub
  PROVE  AsyncInv'
  <1> DEFINE q == Flight
             t == Tail(Flight)
             n == Flight[1].name
             w == Written
  <1>1. /\ pc = "process" /\ inbuf # <<>> /\ Subscribed /\ ~Monitoring /\ replies = <<>>
        /\ q[1].kind \in Told /\ n \in DOMAIN subs /\ Ordered(q, w, ssubs, 0)
        /\ UNCHANGED <<replies, invalid>>
    BY PubSubIs
  <1>2. PICK p : EntryTaken(q[1], p) /\ Run([id |-> subs[n].id, pending |-> p], q[1])
    BY PubSubIs
  <1>3. /\ AsyncTypes /\ HistoryInv /\ ModeInv /\ WaitingGetsInv /\ LinkInv(q, w, ssubs)
        /\ EntriesInv(q, w, ssubs) /\ SilenceInv(q, ssubs) /\ LeaveInv(q, w, ssubs)
        /\ Newest \in Nat /\ w \in Nat
    BY <1>1, InvParts DEF LinkInv
  <1>4. /\ q \in Seq(Messages) /\ q # <<>>
        /\ Tail(inbuf) \in Seq(Messages) /\ Tail(inbuf) \o wire = t
    BY <1>1, <1>3, FirstOfFlight
  <1>5. /\ t \in Seq(Messages) /\ Len(t) = Len(q) - 1 /\ Len(q) \in Nat \ {0}
        /\ \A i \in 1 .. Len(q) - 1 : t[i] = q[i + 1] /\ i + 1 \in 1 .. Len(q)
    BY <1>4, Shifted
  <1> DEFINE e == [id |-> subs[n].id, pending |-> p]
  <1>6. /\ p \in 0 .. Newest
        /\ \A m \in DOMAIN subs' : /\ m \in DOMAIN subs /\ subs'[m].id = subs[m].id
                                   /\ subs'[m] \in Callbacks(Newest)
                                   /\ subs'[m].pending >= Owed(t, w, m)
        /\ \A i \in 1 .. Len(t) : t[i].kind \in Told => t[i].name \in DOMAIN subs'
        /\ open => /\ ssubs \subseteq DOMAIN subs'
                   /\ \A id \in w + 1 .. Newest, m \in Names : Subscribes(id, m) => m \in DOMAIN subs'
    BY <1>1, <1>2, <1>3, <1>4, PubSubEntries
  <1>7. /\ e.id \in 1 .. Newest /\ Subscribes(e.id, n) /\ e \in Callbacks(Newest)
    BY <1>1, <1>3, <1>6 DEF EntriesInv, AsyncTypes, Callbacks
  <1>8. Fits(e, q[1]) /\ ~IsRegular(e.id)
    BY <1>1, <1>7 DEF Fits, Told, Subscribes, NamesOf, IsRegular
  <1>9. /\ cb' = e /\ inbuf' = Tail(inbuf) /\ pc' \in {"process", "callback"} /\ got' = got
        /\ UNCHANGED <<err, obuf, cmds, wire, open, ssubs, smon>>
    <2> HIDE DEF e
    <2>1. Run(e, q[1])
      BY <1>2 DEF e
    <2> QED
      BY <1>3, <1>8, <2>1, RunIs DEF server
  <1>10. /\ Newest' = Newest /\ Written' = w /\ Flight' = t /\ inbuf' \in Seq(Messages)
         /\ (Monitoring' <=> Monitoring) /\ flags' \subseteq flags
    BY <1>2, <1>4, <1>9 DEF Newest, Written, Flight, Monitoring, EntryTaken
  <1> HIDE DEF q, t, n, w, e
  <1>11. AsyncTypes'
    <2>1. DOMAIN subs' \subseteq Names /\ \A m \in DOMAIN subs' : subs'[m] \in Callbacks(Newest)
      BY <1>3, <1>6 DEF AsyncTypes
    <2>2. cb' \in Callbacks(Newest) /\ Callbacks(Newest)' = Callbacks(Newest)
      BY <1>7, <1>9, <1>10 DEF Callbacks
    <2>3. flags' \subseteq {"CONNECTED", "DISCONNECTING", "FREEING", "SUBSCRIBED", "MONITORING"}
      BY <1>3, <1>10 DEF AsyncTypes
    <2>4. /\ replies' \in Seq(Callbacks(Newest)) /\ invalid' = <<>> /\ obuf' = obuf /\ got' = got
          /\ cmds' = cmds /\ err' = err /\ wire' = wire /\ open' = open /\ ssubs' = ssubs /\ smon' = smon
      BY <1>1, <1>3, <1>9 DEF AsyncTypes
    <2>5. pc' \in {"loop", "process", "callback", "gone"}
      BY <1>9
    <2> QED
      BY <1>3, <1>10, <2>1, <2>2, <2>3, <2>4, <2>5 DEF AsyncTypes, w
  <1>12. HistoryInv'
    BY <1>3, <1>9, <1>10, HistoryFrame
  <1>13. ModeInv'
    <2>1. ~Subscribed' => DOMAIN subs' = {}
      BY <1>1, <1>2 DEF Subscribed, EntryTaken
    <2> QED
      BY <1>1, <1>3, <1>9, <1>10, <2>1 DEF ModeInv
  <1>14. WaitingGetsInv'
    BY <1>1, <1>3, <1>9, <1>10 DEF WaitingGetsInv, Waits, IsRegular
  <1>15. LineInv(Flight, Written, ssubs)'
    <2>1. Len(replies) = 0
      BY <1>1
    <2>2. \A i \in 0 + 1 .. Len(t) : t[i].kind \in Told
      BY <1>1, <1>5 DEF Ordered
    <2>3. Ordered(Flight, Written, ssubs, 0)'
      BY <1>1, <1>9, <1>10, <2>1, <2>2 DEF Ordered
    <2>4. 0 \in 0 .. Len(Flight')
      BY <1>5, <1>10
    <2> QED
      BY <1>1, <1>10, <2>3, <2>4 DEF LineInv
  <1>16. /\ Wanted(Written)' = Wanted(w) /\ \A i, m : Subscribes(i, m)' <=> Subscribes(i, m)
         /\ \A m : Unsent(Written, m)' = Unsent(w, m) /\ Owed(Flight, Written, m)' = Owed(t, w, m)
    BY <1>9, <1>10, CountsFrame
  <1>17. EntriesInv(Flight, Written, ssubs)'
    BY <1>3, <1>6, <1>9, <1>10, <1>16 DEF EntriesInv
  <1>18. SilenceInv(Flight, ssubs)'
    <2>1. SilenceInv(t, ssubs)
      BY <1>3, <1>4, SilenceTail DEF q, t
    <2> QED
      BY <1>9, <1>10, <2>1 DEF SilenceInv, Says
  <1>19. LeaveInv(Flight, Written, ssubs)'
    <2> SUFFICES ASSUME MaxNames = 1, open PROVE LeaveInv(Flight, Written, ssubs)'
      BY <1>9 DEF LeaveInv
    <2>1. /\ Subscribed' => DOMAIN subs' # {}
          /\ \A m \in DOMAIN subs' :
               /\ subs'[m].pending = Owed(t, w, m)
               /\ \/ m \in ssubs \/ Unsent(w, m) # {}
                  \/ \E i \in 1 .. Len(t) : Says(t, i, "unsubscribe", m)
          /\ LeftInv(t, ssubs)
      BY <1>1, <1>2, <1>3, <1>4, PubSubLeaves DEF q, t, n, w
    <2> QED
      BY <1>9, <1>10, <1>16, <2>1 DEF LeaveInv, LeftInv, Says
  <1> QED
    BY <1>9, <1>11, <1>12, <1>13, <1>14, <1>15, <1>17, <1>18, <1>19 DEF AsyncInv, LinkInv
-----------------------------------------------------------------------------
(* A command is sent.                                                       *)

\* The commands sent so far, the new one, and all that is said of the old ones.
LEMMA CommandsGrow ==
  ASSUME AsyncTypes, NEW kind \in Kinds, NEW names \in Seq(Names),
         cmds' = Append(cmds, [kind |-> kind, names |-> names]), NEW id, id = Newest + 1
  PROVE  /\ Newest \in Nat /\ Newest' = id
         /\ cmds' \in Seq([kind : Kinds, names : Seq(Names)])
         /\ \A i \in 1 .. Newest : cmds'[i] = cmds[i]
         /\ cmds'[id].kind = kind /\ cmds'[id].names = names
         /\ \A i \in 1 .. Newest, n \in Names : Subscribes(i, n)' <=> Subscribes(i, n)
         /\ \A i \in 1 .. Newest, n \in Names : Unsubscribes(i, n)' <=> Unsubscribes(i, n)
         /\ \A n \in Names : Subscribes(id, n)' <=> kind = "subscribe" /\ n \in ToSet(names)
         /\ \A n \in Names : Unsubscribes(id, n)' <=> kind = "unsubscribe" /\ n \in ToSet(names)
         /\ \A k \in 0 .. Newest : Wanted(k)' = Wanted(k)
  <1> DEFINE C == [kind : Kinds, names : Seq(Names)]
             c == [kind |-> kind, names |-> names]
  <1>1. cmds \in Seq(C) /\ c \in C /\ c.kind = kind /\ c.names = names
    BY DEF AsyncTypes
  <1> HIDE DEF C
  <1> HIDE DEF c
  <1>2. cmds' = Append(cmds, c)
    BY DEF c
  <1>3. /\ Newest \in Nat /\ Newest' = id /\ cmds' \in Seq(C)
        /\ \A i \in 1 .. Newest : cmds'[i] = cmds[i]
        /\ cmds'[id] = c
    BY <1>1, <1>2 DEF Newest
  <1>4. /\ \A i \in 1 .. Newest, n \in Names : Subscribes(i, n)' <=> Subscribes(i, n)
        /\ \A i \in 1 .. Newest, n \in Names : Unsubscribes(i, n)' <=> Unsubscribes(i, n)
    BY <1>3 DEF Subscribes, Unsubscribes
  <1>5. /\ \A n \in Names : Subscribes(id, n)' <=> kind = "subscribe" /\ n \in ToSet(names)
        /\ \A n \in Names : Unsubscribes(id, n)' <=> kind = "unsubscribe" /\ n \in ToSet(names)
    BY <1>1, <1>3 DEF Subscribes, Unsubscribes
  <1>6. ASSUME NEW k \in 0 .. Newest
        PROVE  Wanted(k)' = Wanted(k)
    <2>1. ASSUME NEW n \in Names, NEW i \in 1 .. k
          PROVE  /\ Subscribes(i, n)' <=> Subscribes(i, n)
                 /\ \A j \in i + 1 .. k : Unsubscribes(j, n)' <=> Unsubscribes(j, n)
      <3>1. i \in 1 .. Newest /\ \A j \in i + 1 .. k : j \in 1 .. Newest
        BY <1>3
      <3> QED
        BY <1>4, <3>1
    <2>2. \A n \in Names : (n \in Wanted(k)') <=> (n \in Wanted(k))
      BY <2>1 DEF Wanted
    <2>3. Wanted(k) \subseteq Names /\ Wanted(k)' \subseteq Names
      BY DEF Wanted
    <2> QED
      BY <2>2, <2>3
  <1> QED
    BY <1>1, <1>3, <1>4, <1>5, <1>6 DEF C

LEMMA OwedGrow ==
  ASSUME AsyncTypes, NEW kind \in Kinds, NEW names \in Seq(Names), NEW n \in Names,
         cmds' = Append(cmds, [kind |-> kind, names |-> names]), open' = open,
         Flight' = Flight, Written' = Written, Written <= Newest, NEW id, id = Newest + 1
  PROVE  LET new == kind = "subscribe" /\ n \in ToSet(names)
         IN  /\ Owed(Flight, Written, n)' = Owed(Flight, Written, n) + IF open /\ new THEN 1 ELSE 0
             /\ Unsent(Written, n) \subseteq Unsent(Written, n)'
             /\ new => id \in Unsent(Written, n)'
  <1> DEFINE new == kind = "subscribe" /\ n \in ToSet(names)
             w == Written
  <1>1. /\ Newest \in Nat /\ Newest' = id /\ w \in Nat
        /\ \A i \in 1 .. Newest : Subscribes(i, n)' <=> Subscribes(i, n)
        /\ Subscribes(id, n)' <=> new
    <2>1. w \in Nat
      BY DEF AsyncTypes
    <2>2. /\ Newest \in Nat /\ Newest' = id
          /\ \A i \in 1 .. Newest, m \in Names : Subscribes(i, m)' <=> Subscribes(i, m)
          /\ \A m \in Names : Subscribes(id, m)' <=> kind = "subscribe" /\ m \in ToSet(names)
      BY CommandsGrow
    <2> QED
      BY <2>1, <2>2
  <1> HIDE DEF new, w
  <1>2. Unsent(Written, n)' = {i \in w + 1 .. id : Subscribes(i, n)'}
    BY <1>1 DEF Unsent, w
  <1>3. Unsent(Written, n) = {i \in w + 1 .. Newest : Subscribes(i, n)}
    BY DEF Unsent, w
  <1>4. \A i : i \in w + 1 .. id <=> i \in w + 1 .. Newest \/ i = id
    BY <1>1 DEF w
  <1>5. \A i \in w + 1 .. Newest : i \in 1 .. Newest
    BY <1>1
  <1>6. Unsent(Written, n)' = Unsent(Written, n) \cup IF new THEN {id} ELSE {}
    <2>1. \A i \in w + 1 .. Newest : Subscribes(i, n)' <=> Subscribes(i, n)
      BY <1>1, <1>5
    <2>2. \A i : i \in Unsent(Written, n)' <=> i \in Unsent(Written, n) \/ (i = id /\ new)
      BY <1>1, <1>2, <1>3, <1>4, <2>1
    <2> QED
      BY <2>2
  <1>7. id \notin Unsent(Written, n)
    BY <1>1, <1>3
  <1>8. /\ IsFiniteSet(Unsent(Written, n)) /\ Cardinality(Unsent(Written, n)) \in Nat
        /\ Cardinality(Confirms(Flight, n)) \in Nat
    <2>1. Flight \in Seq(Messages) /\ Written \in Nat
      BY DEF AsyncTypes, Flight
    <2> QED
      BY <2>1, UnsentFinite, ConfirmsFinite
  <1>9. Cardinality(Unsent(Written, n)') = Cardinality(Unsent(Written, n)) + IF new THEN 1 ELSE 0
    <2>1. CASE new
      <3>1. Unsent(Written, n)' = Unsent(Written, n) \cup {id}
        BY <1>6, <2>1
      <3> QED
        BY <1>7, <1>8, <2>1, <3>1, FS_AddElement
    <2>2. CASE ~new
      BY <1>6, <1>8, <2>2
    <2> QED
      BY <2>1, <2>2
  <1>10. Confirms(Flight, n)' = Confirms(Flight, n)
    BY DEF Confirms, Says
  <1>11. Owed(Flight, Written, n)' = Cardinality(Confirms(Flight, n))
                                      + IF open THEN Cardinality(Unsent(Written, n)') ELSE 0
    BY <1>10 DEF Owed
  <1>12. Owed(Flight, Written, n) = Cardinality(Confirms(Flight, n))
                                      + IF open THEN Cardinality(Unsent(Written, n)) ELSE 0
    BY DEF Owed
  <1>13. Owed(Flight, Written, n)' = Owed(Flight, Written, n) + IF open /\ new THEN 1 ELSE 0
    BY <1>8, <1>9, <1>11, <1>12
  <1> QED
    BY <1>6, <1>13 DEF new

\* The counts that SUBSCRIBE leaves: those of the known names are one more.
LEMMA PendingAfter ==
  ASSUME AsyncTypes, NEW names \in Seq(Names), NEW j \in 1 .. Len(names)
  PROVE  /\ PendingSubs(names, j) \in 1 .. Newest + 1
         /\ names[j] \in DOMAIN subs => PendingSubs(names, j) = subs[names[j]].pending + 1
         /\ j = 1 /\ names[j] \notin DOMAIN subs => PendingSubs(names, j) = 1
  <1> DEFINE known == {i \in 1 .. j : names[i] \in DOMAIN subs}
  <1>1. Newest \in Nat /\ \A n \in DOMAIN subs : subs[n].pending \in 0 .. Newest
    BY DEF AsyncTypes, Newest, Callbacks
  <1>2. ASSUME known # {}
        PROVE  /\ Max(known) \in known /\ \A i \in known : Max(known) >= i
    <2>1. \E m \in known : \A i \in known : m >= i
      <3> DEFINE D == {j - i : i \in known}
      <3>1. D \subseteq Nat /\ D # {}
        BY <1>2
      <3>2. PICK d \in D : \A e \in D : d <= e
        BY <3>1, Least
      <3>3. PICK m \in known : d = j - m
        BY <3>2
      <3>4. \A i \in known : j - m <= j - i
        BY <3>2, <3>3
      <3> QED
        BY <3>4
    <2> HIDE DEF known
    <2> QED
      BY <2>1 DEF Max
  <1>3. PendingSubs(names, j) = IF known = {} THEN 1 ELSE subs[names[Max(known)]].pending + 1
    BY DEF PendingSubs
  <1>4. PendingSubs(names, j) \in 1 .. Newest + 1
    <2>1. CASE known = {}
      BY <1>1, <1>3, <2>1
    <2>2. CASE known # {}
      <3>1. names[Max(known)] \in DOMAIN subs
        BY <1>2, <2>2
      <3> HIDE DEF known
      <3> QED
        BY <1>1, <1>3, <2>2, <3>1
    <2> QED
      BY <2>1, <2>2
  <1>5. ASSUME names[j] \in DOMAIN subs
        PROVE  PendingSubs(names, j) = subs[names[j]].pending + 1
    <2>1. j \in known
      BY <1>5
    <2>2. Max(known) = j
      <3>1. Max(known) \in known /\ Max(known) >= j
        BY <1>2, <2>1
      <3>2. \A m \in known : m \in 1 .. j
        OBVIOUS
      <3> HIDE DEF known
      <3> QED
        BY <3>1, <3>2
    <2> QED
      BY <1>3, <2>1, <2>2
  <1>6. ASSUME j = 1, names[j] \notin DOMAIN subs
        PROVE  PendingSubs(names, j) = 1
    <2>1. known = {}
      BY <1>6
    <2> QED
      BY <1>3, <2>1
  <1> QED
    BY <1>4, <1>5, <1>6

\* Nobody asks about subscriptions any more when there is no entry.
LEMMA NoneAsked ==
  ASSUME AsyncTypes, HistoryInv, open, DOMAIN subs = {},
         NEW q, NEW w \in Nat, NEW ss, EntriesInv(q, w, ss)
  PROVE  ss = {} /\ \A id \in w + 1 .. Newest : cmds[id].kind \notin Asks
  <1>1. \A i \in w + 1 .. Newest, n \in Names : ~Subscribes(i, n)
    BY DEF EntriesInv
  <1>2. ss = {} /\ Wanted(w) = {}
    BY DEF EntriesInv
  <1>3. ASSUME NEW id \in w + 1 .. Newest, cmds[id].kind \in Asks
        PROVE  FALSE
    <2>1. id \in 1 .. Newest
      BY DEF AsyncTypes, Newest
    <2>2. cmds[id].names # <<>> /\ cmds[id].names \in Seq(Names)
      BY <1>3, <2>1, NamesOfCommand DEF HistoryInv
    <2>3. cmds[id].names[1] \in Names /\ cmds[id].names[1] \in ToSet(cmds[id].names)
      BY <2>2 DEF ToSet
    <2>4. PICK n \in Names : n \in ToSet(cmds[id].names)
      BY <2>3
    <2>5. Unsubscribes(id, n)
      BY <1>1, <1>3, <2>4 DEF Asks, Subscribes, Unsubscribes
    <2>6. n \in Wanted(id - 1)
      BY <2>1, <2>5 DEF HistoryInv
    <2>7. PICK i \in 1 .. id - 1 : /\ Subscribes(i, n)
                                   /\ \A j \in i + 1 .. id - 1 : ~Unsubscribes(j, n)
      BY <2>6 DEF Wanted
    <2>8. i \in 1 .. w
      <3>1. i \notin w + 1 .. Newest
        BY <1>1, <2>7
      <3>2. Newest \in Nat
        BY DEF AsyncTypes, Newest
      <3> QED
        BY <2>1, <3>1, <3>2
    <2>9. \A j \in i + 1 .. w : j \in i + 1 .. id - 1
      OBVIOUS
    <2>10. n \in Wanted(w)
      BY <2>7, <2>8, <2>9 DEF Wanted
    <2> QED
      BY <1>2, <2>10
  <1> QED
    BY <1>2, <1>3
\* The dictionary after SUBSCRIBE.
LEMMA RegisteredIs ==
  ASSUME AsyncTypes, NEW names \in Seq(Names), IsInjective(names), NEW id
  PROVE  /\ DOMAIN Registered(id, names) = ToSet(names) \cup DOMAIN subs
         /\ \A j \in 1 .. Len(names) :
              Registered(id, names)[names[j]] = [id |-> id, pending |-> PendingSubs(names, j)]
         /\ \A n \in DOMAIN subs \ ToSet(names) : Registered(id, names)[n] = subs[n]
  <1> DEFINE at(n) == CHOOSE j \in DOMAIN names : names[j] = n
  <1>2. ASSUME NEW j \in 1 .. Len(names)
        PROVE  names[j] \in ToSet(names) /\ at(names[j]) = j
    <2>1. j \in DOMAIN names
      OBVIOUS
    <2> QED
      BY <2>1 DEF ToSet, IsInjective
  <1> QED
    BY <1>2 DEF Registered

\* The part of a SUBSCRIBE in the entries.
LEMMA Subscribing ==
  ASSUME AsyncTypes, EntriesInv(Flight, Written, ssubs), Written <= Newest,
         NEW names \in Seq(Names), IsInjective(names), NEW id, id = Newest + 1,
         cmds' = Append(cmds, [kind |-> "subscribe", names |-> names]), open' = open,
         Flight' = Flight, Written' = Written, subs' = Registered(id, names)
  PROVE  /\ DOMAIN subs' = ToSet(names) \cup DOMAIN subs
         /\ ToSet(names) \subseteq Names
         /\ \A n \in DOMAIN subs' : n \notin ToSet(names) => n \in DOMAIN subs /\ subs'[n] = subs[n]
         /\ \A n \in ToSet(names) : /\ subs'[n].id = id /\ subs'[n].pending \in 1 .. id
                                    /\ subs'[n] \in [id : {id}, pending : 1 .. id]
                                    /\ subs'[n].pending >= Owed(Flight, Written, n)'
                                    /\ MaxNames = 1 /\ Len(names) <= MaxNames /\ open
                                       /\ LeaveInv(Flight, Written, ssubs)
                                         => subs'[n].pending = Owed(Flight, Written, n)'
  <1>1. /\ DOMAIN subs' = ToSet(names) \cup DOMAIN subs
        /\ \A j \in 1 .. Len(names) : subs'[names[j]] = [id |-> id, pending |-> PendingSubs(names, j)]
        /\ \A n \in DOMAIN subs \ ToSet(names) : subs'[n] = subs[n]
    BY RegisteredIs
  <1>2. ToSet(names) \subseteq Names /\ Newest \in Nat /\ "subscribe" \in Kinds
        /\ Flight \in Seq(Messages) /\ Written \in Nat
    BY DEF ToSet, AsyncTypes, Newest, Kinds, Flight
  <1>3. ASSUME NEW n \in ToSet(names)
        PROVE  /\ subs'[n].id = id /\ subs'[n].pending \in 1 .. id
               /\ subs'[n] \in [id : {id}, pending : 1 .. id]
               /\ subs'[n].pending >= Owed(Flight, Written, n)'
               /\ MaxNames = 1 /\ Len(names) <= MaxNames /\ open /\ LeaveInv(Flight, Written, ssubs)
                    => subs'[n].pending = Owed(Flight, Written, n)'
    <2>1. PICK j \in 1 .. Len(names) : names[j] = n
      BY DEF ToSet
    <2>2. subs'[n] = [id |-> id, pending |-> PendingSubs(names, j)]
      BY <1>1, <2>1
    <2>3. /\ PendingSubs(names, j) \in 1 .. id
          /\ n \in DOMAIN subs => PendingSubs(names, j) = subs[n].pending + 1
          /\ j = 1 /\ n \notin DOMAIN subs => PendingSubs(names, j) = 1
      BY <2>1, PendingAfter
    <2>4. n \in Names /\ Owed(Flight, Written, n) \in Nat
      BY <1>2, OwedNat
    <2>5. Owed(Flight, Written, n)' = Owed(Flight, Written, n) + IF open THEN 1 ELSE 0
      BY <1>2, <2>4, OwedGrow
    <2>6. n \notin DOMAIN subs => Owed(Flight, Written, n) = 0
      <3> SUFFICES ASSUME n \notin DOMAIN subs, Owed(Flight, Written, n) # 0 PROVE FALSE
        OBVIOUS
      <3>1. CASE Confirms(Flight, n) # {}
        <4>1. PICK i \in 1 .. Len(Flight) : Says(Flight, i, "subscribe", n)
          BY <3>1 DEF Confirms
        <4> QED
          BY <4>1 DEF EntriesInv, Says, Told
      <3>2. CASE open /\ Unsent(Written, n) # {}
        BY <2>4, <3>2 DEF Unsent, EntriesInv
      <3> QED
        BY <1>2, <3>1, <3>2, OwedSomething
    <2>7. subs'[n].pending = PendingSubs(names, j) /\ subs'[n].id = id
      BY <2>2
    <2>8. subs'[n] \in [id : {id}, pending : 1 .. id]
      BY <2>2, <2>3
    <2>9. subs'[n].pending >= Owed(Flight, Written, n)'
      <3>1. CASE n \in DOMAIN subs
        <4>1. subs[n].pending >= Owed(Flight, Written, n) /\ subs[n].pending \in Int
          BY <3>1 DEF EntriesInv, AsyncTypes, Callbacks
        <4> QED
          BY <2>3, <2>4, <2>5, <2>7, <3>1, <4>1
      <3>2. CASE n \notin DOMAIN subs
        BY <1>2, <2>3, <2>5, <2>6, <2>7, <3>2
      <3> QED
        BY <3>1, <3>2
    <2>10. ASSUME MaxNames = 1, Len(names) <= MaxNames, open, LeaveInv(Flight, Written, ssubs)
           PROVE  subs'[n].pending = Owed(Flight, Written, n)'
      <3>1. CASE n \in DOMAIN subs
        <4>1. subs[n].pending = Owed(Flight, Written, n)
          BY <2>10, <3>1 DEF LeaveInv
        <4> QED
          BY <2>3, <2>5, <2>7, <2>10, <3>1, <4>1
      <3>2. CASE n \notin DOMAIN subs
        <4>1. j = 1
          BY <2>1, <2>10
        <4> QED
          BY <2>3, <2>5, <2>6, <2>7, <2>10, <3>2, <4>1
      <3> QED
        BY <3>1, <3>2
    <2> QED
      BY <2>3, <2>7, <2>8, <2>9, <2>10
  <1> QED
    BY <1>1, <1>2, <1>3
LEMMA CommandIs ==
  ASSUME AsyncInv, Unruly = FALSE, NEW kind \in Kinds, NEW names \in {<<>>} \cup NameLists,
         redisAsyncCommand(kind, names), NEW id, id = Newest + 1, NEW new,
         new = [id |-> id, pending |-> 1]
  PROVE  /\ pc \in {"loop", "onConnect", "callback"} /\ ~Monitoring
         /\ names \in Seq(Names) /\ IsInjective(names) /\ (names # <<>> => Len(names) <= MaxNames)
         /\ kind \in Asks => names # <<>>
         /\ kind \in {"get", "monitor"} => ~Subscribed
         /\ kind = "monitor" => replies = <<>> /\ pc # "callback"
         /\ kind = "unsubscribe" => ToSet(names) \subseteq Wanted(Newest) /\ Subscribed
         /\ \A i \in 1 .. Newest : cmds[i].kind # "monitor"
         /\ flags' = flags \cup (IF kind = "subscribe" THEN {"SUBSCRIBED"}
                                 ELSE IF kind = "monitor" THEN {"MONITORING"} ELSE {})
         /\ subs' = IF kind = "subscribe" THEN Registered(id, names) ELSE subs
         /\ replies' = IF kind \in {"get", "monitor"} THEN Append(replies, new) ELSE replies
         /\ obuf' = Append(obuf, id) /\ got' = Append(got, <<>>)
         /\ cmds' = Append(cmds, [kind |-> kind, names |-> names])
         /\ UNCHANGED <<invalid, err, inbuf, pc, cb, server>>
  <1>1. MayCall /\ UserMay(kind, names) /\ id = Len(cmds) + 1
    BY DEF redisAsyncCommand, Newest
  <1>2. pc \in {"loop", "onConnect", "callback"} /\ AsyncTypes /\ HistoryInv
    BY <1>1, InvParts DEF MayCall
  <1>3. names \in Seq(Names) /\ IsInjective(names) /\ (names # <<>> => Len(names) <= MaxNames)
    <2>1. CASE names = <<>>
      BY <2>1 DEF IsInjective
    <2>2. CASE names \in NameLists
      <3>1. PICK k \in 1 .. MaxNames : names \in [1 .. k -> Names] /\ IsInjective(names)
        BY <2>2 DEF NameLists
      <3>2. names \in Seq(Names) /\ Len(names) = k
        BY <3>1
      <3>3. k <= MaxNames
        BY AsyncAssumption
      <3> QED
        BY <3>1, <3>2, <3>3
    <2> QED
      BY <2>1, <2>2
  <1>4. \A i \in 1 .. Newest : cmds[i].kind # "monitor"
    <2>1. DOMAIN cmds = 1 .. Newest
      BY <1>2 DEF AsyncTypes, Newest
    <2> QED
      BY <1>1, <2>1 DEF UserMay, Orderly, ToSet
  <1>5. ~Monitoring
    <2>1. Monitoring => Newest \in 1 .. Newest /\ cmds[Newest].kind = "monitor"
      BY <1>2 DEF HistoryInv, AsyncTypes, Newest
    <2> QED
      BY <1>4, <2>1
  <1>6. /\ kind \in Asks => names # <<>>
        /\ kind \in {"get", "monitor"} => ~Subscribed
        /\ kind = "monitor" => replies = <<>> /\ pc # "callback"
        /\ kind = "unsubscribe" => ToSet(names) \subseteq Wanted(Newest) /\ Subscribed
    BY <1>1 DEF UserMay, Orderly, redisAsyncCommand, Asks, Subscribed, Newest
  <1>7. /\ subs' = IF kind = "subscribe" THEN Registered(id, names) ELSE subs
        /\ obuf' = Append(obuf, id) /\ got' = Append(got, <<>>)
        /\ cmds' = Append(cmds, [kind |-> kind, names |-> names])
        /\ UNCHANGED <<err, inbuf, pc, cb, server>>
    BY <1>1 DEF redisAsyncCommand
  <1>8. /\ flags' = flags \cup (IF kind = "subscribe" THEN {"SUBSCRIBED"}
                                ELSE IF kind = "monitor" THEN {"MONITORING"} ELSE {})
        /\ replies' = IF kind \in {"get", "monitor"} THEN Append(replies, new) ELSE replies
        /\ invalid' = invalid
    <2>1. CASE kind = "subscribe"
      BY <1>1, <2>1 DEF redisAsyncCommand
    <2>2. CASE kind = "unsubscribe"
      BY <1>1, <2>2 DEF redisAsyncCommand
    <2>3. CASE kind = "monitor"
      BY <1>1, <2>3 DEF redisAsyncCommand
    <2>4. CASE kind = "get"
      BY <1>1, <1>6, <2>4 DEF redisAsyncCommand, Subscribed
    <2> QED
      BY <2>1, <2>2, <2>3, <2>4 DEF Kinds
  <1> QED
    BY <1>2, <1>3, <1>4, <1>5, <1>6, <1>7, <1>8

LEMMA CommandTypes ==
  ASSUME AsyncTypes, NEW kind \in Kinds, NEW names \in Seq(Names), NEW id, id = Newest + 1, NEW new,
         new = [id |-> id, pending |-> 1],
         flags' = flags \cup (IF kind = "subscribe" THEN {"SUBSCRIBED"}
                              ELSE IF kind = "monitor" THEN {"MONITORING"} ELSE {}),
         DOMAIN subs' \subseteq Names,
         \A n \in DOMAIN subs' : \/ n \in DOMAIN subs /\ subs'[n] = subs[n]
                                 \/ subs'[n] \in [id : {id}, pending : 1 .. id],
         replies' = IF kind \in {"get", "monitor"} THEN Append(replies, new) ELSE replies,
         obuf' = Append(obuf, id), got' = Append(got, <<>>),
         cmds' = Append(cmds, [kind |-> kind, names |-> names]),
         UNCHANGED <<invalid, err, inbuf, pc, cb, server>>
  PROVE  AsyncTypes' /\ Written' = Written /\ Flight' = Flight
  <1>1. Newest \in Nat /\ Newest' = id /\ cmds' \in Seq([kind : Kinds, names : Seq(Names)])
        /\ Written \in Nat /\ Len(obuf) \in Nat /\ Written = Newest - Len(obuf)
    <2>1. Newest \in Nat /\ Newest' = id /\ cmds' \in Seq([kind : Kinds, names : Seq(Names)])
      BY CommandsGrow
    <2> QED
      BY <2>1 DEF AsyncTypes, Written
  <1>2. /\ Callbacks(Newest) \subseteq Callbacks(id) /\ new \in Callbacks(id)
        /\ [id : {id}, pending : 1 .. id] \subseteq Callbacks(id)
    BY <1>1 DEF Callbacks
  <1>3. Callbacks(Newest)' = Callbacks(id)
    BY <1>1 DEF Callbacks
  <1>4. replies' \in Seq(Callbacks(id)) /\ cb' \in Callbacks(id)
        /\ \A n \in DOMAIN subs' : subs'[n] \in Callbacks(id)
    <2> DEFINE C == Callbacks(Newest)
               D == Callbacks(id)
    <2>1. replies \in Seq(C) /\ cb \in C /\ \A n \in DOMAIN subs : subs[n] \in C
      BY DEF AsyncTypes
    <2>2. C \subseteq D /\ new \in D /\ [id : {id}, pending : 1 .. id] \subseteq D
      BY <1>2
    <2> HIDE DEF C, D
    <2>3. replies \in Seq(D)
      BY <2>1, <2>2
    <2>4. replies' \in Seq(D)
      BY <2>2, <2>3
    <2>5. cb' \in D /\ \A n \in DOMAIN subs' : subs'[n] \in D
      BY <2>1, <2>2
    <2> QED
      BY <2>4, <2>5 DEF D
  <1>5. got' \in Seq(Seq({"own", "null", "other"})) /\ Len(got') = id
    <2> DEFINE A == Seq({"own", "null", "other"})
    <2>1. got \in Seq(A) /\ <<>> \in A /\ Len(got) = Newest
      BY DEF AsyncTypes
    <2> HIDE DEF A
    <2>2. got' \in Seq(A) /\ Len(got') = id
      BY <1>1, <2>1
    <2> QED
      BY <2>2 DEF A
  <1>6. obuf' \in Seq(Nat) /\ Written' = Written /\ \A i \in 1 .. Len(obuf') : obuf'[i] = Written + i
    <2>1. obuf \in Seq(Nat) /\ \A i \in 1 .. Len(obuf) : obuf[i] = Written + i
      BY DEF AsyncTypes
    <2>2. /\ obuf' \in Seq(Nat) /\ Len(obuf') = Len(obuf) + 1
          /\ \A i \in 1 .. Len(obuf) : obuf'[i] = obuf[i]
          /\ obuf'[Len(obuf) + 1] = id
      BY <1>1, <2>1
    <2>3. Written' = Written
      <3>1. Written' = Newest' - Len(obuf')
        BY DEF Written
      <3> QED
        BY <1>1, <2>2, <3>1
    <2>4. \A i \in 1 .. Len(obuf') : i \in 1 .. Len(obuf) \/ i = Len(obuf) + 1
      <3>1. Len(obuf') = Len(obuf) + 1 /\ Len(obuf) \in Nat
        BY <1>1, <2>2
      <3> QED
        BY ONLY <3>1
    <2>5. id = Written + (Len(obuf) + 1)
      BY <1>1
    <2> QED
      BY <2>1, <2>2, <2>3, <2>4, <2>5
  <1>7. flags' \subseteq {"CONNECTED", "DISCONNECTING", "FREEING", "SUBSCRIBED", "MONITORING"}
    BY DEF AsyncTypes
  <1>8. Flight' = Flight
    BY DEF Flight, server
  <1>9. /\ err' = err /\ pc' = pc /\ invalid' = invalid /\ inbuf' = inbuf /\ wire' = wire
        /\ ssubs' = ssubs /\ smon' = smon /\ open' = open
    BY DEF server
  <1>10. \A i \in 1 .. Len(obuf') : obuf'[i] = Written' + i
    BY <1>6
  <1> QED
    BY <1>1, <1>3, <1>4, <1>5, <1>6, <1>7, <1>8, <1>9, <1>10 DEF AsyncTypes

\* The replies that the commands wait for.
LEMMA CommandWaits ==
  ASSUME AsyncTypes, HistoryInv, ModeInv, WaitingGetsInv, ~Monitoring,
         NEW kind \in Kinds, NEW names \in Seq(Names), NEW id, id = Newest + 1, NEW new,
         new = [id |-> id, pending |-> 1], Monitoring' <=> kind = "monitor",
         pc \in {"loop", "onConnect", "callback"},
         kind = "monitor" => replies = <<>> /\ pc # "callback",
         replies' = IF kind \in {"get", "monitor"} THEN Append(replies, new) ELSE replies,
         got' = Append(got, <<>>), UNCHANGED <<pc, cb>>,
         cmds' = Append(cmds, [kind |-> kind, names |-> names])
  PROVE  WaitingGetsInv'
  <1>1. /\ Newest \in Nat /\ Newest' = id /\ \A i \in 1 .. Newest : cmds'[i] = cmds[i]
        /\ cmds'[id].kind = kind
    BY CommandsGrow
  <1>2. /\ \A i \in 1 .. Newest : got'[i] = got[i]
        /\ got'[id] = <<>>
    <2> DEFINE A == Seq({"own", "null", "other"})
    <2>1. got \in Seq(A) /\ <<>> \in A /\ Len(got) = Newest
      BY DEF AsyncTypes
    <2> HIDE DEF A
    <2> QED
      BY <1>1, <2>1
  <1>3. Len(replies) \in Nat /\ \A i \in 1 .. Len(replies) : replies[i].id \in 0 .. Newest
    <2>1. replies \in Seq(Callbacks(Newest)) /\ \A c \in Callbacks(Newest) : c.id \in 0 .. Newest
      BY DEF AsyncTypes, Callbacks
    <2> QED
      BY <2>1
  <1>4. /\ kind \in {"get", "monitor"} =>
             /\ Len(replies') = Len(replies) + 1
             /\ \A i \in 1 .. Len(replies) : replies'[i] = replies[i]
             /\ replies'[Len(replies) + 1].id = id
        /\ kind \notin {"get", "monitor"} => replies' = replies
    <2>1. replies \in Seq(Callbacks(Newest))
      BY DEF AsyncTypes
    <2> QED
      BY <2>1
  <1>5. \A i : i \in 1 .. id <=> i \in 1 .. Newest \/ i = id
    BY <1>1
  <1>6. ASSUME kind \in {"get", "monitor"}
        PROVE  \A i : i \in 1 .. Len(replies') <=> i \in 1 .. Len(replies) \/ i = Len(replies) + 1
    BY <1>3, <1>4, <1>6
  <1>7. ASSUME NEW k \in 1 .. Newest
        PROVE  Waits(k)' <=> Waits(k)
    <2>1. CASE kind \in {"get", "monitor"}
      <3>1. k # id
        BY <1>1
      <3> QED
        BY <1>4, <1>6, <2>1, <3>1 DEF Waits
    <2>2. CASE kind \notin {"get", "monitor"}
      BY <1>4, <2>2 DEF Waits
    <2> QED
      BY <2>1, <2>2
  <1>8. kind \in {"get", "monitor"} => Waits(id)'
    <2>1. ASSUME kind \in {"get", "monitor"}
          PROVE  Len(replies) + 1 \in 1 .. Len(replies') /\ replies'[Len(replies) + 1].id = id
      BY <1>3, <1>4, <2>1
    <2> QED
      BY <2>1 DEF Waits
  <1>9. \A k \in 1 .. id : got'[k] = IF cmds'[k].kind = "get" /\ ~Waits(k)' THEN <<"own">> ELSE <<>>
    <2>1. ASSUME NEW k \in 1 .. Newest
          PROVE  got'[k] = IF cmds'[k].kind = "get" /\ ~Waits(k)' THEN <<"own">> ELSE <<>>
      BY <1>1, <1>2, <1>7 DEF WaitingGetsInv
    <2>2. got'[id] = IF cmds'[id].kind = "get" /\ ~Waits(id)' THEN <<"own">> ELSE <<>>
      BY <1>1, <1>2, <1>8
    <2> QED
      BY <1>5, <2>1, <2>2
  <1>10. CASE kind = "monitor"
    <2>1. replies = <<>> /\ Len(replies) = 0
      BY <1>10
    <2>2. \A i \in 1 .. Len(replies') : replies'[i].id = id
      BY <1>4, <1>10, <2>1
    <2> QED
      BY <1>1, <1>9, <1>10, <2>2 DEF WaitingGetsInv
  <1>11. CASE kind = "get"
    <2>1. \A i \in 1 .. Len(replies') : replies'[i].id >= 1 /\ cmds'[replies'[i].id].kind = "get"
      <3> TAKE i \in 1 .. Len(replies')
      <3>1. CASE i \in 1 .. Len(replies)
        <4>1. replies[i].id \in 1 .. Newest /\ cmds[replies[i].id].kind = "get"
          BY <1>3, <3>1 DEF WaitingGetsInv, IsRegular
        <4>2. replies'[i].id = replies[i].id
          BY <1>4, <1>11, <3>1
        <4>3. cmds'[replies[i].id] = cmds[replies[i].id]
          BY <1>1, <4>1
        <4> QED
          BY ONLY <4>1, <4>2, <4>3
      <3>2. CASE i = Len(replies) + 1
        <4>1. replies'[i].id = id
          BY <1>4, <1>11, <3>2
        <4>2. cmds'[id].kind = "get"
          BY ONLY <1>1, <1>11
        <4>3. id >= 1
          BY <1>1
        <4> QED
          BY ONLY <4>1, <4>2, <4>3
      <3> QED
        BY <1>6, <1>11, <3>1, <3>2
    <2>2. \A i, j \in 1 .. Len(replies') : i < j => replies'[i].id < replies'[j].id
      <3> SUFFICES ASSUME NEW i \in 1 .. Len(replies'), NEW j \in 1 .. Len(replies'), i < j
                   PROVE  replies'[i].id < replies'[j].id
        OBVIOUS
      <3>1. i \in 1 .. Len(replies) /\ (j \in 1 .. Len(replies) \/ j = Len(replies) + 1)
        BY <1>3, <1>6, <1>11
      <3>2. replies'[i].id \in 0 .. Newest
        BY <1>3, <1>4, <1>11, <3>1
      <3> QED
        BY <1>1, <1>4, <1>11, <3>1, <3>2 DEF WaitingGetsInv
    <2> QED
      BY <1>1, <1>9, <1>11, <2>1, <2>2 DEF WaitingGetsInv, IsRegular
  <1>12. CASE kind \in Asks
    <2>1. replies' = replies
      BY <1>4, <1>12 DEF Asks
    <2>2. \A i \in 1 .. Len(replies) : replies[i].id >= 1 /\ cmds'[replies[i].id].kind = "get"
      <3> TAKE i \in 1 .. Len(replies)
      <3>1. replies[i].id \in 1 .. Newest /\ cmds[replies[i].id].kind = "get"
        BY <1>3 DEF WaitingGetsInv, IsRegular
      <3>2. cmds'[replies[i].id] = cmds[replies[i].id]
        BY <1>1, <3>1
      <3> QED
        BY ONLY <3>1, <3>2
    <2> QED
      BY <1>1, <1>9, <1>12, <2>1, <2>2 DEF WaitingGetsInv, Asks, IsRegular
  <1> QED
    BY <1>10, <1>11, <1>12 DEF Kinds, Asks
\* The line of replies: a reply is added for the command, at the end.
LEMMA CommandLine ==
  ASSUME AsyncTypes, HistoryInv, ModeInv, LinkInv(Flight, Written, ssubs), ~Monitoring,
         Written <= Newest,
         NEW kind \in Kinds, NEW names \in Seq(Names), NEW id, id = Newest + 1, NEW new,
         new = [id |-> id, pending |-> 1], Monitoring' <=> kind = "monitor",
         kind \in {"get", "monitor"} => ~Subscribed,
         kind = "monitor" => replies = <<>>,
         replies' = IF kind \in {"get", "monitor"} THEN Append(replies, new) ELSE replies,
         cmds' = Append(cmds, [kind |-> kind, names |-> names]),
         Flight' = Flight, Written' = Written, UNCHANGED <<ssubs, open>>
  PROVE  LineInv(Flight, Written, ssubs)'
  <1> DEFINE q == Flight
             w == Written
  <1>1. /\ Newest \in Nat /\ Newest' = id /\ \A i \in 1 .. Newest : cmds'[i] = cmds[i]
        /\ cmds'[id].kind = kind
    BY CommandsGrow
  <1>2. /\ q \in Seq(Messages) /\ Len(q) \in Nat /\ w \in Nat /\ w <= Newest
        /\ Len(replies) \in Nat /\ replies \in Seq(Callbacks(Newest))
    BY DEF AsyncTypes, Flight
  <1>3. \/ q = <<Reply("error", 0)>> /\ ~open
        \/ \E g \in 0 .. Len(q) : Ordered(q, w, ssubs, g)
    BY DEF LinkInv, LineInv
  <1>4. EntriesInv(q, w, ssubs)
    BY DEF LinkInv
  <1>5. ASSUME ~Subscribed
        PROVE  /\ \A i \in 1 .. Len(q) : q[i].kind \notin Told
               /\ open => ssubs = {} /\ \A i \in w + 1 .. Newest : cmds[i].kind \notin Asks
    <2>1. DOMAIN subs = {}
      BY <1>5 DEF ModeInv
    <2>2. \A i \in 1 .. Len(q) : q[i].kind \notin Told
      BY <1>4, <2>1 DEF EntriesInv
    <2>3. open => ssubs = {} /\ \A i \in w + 1 .. Newest : cmds[i].kind \notin Asks
      BY <1>2, <1>4, <2>1, NoneAsked
    <2> QED
      BY <2>2, <2>3
  <1> HIDE DEF q, w
  <1>6. CASE q = <<Reply("error", 0)>> /\ ~open
    <2>1. Len(q) = 1 /\ q[1] = Reply("error", 0)
      BY <1>6
    <2>2. Flight' = <<Reply("error", 0)>> /\ ~open' /\ Len(Flight') = 1 /\ Flight'[1] = Reply("error", 0)
      BY <1>6, <2>1 DEF q
    <2>3. kind = "monitor" => Fed(Flight, Written, ssubs)'
      BY <2>2 DEF Fed, Reply
    <2> QED
      BY <2>2, <2>3 DEF LineInv, Reply
  <1>7. ASSUME NEW g \in 0 .. Len(q), Ordered(q, w, ssubs, g)
        PROVE  LineInv(Flight, Written, ssubs)'
    <2>0. /\ g <= Len(replies) /\ g \in Nat
          /\ \A i \in 1 .. g : q[i] = Reply("value", replies[i].id)
          /\ \A i \in g + 1 .. Len(q) : q[i].kind \in Told
          /\ g < Len(q) => Len(replies) = g
      BY <1>2, <1>7 DEF Ordered
    <2>1. CASE kind \in Asks
      <3>1. replies' = replies /\ ~Monitoring'
        BY <2>1 DEF Asks
      <3>2. ASSUME open
            PROVE  /\ Len(replies) - g <= id - w
                   /\ \A i \in w + (Len(replies) - g) + 1 .. id : cmds'[i].kind \in Asks
        <4>1. /\ Len(replies) - g <= Newest - w
              /\ \A i \in w + (Len(replies) - g) + 1 .. Newest : cmds[i].kind \in Asks
          BY <1>7, <3>2 DEF Ordered
        <4>2. \A i \in w + (Len(replies) - g) + 1 .. id :
                i = id \/ (i \in w + (Len(replies) - g) + 1 .. Newest /\ i \in 1 .. Newest)
          BY <1>1, <1>2, <2>0
        <4>3. \A i \in w + (Len(replies) - g) + 1 .. id : cmds'[i].kind \in Asks
          <5> TAKE i \in w + (Len(replies) - g) + 1 .. id
          <5>1. CASE i = id
            BY <1>1, <2>1, <5>1
          <5>2. CASE i \in w + (Len(replies) - g) + 1 .. Newest /\ i \in 1 .. Newest
            <6>1. cmds'[i] = cmds[i] /\ cmds[i].kind \in Asks
              BY <1>1, <4>1, <5>2
            <6> QED
              BY ONLY <6>1
          <5> QED
            BY <4>2, <5>1, <5>2
        <4>4. Len(replies) - g <= id - w
          BY <1>1, <1>2, <2>0, <4>1
        <4> QED
          BY <4>3, <4>4
      <3>3. Ordered(Flight, Written, ssubs, g)'
        BY <1>1, <1>7, <3>1, <3>2 DEF Ordered, Reply, q, w
      <3> QED
        BY <3>1, <3>3 DEF LineInv, q
    <2>2. CASE kind \in {"get", "monitor"}
      <3>1. ~Subscribed
        BY <2>2
      <3>2. g = Len(q)
        <4>1. g < Len(q) => Len(q) \in g + 1 .. Len(q) /\ Len(q) \in 1 .. Len(q)
          BY <1>2, <2>0
        <4>2. ~(g < Len(q))
          <5> SUFFICES ASSUME g < Len(q) PROVE FALSE
            OBVIOUS
          <5>1. q[Len(q)].kind \in Told
            BY <2>0, <4>1
          <5>2. q[Len(q)].kind \notin Told
            BY <1>5, <3>1, <4>1
          <5> QED
            BY <5>1, <5>2
        <4>3. g <= Len(q)
          OBVIOUS
        <4> QED
          BY <1>2, <2>0, <4>2, <4>3
      <3>3. open => ssubs = {} /\ Newest - w = Len(replies) - g
        <4>1. SUFFICES ASSUME open PROVE ssubs = {} /\ Newest - w = Len(replies) - g
          OBVIOUS
        <4>2. /\ Len(replies) - g <= Newest - w
              /\ \A i \in w + (Len(replies) - g) + 1 .. Newest : cmds[i].kind \in Asks
          BY <1>7, <4>1 DEF Ordered
        <4>3. ssubs = {} /\ \A i \in w + 1 .. Newest : cmds[i].kind \notin Asks
          BY <1>5, <3>1, <4>1
        <4>4. Len(replies) - g < Newest - w =>
                Newest \in w + (Len(replies) - g) + 1 .. Newest /\ Newest \in w + 1 .. Newest
          BY <1>1, <1>2, <2>0
        <4>5. ~(Len(replies) - g < Newest - w)
          <5> SUFFICES ASSUME Len(replies) - g < Newest - w PROVE FALSE
            OBVIOUS
          <5>1. cmds[Newest].kind \in Asks
            BY <4>2, <4>4
          <5>2. cmds[Newest].kind \notin Asks
            BY <4>3, <4>4
          <5> QED
            BY <5>1, <5>2
        <4>6. Newest \in Nat /\ w \in Nat /\ Len(replies) \in Nat /\ g \in Nat
          BY <1>1, <1>2, <2>0
        <4>7. Newest - w = Len(replies) - g
          <5>1. Len(replies) - g <= Newest - w
            BY <4>2
          <5> QED
            BY ONLY <4>5, <4>6, <5>1
        <4> QED
          BY <4>3, <4>7
      <3>4. /\ Len(replies') = Len(replies) + 1
            /\ \A i \in 1 .. Len(replies) : replies'[i] = replies[i]
            /\ replies'[Len(replies) + 1].id = id
        BY <1>2, <2>2
      <3>5. CASE kind = "monitor"
        <4>1. Len(q) = 0 /\ Len(replies) = 0
          BY <2>0, <3>2, <3>5
        <4>2. open => w >= id - 1
          BY <1>1, <1>2, <3>2, <3>3, <4>1
        <4>3. Fed(Flight, Written, ssubs)'
          BY <1>1, <3>3, <4>1, <4>2 DEF Fed, q, w
        <4> QED
          BY <3>5, <4>3 DEF LineInv
      <3>6. CASE kind = "get"
        <4>1. \A i \in 1 .. g : q[i] = Reply("value", replies'[i].id)
          <5>1. \A i \in 1 .. g : i \in 1 .. Len(replies)
            BY <1>2, <2>0
          <5> QED
            BY <2>0, <3>4, <5>1
        <4>2. ASSUME open
              PROVE  /\ Len(replies') - g <= id - w
                     /\ \A i \in g + 1 .. Len(replies') : replies'[i].id = w + (i - g)
                     /\ w + (Len(replies') - g) + 1 .. id = {}
          <5>0. /\ Newest - w = Len(replies) - g /\ id = Newest + 1
                /\ Newest \in Nat /\ w \in Nat /\ Len(replies) \in Nat /\ g \in Nat
            BY <1>1, <1>2, <2>0, <3>3, <4>2
          <5>1. /\ (Len(replies) + 1) - g = id - w
                /\ w + ((Len(replies) + 1) - g) + 1 .. id = {}
            BY ONLY <5>0
          <5>2. \A i \in g + 1 .. Len(replies) : replies[i].id = w + (i - g)
            BY <1>7, <4>2 DEF Ordered
          <5>3. ASSUME NEW i \in g + 1 .. Len(replies')
                PROVE  replies'[i].id = w + (i - g)
            <6>1. CASE i \in 1 .. Len(replies)
              <7>1. i \in g + 1 .. Len(replies)
                BY <6>1
              <7> QED
                BY <3>4, <5>2, <6>1, <7>1
            <6>2. CASE i = Len(replies) + 1
              <7>1. id = w + ((Len(replies) + 1) - g)
                BY ONLY <5>0
              <7> QED
                BY <3>4, <6>2, <7>1
            <6> QED
              BY <1>2, <2>0, <3>4, <6>1, <6>2
          <5>4. Len(replies') - g <= id - w
            <6>1. id - w \in Int
              BY ONLY <5>0
            <6>2. (Len(replies) + 1) - g <= id - w
              BY ONLY <5>1, <6>1
            <6>3. Len(replies') = Len(replies) + 1
              BY <3>4
            <6> QED
              BY ONLY <6>2, <6>3
          <5>5. w + (Len(replies') - g) + 1 .. id = {}
            BY <3>4, <5>1
          <5> QED
            BY <5>3, <5>4, <5>5
        <4>3. Ordered(Flight, Written, ssubs, g)'
          <5>1. g <= Len(replies') /\ ~(g < Len(q)) /\ g + 1 .. Len(q) = {}
            BY <1>2, <2>0, <3>2, <3>4
          <5> QED
            BY <1>1, <3>3, <4>1, <4>2, <5>1 DEF Ordered, Reply, q, w
        <4> QED
          BY <3>6, <4>3 DEF LineInv, q
      <3> QED
        BY <2>2, <3>5, <3>6
    <2> QED
      BY <2>1, <2>2 DEF Kinds, Asks
  <1> QED
    BY <1>3, <1>6, <1>7
\* What is said of the names.
LEMMA CommandNames ==
  ASSUME AsyncTypes, HistoryInv, ModeInv, LinkInv(Flight, Written, ssubs), Written <= Newest,
         NEW kind \in Kinds, NEW names \in Seq(Names), IsInjective(names),
         names # <<>> => Len(names) <= MaxNames, kind \in Asks => names # <<>>,
         NEW id, id = Newest + 1, Subscribed' <=> Subscribed \/ kind = "subscribe",
         subs' = IF kind = "subscribe" THEN Registered(id, names) ELSE subs,
         cmds' = Append(cmds, [kind |-> kind, names |-> names]),
         Flight' = Flight, Written' = Written, UNCHANGED <<ssubs, open>>
  PROVE  /\ DOMAIN subs' \subseteq Names
         /\ \A n \in DOMAIN subs' : \/ n \in DOMAIN subs /\ subs'[n] = subs[n]
                                    \/ subs'[n] \in [id : {id}, pending : 1 .. id]
         /\ EntriesInv(Flight, Written, ssubs)' /\ SilenceInv(Flight, ssubs)'
         /\ LeaveInv(Flight, Written, ssubs)'
  <1> DEFINE new(n) == kind = "subscribe" /\ n \in ToSet(names)
  <1>1. /\ Newest \in Nat /\ Newest' = id
        /\ \A i \in 1 .. Newest, n \in Names : Subscribes(i, n)' <=> Subscribes(i, n)
        /\ \A n \in Names : Subscribes(id, n)' <=> kind = "subscribe" /\ n \in ToSet(names)
        /\ \A k \in 0 .. Newest : Wanted(k)' = Wanted(k)
    BY CommandsGrow
  <1>2. /\ EntriesInv(Flight, Written, ssubs) /\ SilenceInv(Flight, ssubs)
        /\ LeaveInv(Flight, Written, ssubs)
    BY DEF LinkInv
  <1>3. /\ DOMAIN subs \subseteq Names /\ Written \in Nat /\ Written \in 0 .. Newest
        /\ ToSet(names) \subseteq Names
        /\ \A n \in DOMAIN subs : subs[n].id \in 0 .. Newest
    BY <1>1 DEF AsyncTypes, ToSet, Callbacks
  <1>4. ASSUME NEW n \in Names
        PROVE  /\ Owed(Flight, Written, n)' = Owed(Flight, Written, n) + IF open /\ new(n) THEN 1 ELSE 0
               /\ Owed(Flight, Written, n) \in Nat
               /\ Unsent(Written, n) \subseteq Unsent(Written, n)'
               /\ new(n) => id \in Unsent(Written, n)'
    <2>1. Owed(Flight, Written, n) \in Nat
      <3>1. Flight \in Seq(Messages)
        BY DEF AsyncTypes, Flight
      <3> QED
        BY <1>3, <3>1, OwedNat
    <2> QED
      BY <2>1, OwedGrow
  <1>5. /\ DOMAIN subs' = IF kind = "subscribe" THEN ToSet(names) \cup DOMAIN subs ELSE DOMAIN subs
        /\ \A n \in DOMAIN subs' : ~new(n) => n \in DOMAIN subs /\ subs'[n] = subs[n]
        /\ \A n \in DOMAIN subs' : new(n) =>
             /\ subs'[n].id = id /\ subs'[n] \in [id : {id}, pending : 1 .. id]
             /\ subs'[n].pending >= Owed(Flight, Written, n)'
             /\ MaxNames = 1 /\ open => subs'[n].pending = Owed(Flight, Written, n)'
    <2>1. CASE kind = "subscribe"
      <3>1. subs' = Registered(id, names) /\ cmds' = Append(cmds, [kind |-> "subscribe", names |-> names])
            /\ Len(names) <= MaxNames
        BY <2>1 DEF Asks
      <3>2. /\ DOMAIN subs' = ToSet(names) \cup DOMAIN subs
            /\ \A n \in DOMAIN subs' : n \notin ToSet(names) => n \in DOMAIN subs /\ subs'[n] = subs[n]
            /\ \A n \in ToSet(names) :
                 /\ subs'[n].id = id /\ subs'[n] \in [id : {id}, pending : 1 .. id]
                 /\ subs'[n].pending >= Owed(Flight, Written, n)'
                 /\ MaxNames = 1 /\ Len(names) <= MaxNames /\ open
                    /\ LeaveInv(Flight, Written, ssubs)
                      => subs'[n].pending = Owed(Flight, Written, n)'
        BY <1>2, <3>1, Subscribing
      <3> QED
        BY <1>2, <2>1, <3>1, <3>2
    <2>2. CASE kind # "subscribe"
      BY <2>2
    <2> QED
      BY <2>1, <2>2
  <1> HIDE DEF new
  <1>6. DOMAIN subs \subseteq DOMAIN subs' /\ DOMAIN subs' \subseteq Names
    BY <1>3, <1>5
  <1>7. EntriesInv(Flight, Written, ssubs)'
    <2>1. ASSUME NEW n \in DOMAIN subs'
          PROVE  /\ subs'[n].id >= 1 /\ subs'[n].pending >= Owed(Flight, Written, n)'
                 /\ \E i : i = subs'[n].id /\ Subscribes(i, n)'
      <3>1. n \in Names
        BY <1>6
      <3>2. CASE new(n)
        <4>1. subs'[n].id = id /\ subs'[n].pending >= Owed(Flight, Written, n)' /\ id >= 1
          BY <1>1, <1>5, <2>1, <3>2
        <4>2. Subscribes(id, n)'
          BY <1>1, <3>1, <3>2 DEF new
        <4> QED
          BY <4>1, <4>2
      <3>3. CASE ~new(n)
        <4>1. n \in DOMAIN subs /\ subs'[n] = subs[n]
          BY <1>5, <2>1, <3>3
        <4>2. /\ subs[n].id >= 1 /\ Subscribes(subs[n].id, n)
              /\ subs[n].pending >= Owed(Flight, Written, n)
          BY <1>2, <4>1 DEF EntriesInv
        <4>3. Owed(Flight, Written, n)' = Owed(Flight, Written, n)
          BY <1>4, <3>1, <3>3
        <4>4. subs[n].id \in 1 .. Newest
          BY <1>3, <4>1, <4>2
        <4>5. \E i : i = subs[n].id /\ Subscribes(i, n)'
          <5>1. \A i \in 1 .. Newest : Subscribes(i, n)' <=> Subscribes(i, n)
            BY <1>1, <3>1
          <5>2. PICK i \in 1 .. Newest : i = subs[n].id
            BY <4>4
          <5>3. Subscribes(i, n)
            BY <4>2, <5>2
          <5> QED
            BY <5>1, <5>2, <5>3
        <4> QED
          BY <4>1, <4>2, <4>3, <4>5
      <3> QED
        BY <3>2, <3>3
    <2>2. \A n \in DOMAIN subs' : Subscribes(subs[n].id, n)'
      BY <2>1
    <2>3. \A i \in 1 .. Len(Flight) : Flight[i].kind \in Told => Flight[i].name \in DOMAIN subs'
      BY <1>2, <1>6 DEF EntriesInv
    <2>4. ASSUME open
          PROVE  /\ ssubs = Wanted(Written)' /\ ssubs \subseteq DOMAIN subs'
                 /\ \A i \in Written + 1 .. id : \A n \in Names : Subscribes(i, n)' => n \in DOMAIN subs'
      <3>1. Wanted(Written)' = Wanted(Written)
        <4>1. PICK k \in 0 .. Newest : k = Written
          BY <1>3
        <4>2. Wanted(k)' = Wanted(k)
          BY <1>1
        <4>3. Written' = k
          BY <4>1
        <4> QED
          BY <4>1, <4>2, <4>3
      <3>2. ASSUME NEW i \in Written + 1 .. id, NEW n \in Names, Subscribes(i, n)'
            PROVE  n \in DOMAIN subs'
        <4>1. CASE i = id
          BY <1>1, <1>5, <3>2, <4>1
        <4>2. CASE i # id
          <5>1. i \in Written + 1 .. Newest /\ i \in 1 .. Newest
            BY <1>1, <1>3, <4>2
          <5>2. Subscribes(i, n)
            BY <1>1, <3>2, <5>1
          <5> QED
            BY <1>2, <1>6, <2>4, <5>1, <5>2 DEF EntriesInv
        <4> QED
          BY <4>1, <4>2
      <3> QED
        BY <1>2, <1>6, <2>4, <3>1, <3>2 DEF EntriesInv
    <2> QED
      BY <1>1, <2>1, <2>2, <2>3, <2>4 DEF EntriesInv
  <1>8. SilenceInv(Flight, ssubs)'
    BY <1>2, SMTT(30) DEF SilenceInv, Says
  <1>9. LeaveInv(Flight, Written, ssubs)'
    <2> SUFFICES ASSUME MaxNames = 1, open PROVE LeaveInv(Flight, Written, ssubs)'
      BY DEF LeaveInv
    <2>1. Subscribed' => DOMAIN subs' # {}
      <3>1. CASE kind = "subscribe"
        <4>1. names # <<>>
          BY <3>1 DEF Asks
        <4>2. names[1] \in ToSet(names)
          BY <4>1 DEF ToSet
        <4> QED
          BY <1>5, <3>1, <4>2
      <3>2. CASE kind # "subscribe"
        BY <1>2, <1>6, <3>2 DEF LeaveInv
      <3> QED
        BY <3>1, <3>2
    <2>2. ASSUME NEW n \in DOMAIN subs'
          PROVE  /\ subs'[n].pending = Owed(Flight, Written, n)'
                 /\ \/ n \in ssubs \/ Unsent(Written, n)' # {}
                    \/ \E i \in 1 .. Len(Flight) : Says(Flight, i, "unsubscribe", n)
      <3>1. n \in Names
        BY <1>6
      <3>2. CASE new(n)
        BY <1>4, <1>5, <2>2, <3>1, <3>2
      <3>3. CASE ~new(n)
        <4>1. n \in DOMAIN subs /\ subs'[n] = subs[n]
          BY <1>5, <2>2, <3>3
        <4>2. /\ subs[n].pending = Owed(Flight, Written, n)
              /\ \/ n \in ssubs \/ Unsent(Written, n) # {}
                 \/ \E i \in 1 .. Len(Flight) : Says(Flight, i, "unsubscribe", n)
          BY <1>2, <4>1 DEF LeaveInv
        <4>3. Owed(Flight, Written, n)' = Owed(Flight, Written, n)
              /\ Unsent(Written, n) \subseteq Unsent(Written, n)'
          BY <1>4, <3>1, <3>3
        <4> QED
          BY <4>1, <4>2, <4>3
      <3> QED
        BY <3>2, <3>3
    <2>3. LeftInv(Flight, ssubs)
      BY <1>2 DEF LeaveInv, LeftInv
    <2> QED
      BY <2>1, <2>2, <2>3 DEF LeaveInv, LeftInv, Says
  <1> QED
    BY <1>5, <1>6, <1>7, <1>8, <1>9
LEMMA CommandStep ==
  ASSUME AsyncInv, Unruly = FALSE, NEW kind \in Kinds, NEW names \in {<<>>} \cup NameLists,
         redisAsyncCommand(kind, names)
  PROVE  AsyncInv'
  <1>1. PICK id, new : id = Newest + 1 /\ new = [id |-> id, pending |-> 1]
    OBVIOUS
  <1>2. /\ pc \in {"loop", "onConnect", "callback"} /\ ~Monitoring
        /\ names \in Seq(Names) /\ IsInjective(names) /\ (names # <<>> => Len(names) <= MaxNames)
        /\ kind \in Asks => names # <<>>
        /\ kind \in {"get", "monitor"} => ~Subscribed
        /\ kind = "monitor" => replies = <<>> /\ pc # "callback"
        /\ kind = "unsubscribe" => ToSet(names) \subseteq Wanted(Newest) /\ Subscribed
        /\ \A i \in 1 .. Newest : cmds[i].kind # "monitor"
        /\ flags' = flags \cup (IF kind = "subscribe" THEN {"SUBSCRIBED"}
                                ELSE IF kind = "monitor" THEN {"MONITORING"} ELSE {})
        /\ subs' = IF kind = "subscribe" THEN Registered(id, names) ELSE subs
        /\ replies' = IF kind \in {"get", "monitor"} THEN Append(replies, new) ELSE replies
        /\ obuf' = Append(obuf, id) /\ got' = Append(got, <<>>)
        /\ cmds' = Append(cmds, [kind |-> kind, names |-> names])
        /\ UNCHANGED <<invalid, err, inbuf, pc, cb, server>>
    BY <1>1, CommandIs, ZenonT(60)
  <1>3. /\ AsyncTypes /\ HistoryInv /\ ModeInv /\ WaitingGetsInv /\ LinkInv(Flight, Written, ssubs)
        /\ Written <= Newest
    BY <1>2, InvParts
  <1>4. /\ Monitoring' <=> kind = "monitor"
        /\ Subscribed' <=> Subscribed \/ kind = "subscribe"
    BY <1>2 DEF Monitoring, Subscribed
  <1>5. UNCHANGED <<wire, ssubs, smon, open>> /\ Flight' = Flight
    BY <1>2 DEF server, Flight
  <1>6. /\ Newest' = id /\ Newest \in Nat /\ \A i \in 1 .. Newest : cmds'[i] = cmds[i]
        /\ cmds'[id].kind = kind /\ cmds'[id].names = names
        /\ \A i \in 1 .. Newest, n \in Names : Unsubscribes(i, n)' <=> Unsubscribes(i, n)
        /\ \A n \in Names : Unsubscribes(id, n)' <=> kind = "unsubscribe" /\ n \in ToSet(names)
        /\ \A k \in 0 .. Newest : Wanted(k)' = Wanted(k)
    <2>1. /\ AsyncTypes /\ kind \in Kinds /\ names \in Seq(Names) /\ id = Newest + 1
          /\ cmds' = Append(cmds, [kind |-> kind, names |-> names])
      BY <1>1, <1>2, <1>3
    <2>2. Newest' = id /\ Newest \in Nat /\ \A i \in 1 .. Newest : cmds'[i] = cmds[i]
      BY <2>1, CommandsGrow
    <2>6. cmds'[id].kind = kind /\ cmds'[id].names = names
      <3>1. cmds'[id] = [kind |-> kind, names |-> names]
        <4> DEFINE C == [kind : Kinds, names : Seq(Names)]
                   c == [kind |-> kind, names |-> names]
        <4>1. cmds \in Seq(C) /\ c \in C /\ cmds' = Append(cmds, c) /\ id = Len(cmds) + 1
          BY <2>1 DEF AsyncTypes, Newest
        <4> HIDE DEF C, c
        <4>2. cmds'[id] = c
          BY <4>1
        <4> QED
          BY <4>2 DEF c
      <3> QED
        BY ONLY <3>1
    <2>3. \A i \in 1 .. Newest, n \in Names : Unsubscribes(i, n)' <=> Unsubscribes(i, n)
      BY <2>1, CommandsGrow
    <2>4. \A n \in Names : Unsubscribes(id, n)' <=> kind = "unsubscribe" /\ n \in ToSet(names)
      BY <2>1, CommandsGrow
    <2>5. \A k \in 0 .. Newest : Wanted(k)' = Wanted(k)
      BY <2>1, CommandsGrow
    <2> QED
      BY <2>2, <2>3, <2>4, <2>5, <2>6
  <1>7. Written' = Written
    <2>1. Len(obuf') = Len(obuf) + 1 /\ Len(obuf) \in Nat
      BY <1>2, <1>3 DEF AsyncTypes
    <2>2. Written' = Newest' - Len(obuf') /\ Written = Newest - Len(obuf)
      BY DEF Written
    <2> QED
      BY <1>1, <1>6, <2>1, <2>2
  <1>8. /\ DOMAIN subs' \subseteq Names
        /\ \A n \in DOMAIN subs' : \/ n \in DOMAIN subs /\ subs'[n] = subs[n]
                                   \/ subs'[n] \in [id : {id}, pending : 1 .. id]
        /\ EntriesInv(Flight, Written, ssubs)' /\ SilenceInv(Flight, ssubs)'
        /\ LeaveInv(Flight, Written, ssubs)'
    BY <1>1, <1>2, <1>3, <1>4, <1>5, <1>7, CommandNames
  <1>9. AsyncTypes'
    BY <1>1, <1>2, <1>3, <1>8, CommandTypes
  <1>10. HistoryInv'
    <2>1. \A i : i \in 1 .. id <=> i \in 1 .. Newest \/ i = id
      BY <1>1, <1>6
    <2>2. ASSUME NEW i \in 1 .. Newest
          PROVE  /\ cmds'[i].kind \in Asks => /\ cmds'[i].names # <<>> /\ IsInjective(cmds'[i].names)
                                              /\ Len(cmds'[i].names) <= MaxNames
                 /\ cmds'[i].kind # "monitor"
                 /\ \A n \in Names : Unsubscribes(i, n)' => n \in Wanted(i - 1)'
      <3>1. cmds'[i] = cmds[i] /\ i - 1 \in 0 .. Newest
        BY <1>6
      <3>2. Wanted(i - 1)' = Wanted(i - 1)
        BY <1>6, <3>1
      <3> QED
        BY <1>2, <1>3, <1>6, <3>1, <3>2 DEF HistoryInv
    <2>3. /\ cmds'[id].kind \in Asks => /\ cmds'[id].names # <<>> /\ IsInjective(cmds'[id].names)
                                        /\ Len(cmds'[id].names) <= MaxNames
          /\ cmds'[id].kind = "monitor" => id = Newest' /\ Monitoring'
      BY <1>2, <1>4, <1>6
    <2>4. \A n \in Names : Unsubscribes(id, n)' => n \in Wanted(id - 1)'
      <3>1. id - 1 = Newest /\ Newest \in 0 .. Newest
        BY <1>1, <1>6
      <3>2. PICK k \in 0 .. Newest : k = Newest
        BY <3>1
      <3>3. id - 1 = k
        BY <3>1, <3>2
      <3>4. Wanted(k)' = Wanted(k) /\ Wanted(k) = Wanted(Newest)
        BY <1>6, <3>2
      <3> QED
        BY <1>2, <1>6, <3>3, <3>4
    <2>5. Monitoring' => Newest' >= 1 /\ cmds'[Newest'].kind = "monitor"
      BY <1>1, <1>4, <1>6
    <2> QED
      BY <1>6, <2>1, <2>2, <2>3, <2>4, <2>5 DEF HistoryInv
  <1>11. ModeInv'
    <2>1. ~Subscribed' => DOMAIN subs' = {}
      BY <1>2, <1>3, <1>4 DEF ModeInv
    <2>2. ~(Subscribed' /\ Monitoring')
      BY <1>2, <1>4
    <2>3. sock' = sock
      BY <1>2 DEF server
    <2> QED
      BY <1>2, <1>3, <1>5, <2>1, <2>2, <2>3 DEF ModeInv
  <1>12. WaitingGetsInv'
    BY <1>1, <1>2, <1>3, <1>4, CommandWaits
  <1>13. LineInv(Flight, Written, ssubs)'
    BY <1>1, <1>2, <1>3, <1>4, <1>5, <1>7, CommandLine
  <1>14. pc' # "gone"
    BY <1>2
  <1> QED
    BY <1>8, <1>9, <1>10, <1>11, <1>12, <1>13, <1>14 DEF AsyncInv, LinkInv

-----------------------------------------------------------------------------
LEMMA AsyncStarts ==
  ASSUME Init
  PROVE  AsyncInv
  <1>1. /\ flags = {} /\ err = FALSE /\ replies = <<>> /\ invalid = <<>> /\ subs = <<>>
        /\ obuf = <<>> /\ inbuf = <<>> /\ cb = NoCb /\ pc = "loop" /\ cmds = <<>> /\ got = <<>>
        /\ wire = <<>> /\ open = TRUE /\ ssubs = {} /\ smon = FALSE
    BY DEF Init
  <1>2. Newest = 0 /\ Written = 0 /\ Flight = <<>> /\ Len(Flight) = 0 /\ DOMAIN subs = {}
        /\ Len(replies) = 0
    BY <1>1 DEF Newest, Written, Flight
  <1>3. AsyncTypes
    <2>1. /\ <<>> \in Seq(Callbacks(0)) /\ <<>> \in Seq(Nat) /\ <<>> \in Seq(Messages)
          /\ <<>> \in Seq([kind : Kinds, names : Seq(Names)])
          /\ <<>> \in Seq(Seq({"own", "null", "other"})) /\ Len(<<>>) = 0
      OBVIOUS
    <2>2. NoCb \in Callbacks(0)
      BY DEF NoCb, Callbacks
    <2>3. /\ cmds \in Seq([kind : Kinds, names : Seq(Names)])
          /\ got \in Seq(Seq({"own", "null", "other"})) /\ Len(got) = Newest
      BY <1>1, <1>2, <2>1
    <2>4. replies \in Seq(Callbacks(Newest)) /\ cb \in Callbacks(Newest)
      BY <1>1, <1>2, <2>1, <2>2
    <2>5. obuf \in Seq(Nat) /\ Written \in Nat /\ \A i \in 1 .. Len(obuf) : obuf[i] = Written + i
      BY <1>1, <1>2, <2>1
    <2>6. inbuf \in Seq(Messages) /\ wire \in Seq(Messages)
      BY <1>1, <2>1
    <2> QED
      BY <1>1, <1>2, <2>3, <2>4, <2>5, <2>6 DEF AsyncTypes
  <1>4. HistoryInv
    BY <1>1, <1>2 DEF HistoryInv, Monitoring
  <1>5. ModeInv /\ WaitingGetsInv
    BY <1>1, <1>2 DEF ModeInv, WaitingGetsInv, Monitoring, Subscribed
  <1>6. Wanted(0) = {}
    BY DEF Wanted
  <1>7. LineInv(Flight, Written, ssubs)
    <2>1. Ordered(Flight, Written, ssubs, 0)
      BY <1>1, <1>2 DEF Ordered
    <2> QED
      BY <1>1, <1>2, <2>1 DEF LineInv, Monitoring
  <1>8. EntriesInv(Flight, Written, ssubs)
    BY <1>1, <1>2, <1>6 DEF EntriesInv
  <1>9. SilenceInv(Flight, ssubs) /\ LeaveInv(Flight, Written, ssubs)
    BY <1>1, <1>2 DEF SilenceInv, LeaveInv, Subscribed
  <1> QED
    BY <1>1, <1>3, <1>4, <1>5, <1>7, <1>8, <1>9 DEF AsyncInv, LinkInv

LEMMA GoneStep ==
  ASSUME AsyncInv, pc = "gone", Next
  PROVE  AsyncInv'
  <1>0. AsyncTypes
    BY DEF AsyncInv
  <1>1. ~UserCalls /\ ~ProcessCallbacks
    BY DEF UserCalls, redisAsyncCommand, redisAsyncDisconnect, redisAsyncFree,
           redisAsyncSetConnectCallback, MayCall, MayEnd,
           ProcessCallbacks, ProcessRegular, ProcessSpontaneousError, ProcessPubSub,
           ProcessMonitor, ProcessEnd, Unasked, InTurn
  <1>2. /\ ~HandleWrite /\ ~ConnectCallbackReturns /\ ~HandleRead /\ ~HandleReadPart
        /\ ~HandleReadFails /\ ~CallbackReturns
    BY DEF HandleWrite, ConnectCallbackReturns, HandleRead, HandleReadPart, HandleReadFails,
           CallbackReturns
  <1>3. CASE Connects
    BY <1>0, <1>3, GoneKeeps DEF Connects, AsyncTypes
  <1>4. CASE Published
    <2>1. UNCHANGED <<client, user, ssubs, smon, open>> /\ wire \in Seq(Messages) /\ ssubs \subseteq Names
      BY <1>0, <1>4 DEF Published, AsyncTypes
    <2>2. wire' \in Seq(Messages) /\ open' \in BOOLEAN
      <3>1. \A n \in ssubs : PubSub("message", n, 0) \in Messages
        BY <2>1 DEF PubSub, Messages, Told
      <3>2. [kind |-> "feed"] \in Messages
        BY DEF Messages
      <3>3. open' = open /\ open \in BOOLEAN
        BY <1>0, <2>1 DEF AsyncTypes
      <3>4. \E m \in Messages : wire' = Append(wire, m)
        BY <1>4, <3>1, <3>2 DEF Published
      <3> QED
        BY <2>1, <3>3, <3>4
    <2> QED
      BY <2>1, <2>2, GoneKeeps
  <1>5. CASE Closed
    <2>1. UNCHANGED <<client, user, ssubs, smon>> /\ open' = FALSE
      BY <1>5 DEF Closed
    <2>2. wire' \in Seq(Messages)
      <3>1. <<Reply("error", 0)>> \in Seq(Messages) /\ wire \in Seq(Messages)
        BY <1>0 DEF AsyncTypes, Reply, Messages
      <3> QED
        BY <1>5, <3>1 DEF Closed
    <2> QED
      BY <2>1, <2>2, GoneKeeps
  <1> QED
    BY <1>1, <1>2, <1>3, <1>4, <1>5 DEF Next

LEMMA AsyncStepKeeps ==
  ASSUME AsyncInv, Unruly = FALSE, Next
  PROVE  AsyncInv'
  <1>1. CASE pc = "gone"
    BY <1>1, GoneStep
  <1>2. CASE pc # "gone"
    <2>1. CASE UserCalls
      BY <2>1, CommandStep, DisconnectStep, FreeStep, SetConnectStep DEF UserCalls
    <2>2. CASE HandleWrite \/ ConnectCallbackReturns
      BY <2>2, WriteStep
    <2>3. CASE HandleRead \/ HandleReadPart
      BY <2>3, ReadStep
    <2>4. CASE HandleReadFails
      BY <2>4, FailStep
    <2>5. CASE ProcessCallbacks
      BY <2>5, RegularStep, FailStep, PubSubStep, MonitorStep, EndStep DEF ProcessCallbacks
    <2>6. CASE CallbackReturns
      BY <2>6, ReturnStep
    <2>7. CASE Connects \/ Published \/ Closed
      BY <1>2, <2>7, ConnectsStep, PublishedStep, ClosedStep
    <2> QED
      BY <2>1, <2>2, <2>3, <2>4, <2>5, <2>6, <2>7 DEF Next
  <1> QED
    BY <1>1, <1>2
LEMMA AsyncUnchanged ==
  ASSUME AsyncInv, UNCHANGED vars
  PROVE  AsyncInv'
  <1>1. UNCHANGED <<client, user, server>>
    BY DEF vars
  <1>2. AsyncTypes
    BY DEF AsyncInv
  <1>3. CASE pc = "gone"
    BY <1>1, <1>2, <1>3, GoneKeeps DEF AsyncTypes, server
  <1>4. CASE pc # "gone"
    <2>1. ModeInv /\ WaitingGetsInv
      BY <1>4 DEF AsyncInv
    <2>2. /\ UNCHANGED <<err, replies, invalid, subs, obuf, cmds, got, ssubs, smon, open, inbuf, wire,
                         sock, flags, pc, cb>>
          /\ Flight' = Flight
      BY <1>1 DEF client, user, server, Flight
    <2>3. (Monitoring' <=> Monitoring) /\ (Subscribed' <=> Subscribed)
      BY <2>2 DEF Monitoring, Subscribed
    <2>4. Monitoring /\ pc \notin {"loop", "onConnect"} => cb.id \in {0, Newest}
      BY <2>1 DEF WaitingGetsInv
    <2> QED
      BY <1>2, <1>4, <2>1, <2>2, <2>3, <2>4, Moves DEF AsyncTypes, ModeInv
  <1> QED
    BY <1>3, <1>4
=============================================================================
