--------------------------------- MODULE Sds ---------------------------------
(***************************************************************************)
(* The strings of sds.c, which hiredis keeps its buffers in: a header with   *)
(* the length and the room there is, in fields as wide as the type of the    *)
(* header says, and the bytes behind it with a NUL at the end.               *)
(*                                                                          *)
(* The fields are counters modulo their range.  A call whose malloc fails    *)
(* leaves the string as it is, which is no step.                            *)
(***************************************************************************)
EXTENDS Integers, SequencesExt

CONSTANTS Chars,             \* what the strings are made of
          SDS_MAX_PREALLOC,
          TypeRange,         \* the range of the fields of each type of header
          MaxLen             \* bound on the length of a string

NUL == "0"

SDS_TYPE_5 == 1
SDS_TYPE_8 == 2

VARIABLE str   \* the string: its header, its bytes (none once it is freed) and
               \* the bytes malloc gave for them

-----------------------------------------------------------------------------
(* The header                                                               *)

Types == DOMAIN TypeRange

\* Slip: the limit is the range itself, which a field cannot hold.
sdsReqTypeInclusive(n) ==
  Min({t \in Types : n <= TypeRange[t]} \cup {Len(TypeRange)})

\* The largest type takes what the others do not.
sdsReqType(n) ==
  Min({t \in Types : n < IF t = SDS_TYPE_5 THEN TypeRange[t] ELSE TypeRange[t] - 1}
      \cup {Len(TypeRange)})

sdsalloc(s) == IF s.type = SDS_TYPE_5 THEN s.len ELSE s.alloc
sdsavail(s) == sdsalloc(s) - s.len

sdssetlen(s, n) == [s EXCEPT !.len = n % TypeRange[s.type]]
sdssetalloc(s, n) ==
  [s EXCEPT !.alloc = IF s.type = SDS_TYPE_5 THEN @ ELSE n % TypeRange[s.type]]

Text(s) == SubSeq(s.mem, 1, s.len)

\* The bytes of text and a NUL are written, and the length is set.
Put(s, text) == sdssetlen([s EXCEPT !.mem = text \o <<NUL>>], Len(text))

\* Memory for n bytes and the NUL, behind a header of type t.
Moved(s, t, n) ==
  sdssetalloc(sdssetlen([s EXCEPT !.type = t, !.room = n + 1], s.len), n)

-----------------------------------------------------------------------------
(* The calls                                                                *)

sdsnewlen(init) ==
  LET t == IF init = <<>> THEN SDS_TYPE_8 ELSE sdsReqType(Len(init))
      s == [type |-> t, len |-> 0, alloc |-> 0, mem |-> <<>>, room |-> Len(init) + 1]
  IN  Put(sdssetalloc(s, Len(init)), init)

Preallocated(n) == IF n < SDS_MAX_PREALLOC THEN 2 * n ELSE n + SDS_MAX_PREALLOC

sdsMakeRoomFor(s, addlen) ==
  LET newlen == Preallocated(s.len + addlen)
  IN  IF sdsavail(s) >= addlen THEN s
      ELSE Moved(s, Max({sdsReqType(newlen), SDS_TYPE_8}), newlen)

sdsRemoveFreeSpace(s) == Moved(s, sdsReqType(s.len), s.len)

sdscatlen(s, t) == Put(sdsMakeRoomFor(s, Len(t)), Text(s) \o t)

sdscpylen(s, t) ==
  Put(IF sdsalloc(s) < Len(t) THEN sdsMakeRoomFor(s, Len(t) - s.len) ELSE s, t)

sdsgrowzero(s, n) ==
  IF n <= s.len THEN s
  ELSE Put(sdsMakeRoomFor(s, n - s.len), Text(s) \o [i \in 1 .. n - s.len |-> NUL])

\* A piece of sdscatfmt: room for one byte first, then for all of it.
CatPiece(s, t) ==
  LET one == IF sdsavail(s) = 0 THEN sdsMakeRoomFor(s, 1) ELSE s
      all == IF sdsavail(one) < Len(t) THEN sdsMakeRoomFor(one, Len(t)) ELSE one
  IN  Put(all, Text(s) \o t)

\* With a format of two pieces.
sdscatfmt(s, t, u) == CatPiece(CatPiece(s, t), u)

\* The caller makes room for n bytes, writes t there and tells sdsIncrLen.
ReadInto(s, n, t) == Put(sdsMakeRoomFor(s, n), Text(s) \o t)

\* sdsIncrLen with a negative argument.
sdsIncrLen(s, incr) == Put(s, SubSeq(s.mem, 1, s.len + incr))

sdsclear(s) == Put(s, <<>>)

\* The length becomes that of strlen.
sdsupdatelen(s) == Put(s, SubSeq(s.mem, 1, SelectInSeq(s.mem, LAMBDA c : c = NUL) - 1))

\* strchr finds the NUL at the end of cset, too.
sdstrim(s, cset) ==
  LET kept == {i \in 1 .. s.len : s.mem[i] \notin cset \cup {NUL}}
  IN  Put(s, IF kept = {} THEN <<>> ELSE SubSeq(s.mem, Min(kept), Max(kept)))

\* An index of sdsrange, counted from the end when it is negative.
FromStart(i, len) == IF i < 0 THEN Max({len + i, 0}) ELSE i

sdsrange(s, start, end) ==
  LET a == FromStart(start, s.len)
      b == FromStart(end, s.len)
      newlen == IF a > b \/ a >= s.len THEN 0 ELSE Min({b, s.len - 1}) - a + 1
  IN  IF s.len = 0 THEN s ELSE Put(s, SubSeq(s.mem, a + 1, a + newlen))

-----------------------------------------------------------------------------
Texts(n) == UNION {[1 .. k -> Chars] : k \in 0 .. n}
Indices == -(MaxLen + 1) .. MaxLen + 1

Freed == [sdsnewlen(<<>>) EXCEPT !.mem = <<>>, !.room = 0]
alive == str.mem # <<>>

Init == \E t \in Texts(MaxLen) : str = sdsnewlen(t)

Renew == ~alive /\ \E t \in Texts(MaxLen) : str' = sdsnewlen(t)
sdsfree == alive /\ str' = Freed

Grow == \E t \in Texts(MaxLen - str.len) :
             \/ str' = sdscatlen(str, t) \/ str' = sdsgrowzero(str, str.len + Len(t))
             \/ \E n \in Len(t) .. MaxLen : n > 0 /\ str' = ReadInto(str, n, t)
             \/ \E k \in DOMAIN t : str' = sdscatfmt(str, SubSeq(t, 1, k), SubSeq(t, k + 1, Len(t)))

Change == \/ \E t \in Texts(MaxLen) : str' = sdscpylen(str, t)
          \/ \E k \in 1 .. str.len : str' = sdsIncrLen(str, -k)
          \/ str' = sdsRemoveFreeSpace(str) \/ str' = sdsclear(str) \/ str' = sdsupdatelen(str)
          \/ \E cset \in SUBSET Chars : str' = sdstrim(str, cset)
          \/ \E i, j \in Indices : str' = sdsrange(str, i, j)

Next == Renew \/ sdsfree \/ (alive /\ (Grow \/ Change))

Spec == Init /\ [][Next]_str

-----------------------------------------------------------------------------
\* Whichever calls grow, cut and move it, a string fits the memory it has, its
\* header tells its length and no more room than there is, and a NUL ends it: no
\* field overflows when a string grows from one type of header into another.
StringFits ==
  alive => /\ Len(str.mem) = str.len + 1 /\ Last(str.mem) = NUL
           /\ str.len <= sdsalloc(str) /\ sdsalloc(str) + 1 <= str.room

\* Is the i-th character, counted from 0, at or behind index start of len, or at
\* or before index end?
AtOrAfter(i, start, len) == IF start < 0 THEN i - len >= start ELSE i >= start
AtOrBefore(i, end, len) == IF end < 0 THEN i - len <= end ELSE i <= end

\* sdsrange keeps the characters between both indices, inclusive, whatever their
\* signs and order (an end before the first character stands for the first).
RangesInclusive ==
  alive => \A start \in Indices, end \in -str.len .. MaxLen + 1 :
    LET kept == {i \in 1 .. str.len : /\ AtOrAfter(i - 1, start, str.len)
                                      /\ AtOrBefore(i - 1, end, str.len)}
    IN  Text(sdsrange(str, start, end)) =
          IF kept = {} THEN <<>> ELSE SubSeq(str.mem, Min(kept), Max(kept))
==============================================================================
