--------------------------- MODULE StructuresProofs ---------------------------
(***************************************************************************)
(* Proofs about the structures without liveness, for every value of the      *)
(* constants: the page pool keeps its blocks apart and its descriptors one   *)
(* to a large block, both free lists are object pools, and the ring buffer   *)
(* is a queue of bytes.  Each part has its own inductive invariant (PagesInv, *)
(* ListInv, AllocatorInv, RingInv) and is left alone by the steps of the       *)
(* others.                                                                  *)
(***************************************************************************)
EXTENDS MCStructures, FiniteSetTheorems, WellFoundedInduction, TLAPS

LEMMA Least ==
  ASSUME NEW T \in SUBSET Nat, T # {}
  PROVE  \E x \in T : \A y \in T : x <= y
  <1>1. PICK x \in T : \A y \in T : ~(<<y, x>> \in OpToRel(<, Nat))
    BY WFMin, NatLessThanWellFounded
  <1>2. \A y \in T : ~(y < x)
    BY <1>1 DEF OpToRel
  <1> QED
    BY <1>2

LEMMA Greatest ==
  ASSUME NEW T \in SUBSET Nat, T # {}, NEW n \in Nat, \A x \in T : x <= n
  PROVE  \E x \in T : \A y \in T : y <= x
  <1> DEFINE U == {n - x : x \in T}
  <1>1. U \subseteq Nat
    OBVIOUS
  <1>2. U # {}
    OBVIOUS
  <1>3. PICK u \in U : \A v \in U : u <= v
    BY <1>1, <1>2, Least
  <1>4. PICK x \in T : u = n - x
    OBVIOUS
  <1>5. ASSUME NEW y \in T PROVE y <= x
    BY <1>3, <1>4
  <1> QED
    BY <1>5

LEMMA DivMod ==
  ASSUME NEW x \in Nat, NEW a \in Nat \ {0}
  PROVE  /\ x = a * (x \div a) + (x % a) /\ x % a < a
         /\ x % a \in Nat /\ x \div a \in Nat
  OBVIOUS

LEMMA Align ==
  ASSUME NEW x \in Nat, NEW a \in Nat \ {0}
  PROVE  ((x + a - 1) \div a) * a >= x /\ ((x + a - 1) \div a) * a \in Nat
  <1> DEFINE y == x + a - 1
  <1>1. y \in Nat
    OBVIOUS
  <1> HIDE DEF y
  <1>2. /\ y = a * (y \div a) + (y % a) /\ y % a < a
        /\ y % a \in Nat /\ y \div a \in Nat
    BY <1>1, DivMod
  <1> DEFINE q == y \div a
             r == y % a
  <1>3. y = a * q + r /\ r < a /\ r \in Nat /\ q \in Nat
    BY <1>2
  <1> HIDE DEF q, r
  <1>4. q * a \in Nat /\ q * a = y - r
    <2>1. a * q \in Nat /\ q * a = a * q
      BY <1>3
    <2> QED
      BY <1>1, <1>3, <2>1
  <1>5. q * a >= x
    <2>1. y - r >= x
      BY <1>1, <1>3 DEF y
    <2> QED
      BY <1>4, <2>1
  <1> QED
    BY <1>4, <1>5 DEF q, y

LEMMA Prefixed ==
  ASSUME NEW S, NEW s \in Seq(S), NEW k \in S
  PROVE  /\ <<k>> \o s \in Seq(S) /\ Len(<<k>> \o s) = Len(s) + 1
         /\ (<<k>> \o s)[1] = k
         /\ \A i \in 1 .. Len(s) : (<<k>> \o s)[i + 1] = s[i]
  OBVIOUS

-----------------------------------------------------------------------------
(* The page pool                                                            *)

PageRec == [last : Nat, end : Int, failed : Nat]
BlockRec == [page : Nat, first : Nat, size : Nat]

PagesTyped == /\ max \in 0 .. MP_MAX_ALLOC_FROM_POOL /\ current \in Nat
              /\ pages \in Seq(PageRec)
              /\ \A b \in blocks : b \in BlockRec

\* The blocks of a page lie one beside the other between its header and last.
BlocksBelow ==
  /\ \A n \in DOMAIN pages : pages[n].last >= Pages!Start(n)
  /\ \A b \in blocks : /\ b.page \in DOMAIN pages
                       /\ b.first >= Pages!Start(b.page)
                       /\ b.first + b.size <= pages[b.page].last
  /\ \A b, c \in blocks : b # c /\ b.page = c.page =>
       b.first + b.size <= c.first \/ c.first + c.size <= b.first

\* From current on no page has failed more often than one before it, so that the
\* last that failed too often is not the only one.
FailuresFall ==
  /\ pages # <<>> => current \in DOMAIN pages
  /\ pages = <<>> => current = 0 /\ blocks = {}
  /\ \A n \in DOMAIN pages : n < current => pages[n].failed > MaxFailed + 1
  /\ \A n, o \in DOMAIN pages : current <= n /\ n <= o => pages[o].failed <= pages[n].failed

SmallInv == PagesTyped /\ BlocksBelow /\ FailuresFall

LargeInv == /\ large \in Seq(Larges \cup {"NULL"}) /\ malloced \subseteq Larges
            /\ Pages!LargeBlocksOwned

PagesInv == SmallInv /\ LargeInv

\* The fields of pages and blocks, as plain facts.
LEMMA Fields ==
  ASSUME PagesTyped
  PROVE  /\ Len(pages) \in Nat /\ DOMAIN pages = 1 .. Len(pages)
         /\ \A n \in DOMAIN pages : /\ pages[n] \in PageRec
                                    /\ pages[n].last \in Nat /\ pages[n].end \in Int
                                    /\ pages[n].failed \in Nat
         /\ \A b \in blocks : b.page \in Nat /\ b.first \in Nat /\ b.size \in Nat
  <1>1. Len(pages) \in Nat /\ DOMAIN pages = 1 .. Len(pages)
    BY DEF PagesTyped
  <1>2. \A n \in DOMAIN pages : pages[n] \in PageRec
    BY <1>1 DEF PagesTyped
  <1>3. \A r \in PageRec : r.last \in Nat /\ r.end \in Int /\ r.failed \in Nat
    BY DEF PageRec
  <1>4. \A r \in BlockRec : r.page \in Nat /\ r.first \in Nat /\ r.size \in Nat
    BY DEF BlockRec
  <1> QED
    BY <1>1, <1>2, <1>3, <1>4 DEF PagesTyped

LEMMA Starts == \A n : Pages!Start(n) \in Nat /\ (n # 1 => Pages!Start(n) = 4)
  BY DEF Pages!Start, Pages!PoolHeader, Pages!NodeHeader

LEMMA CutKeeps ==
  ASSUME SmallInv, NEW n \in DOMAIN pages, NEW place \in Nat, NEW words \in Nat,
         pages[n].last <= place, Pages!Cut(n, place, words), max' = max
  PROVE  SmallInv'
  <1> DEFINE new == [page |-> n, first |-> place, size |-> words]
  <1> USE Fields DEF SmallInv
  <1>1. /\ pages' = [pages EXCEPT ![n].last = place + words]
        /\ blocks' = blocks \cup {new}
        /\ current' = current
    BY DEF Pages!Cut
  <1>2. /\ pages' \in Seq(PageRec) /\ DOMAIN pages' = DOMAIN pages
        /\ pages'[n].last = place + words
        /\ \A o \in DOMAIN pages : pages'[o].failed = pages[o].failed
        /\ \A o \in DOMAIN pages \ {n} : pages'[o].last = pages[o].last
    <2>1. [pages[n] EXCEPT !.last = place + words] \in PageRec
      BY DEF PageRec
    <2>2. pages' = [pages EXCEPT ![n] = [pages[n] EXCEPT !.last = place + words]]
      BY <1>1
    <2>3. pages' \in Seq(PageRec) /\ DOMAIN pages' = DOMAIN pages
      BY <2>1, <2>2 DEF PagesTyped
    <2>4. \A o \in DOMAIN pages \ {n} : pages'[o] = pages[o]
      BY <2>2
    <2>5. pages'[n] = [pages[n] EXCEPT !.last = place + words]
      BY <2>2
    <2>6. pages'[n].last = place + words /\ pages'[n].failed = pages[n].failed
      BY <2>5 DEF PageRec
    <2> QED
      BY <2>3, <2>4, <2>6
  <1>3. PagesTyped'
    <2>1. new \in BlockRec
      BY DEF BlockRec
    <2> QED
      BY <1>1, <1>2, <2>1 DEF PagesTyped
  <1>4. \A o \in DOMAIN pages : /\ pages[o].last \in Nat /\ pages'[o].last \in Nat
                                /\ pages[o].last <= pages'[o].last
    <2>1. \A o \in DOMAIN pages : pages[o].last \in Nat
      OBVIOUS
    <2>2. place + words \in Nat /\ pages[n].last <= place + words
      BY <2>1
    <2>4. ASSUME NEW o \in DOMAIN pages
          PROVE  pages'[o].last \in Nat /\ pages[o].last <= pages'[o].last
      <3>1. CASE o = n
        BY <1>2, <2>2, <3>1
      <3>2. CASE o # n
        BY <1>2, <2>1, <3>2
      <3> QED
        BY <3>1, <3>2
    <2> QED
      BY <2>1, <2>4
  <1>5. \A o \in DOMAIN pages' : pages'[o].last >= Pages!Start(o)
    <2>1. \A o \in DOMAIN pages : pages[o].last >= Pages!Start(o)
      BY DEF BlocksBelow
    <2> QED
      BY <1>2, <1>4, <2>1, Starts
  <1>6. \A b \in blocks' : /\ b.page \in DOMAIN pages'
                           /\ b.first >= Pages!Start(b.page)
                           /\ b.first + b.size <= pages'[b.page].last
    <2>1. new.page = n /\ new.first = place /\ new.size = words
      OBVIOUS
    <2>2. new.first >= Pages!Start(new.page)
      BY <2>1, Starts DEF BlocksBelow
    <2>3. new.first + new.size <= pages'[new.page].last
      BY <1>2, <2>1
    <2>4. \A b \in blocks : /\ b.page \in DOMAIN pages'
                            /\ b.first >= Pages!Start(b.page)
                            /\ b.first + b.size <= pages'[b.page].last
      <3> SUFFICES ASSUME NEW b \in blocks
                   PROVE  /\ b.page \in DOMAIN pages'
                          /\ b.first >= Pages!Start(b.page)
                          /\ b.first + b.size <= pages'[b.page].last
        OBVIOUS
      <3>1. /\ b.page \in DOMAIN pages /\ b.first >= Pages!Start(b.page)
            /\ b.first + b.size <= pages[b.page].last
            /\ b.first + b.size \in Nat
        BY DEF BlocksBelow
      <3>2. pages[b.page].last \in Nat /\ pages'[b.page].last \in Nat
            /\ pages[b.page].last <= pages'[b.page].last
        BY <1>4, <3>1
      <3>3. b.first + b.size <= pages'[b.page].last
        BY ONLY <3>1, <3>2
      <3> QED
        BY <1>2, <3>1, <3>3
    <2> HIDE DEF new
    <2> QED
      BY <1>1, <1>2, <2>1, <2>2, <2>3, <2>4
  <1>7. \A b, c \in blocks' : b # c /\ b.page = c.page =>
          b.first + b.size <= c.first \/ c.first + c.size <= b.first
    <2>1. new.page = n /\ new.first = place
      OBVIOUS
    <2>2. \A b \in blocks : b.page = n => b.first + b.size <= place
      BY DEF BlocksBelow
    <2> HIDE DEF new
    <2> QED
      BY <1>1, <2>1, <2>2 DEF BlocksBelow
  <1>8. FailuresFall'
    <2>1. pages # <<>> /\ pages' # <<>>
      BY <1>2
    <2> QED
      BY <1>1, <1>2, <2>1 DEF FailuresFall
  <1> QED
    BY <1>3, <1>5, <1>6, <1>7, <1>8, Starts DEF BlocksBelow, Pages!Start

LEMMA NewPageKeeps ==
  ASSUME SmallInv, pages # <<>>, NEW words \in Nat, Pages!mp_alloc_block(words), max' = max
  PROVE  SmallInv'
  <1> DEFINE place == Pages!mp_align(Pages!NodeHeader)
             tired == {n \in Pages!Passed : Pages!Tired(n)}
             new == [page |-> Len(pages) + 1, first |-> place, size |-> words]
             len == Len(pages)
  <1>1. place \in Nat /\ place >= Pages!NodeHeader /\ Pages!NodeHeader = 4
    BY Align, PagesAssumption DEF Pages!mp_align, Pages!NodeHeader
  <1>2. len \in Nat /\ len > 0 /\ DOMAIN pages = 1 .. len /\ current \in 1 .. len
    BY DEF SmallInv, PagesTyped, FailuresFall
  <1>3. \A n \in 1 .. len : pages[n] \in PageRec
    BY <1>2, Fields DEF SmallInv
  <1>4. pages[1].end - Pages!PoolHeader \in Int
    BY <1>2, <1>3 DEF PageRec, Pages!PoolHeader
  <1>5. /\ pages' \in Seq(PageRec) /\ DOMAIN pages' = 1 .. len + 1
        /\ \A n \in 1 .. len : pages'[n].last = pages[n].last
        /\ \A n \in 1 .. current - 1 : pages'[n].failed = pages[n].failed
        /\ \A n \in current .. len - 1 : pages'[n].failed = pages[n].failed + 1
        /\ pages'[len].failed = pages[len].failed
        /\ pages'[len + 1].last = place + words /\ pages'[len + 1].failed = 0
    <2> DEFINE counted == [n \in DOMAIN pages |->
                  IF n \in Pages!Passed THEN [pages[n] EXCEPT !.failed = @ + 1] ELSE pages[n]]
               last == [last |-> place + words, end |-> pages[1].end - Pages!PoolHeader,
                        failed |-> 0]
    <2>1. pages' = Append(counted, last)
      BY DEF Pages!mp_alloc_block
    <2>2. last \in PageRec
      BY <1>1, <1>4 DEF PageRec
    <2>3. /\ counted \in Seq(PageRec) /\ Len(counted) = len
          /\ \A n \in 1 .. len : counted[n].last = pages[n].last
          /\ \A n \in 1 .. current - 1 : counted[n].failed = pages[n].failed
          /\ \A n \in current .. len - 1 : counted[n].failed = pages[n].failed + 1
          /\ counted[len].failed = pages[len].failed
      <3>1. \A r \in PageRec : /\ [r EXCEPT !.failed = @ + 1] \in PageRec
                               /\ [r EXCEPT !.failed = @ + 1].last = r.last
                               /\ [r EXCEPT !.failed = @ + 1].failed = r.failed + 1
        BY DEF PageRec
      <3>2. Pages!Passed = current .. len - 1
        BY DEF Pages!Passed
      <3>3. \A n \in 1 .. len : /\ n \in current .. len - 1 =>
                                     counted[n] = [pages[n] EXCEPT !.failed = @ + 1]
                                /\ n \notin current .. len - 1 => counted[n] = pages[n]
        BY <1>2, <3>2
      <3>4. DOMAIN counted = 1 .. len
        BY <1>2
      <3>5. \A n \in 1 .. len : counted[n] \in PageRec
        BY <1>3, <3>1, <3>3
      <3>6. counted \in Seq(PageRec) /\ Len(counted) = len
        BY <1>2, <3>4, <3>5
      <3> HIDE DEF counted
      <3>7. \A n \in 1 .. len : counted[n].last = pages[n].last
        BY <1>3, <3>1, <3>3
      <3>8. \A n \in current .. len - 1 : counted[n].failed = pages[n].failed + 1
        <4>1. \A n \in current .. len - 1 : n \in 1 .. len
          BY <1>2
        <4> QED
          BY <1>3, <3>1, <3>3, <4>1
      <3>9. \A n \in 1 .. current - 1 : counted[n].failed = pages[n].failed
        <4>1. \A n \in 1 .. current - 1 : n \in 1 .. len /\ n \notin current .. len - 1
          BY <1>2
        <4> QED
          BY <3>3, <4>1
      <3>10. counted[len].failed = pages[len].failed
        <4>1. len \in 1 .. len /\ len \notin current .. len - 1
          BY <1>2
        <4> QED
          BY <3>3, <4>1
      <3> QED
        BY <3>6, <3>7, <3>8, <3>9, <3>10
    <2> HIDE DEF counted, last
    <2>4. /\ pages' \in Seq(PageRec) /\ DOMAIN pages' = 1 .. len + 1
          /\ \A n \in 1 .. len : pages'[n] = counted[n]
          /\ pages'[len + 1] = last
      BY <1>2, <2>1, <2>2, <2>3
    <2> QED
      <3>1. last.last = place + words /\ last.failed = 0
        BY DEF last
      <3>2. \A n \in 1 .. len : pages'[n].last = pages[n].last
        BY <2>3, <2>4
      <3>3. \A n \in 1 .. current - 1 : n \in 1 .. len
        BY <1>2
      <3>4. \A n \in current .. len - 1 : n \in 1 .. len
        BY <1>2
      <3>5. len \in 1 .. len
        BY <1>2
      <3> QED
        BY <2>3, <2>4, <3>1, <3>2, <3>3, <3>4, <3>5
  <1>6. /\ blocks' = blocks \cup {new}
        /\ current' = IF tired = {} THEN current
                      ELSE 1 + CHOOSE n \in tired : \A o \in tired : o <= n
    BY DEF Pages!mp_alloc_block
  <1>7. \/ current' = current
        \/ \E t \in current .. len - 1 : pages[t].failed > MaxFailed /\ current' = t + 1
    <2>1. ASSUME tired # {} PROVE \E n \in tired : \A o \in tired : o <= n
      <3>1. tired \in SUBSET Nat /\ \A x \in tired : x <= len
        BY <1>2 DEF Pages!Passed
      <3> QED
        BY <1>2, <2>1, <3>1, Greatest
    <2>2. \A n \in tired : n \in current .. len - 1 /\ pages[n].failed > MaxFailed
      BY DEF Pages!Passed, Pages!Tired
    <2> HIDE DEF tired
    <2> DEFINE t == CHOOSE n \in tired : \A o \in tired : o <= n
    <2>3. tired # {} => t \in tired
      BY <2>1
    <2>4. tired # {} => current' = t + 1
      <3>1. tired # {} => current' = 1 + t
        BY <1>6
      <3> HIDE DEF t
      <3> QED
        BY <1>2, <2>2, <2>3, <3>1
    <2> HIDE DEF t
    <2> QED
      BY <1>6, <2>2, <2>3, <2>4
  <1>8. current' \in 1 .. len
    BY <1>2, <1>7
  <1>9. PagesTyped'
    BY <1>1, <1>2, <1>5, <1>6, <1>8 DEF SmallInv, PagesTyped, BlockRec
  <1>10. BlocksBelow'
    <2>1. \A n \in 1 .. len : pages'[n].last >= Pages!Start(n)
      BY <1>2, <1>5 DEF SmallInv, BlocksBelow
    <2>2. pages'[len + 1].last >= Pages!Start(len + 1) /\ Pages!Start(len + 1) = 4
      BY <1>1, <1>2, <1>5 DEF Pages!Start, Pages!NodeHeader
    <2>3. \A n \in DOMAIN pages' : pages'[n].last >= Pages!Start(n)
      BY <1>2, <1>5, <2>1, <2>2
    <2>4. \A b \in blocks : /\ b.page \in 1 .. len
                            /\ b.first >= Pages!Start(b.page)
                            /\ b.first + b.size <= pages'[b.page].last
      BY <1>2, <1>5 DEF SmallInv, BlocksBelow
    <2>5. \A b \in blocks' : /\ b.page \in DOMAIN pages'
                             /\ b.first >= Pages!Start(b.page)
                             /\ b.first + b.size <= pages'[b.page].last
      BY <1>1, <1>2, <1>5, <1>6, <2>2, <2>4
    <2>6. \A b \in blocks : b.page # new.page
      BY <1>2, <2>4
    <2>7. \A b, c \in blocks' : b # c /\ b.page = c.page =>
            b.first + b.size <= c.first \/ c.first + c.size <= b.first
      BY <1>6, <2>6 DEF SmallInv, BlocksBelow
    <2> QED
      BY <2>3, <2>5, <2>7 DEF BlocksBelow, Pages!Start
  <1>11. FailuresFall'
    <2>1. MaxFailed \in Nat /\ \A n \in 1 .. len : pages[n].failed \in Nat
      BY <1>3, PagesAssumption DEF PageRec
    <2>2. \A n, o \in 1 .. len : current <= n /\ n <= o => pages[o].failed <= pages[n].failed
      BY <1>2 DEF SmallInv, FailuresFall
    <2>3. \A n \in 1 .. current - 1 : pages[n].failed > MaxFailed + 1
      BY <1>2 DEF SmallInv, FailuresFall
    <2>4. \A n \in 1 .. len + 1 : n < current' => pages'[n].failed > MaxFailed + 1
      <3> SUFFICES ASSUME NEW n \in 1 .. len + 1, n < current'
                   PROVE  pages'[n].failed > MaxFailed + 1
        OBVIOUS
      <3>1. CASE n < current
        BY <1>2, <1>5, <1>8, <2>3, <3>1
      <3>2. CASE n >= current
        <4>1. PICK t \in current .. len - 1 : pages[t].failed > MaxFailed /\ current' = t + 1
          <5>1. current' # current
            <6>1. current \in Int /\ current' \in Int
              BY <1>2, <1>8
            <6> QED
              BY <3>2, <6>1
          <5> QED
            BY <1>7, <5>1
        <4>2. pages[t].failed <= pages[n].failed
          BY <1>2, <2>2, <3>2, <4>1
        <4> QED
          <5>1. n \in current .. len - 1
            BY <1>2, <3>2, <4>1
          <5>2. pages[n].failed \in Nat /\ pages[t].failed \in Nat
            BY <1>2, <2>1, <4>1, <5>1
          <5> QED
            <6>1. pages'[n].failed = pages[n].failed + 1
              BY <1>5, <5>1
            <6> QED
              BY <2>1, <4>1, <4>2, <5>2, <6>1
      <3> QED
        BY <1>2, <1>8, <3>1, <3>2
    <2>5. \A n, o \in 1 .. len + 1 : current' <= n /\ n <= o => pages'[o].failed <= pages'[n].failed
      <3> SUFFICES ASSUME NEW n \in 1 .. len + 1, NEW o \in 1 .. len + 1,
                          current' <= n, n <= o
                   PROVE  pages'[o].failed <= pages'[n].failed
        OBVIOUS
      <3>1. current <= n
        BY <1>2, <1>7, <1>8
      <3>2. pages'[n].failed \in Nat
        <4>1. pages'[n] \in PageRec
          BY <1>2, <1>5
        <4> QED
          BY <4>1 DEF PageRec
      <3>3. CASE o = len + 1
        BY <1>5, <3>2, <3>3
      <3>4. CASE o = len /\ n < len
        BY <1>2, <1>5, <2>1, <2>2, <3>1, <3>4
      <3>5. CASE o < len
        <4>1. n \in current .. len - 1 /\ o \in current .. len - 1
          BY <1>2, <3>1, <3>5
        <4>2. /\ pages'[n].failed = pages[n].failed + 1
              /\ pages'[o].failed = pages[o].failed + 1
          BY <1>5, <4>1
        <4>3. pages[o].failed <= pages[n].failed
          BY <2>2, <4>1
        <4>4. pages[n].failed \in Nat /\ pages[o].failed \in Nat
          BY <1>2, <2>1, <4>1
        <4>5. pages[o].failed + 1 <= pages[n].failed + 1
          BY ONLY <4>3, <4>4
        <4> QED
          BY <4>2, <4>5
      <3>6. CASE o = len /\ n = len
        BY <3>2, <3>6
      <3> QED
        <4>1. \/ o = len + 1
              \/ o < len
              \/ o = len /\ n < len
              \/ o = len /\ n = len
          <5>1. n \in Int /\ o \in Int /\ len \in Int /\ n <= o /\ o <= len + 1
            BY <1>2
          <5> QED
            BY <5>1
        <4> QED
          BY <3>3, <3>4, <3>5, <3>6, <4>1
    <2> QED
      BY <1>2, <1>5, <1>8, <2>4, <2>5 DEF FailuresFall
  <1> QED
    BY <1>9, <1>10, <1>11 DEF SmallInv

LEMMA SmallKeeps ==
  ASSUME SmallInv, pages # <<>>, NEW words \in Nat, NEW aligned, Pages!Small(words, aligned),
         max' = max
  PROVE  SmallInv'
  <1> DEFINE roomy == Pages!Roomy(words, aligned)
             n == CHOOSE n \in roomy : \A o \in roomy : n <= o
  <1>1. CASE roomy = {}
    BY <1>1, NewPageKeeps DEF Pages!Small
  <1>2. CASE roomy # {}
    <2>1. roomy \subseteq DOMAIN pages
      <3>1. current \in DOMAIN pages /\ DOMAIN pages = 1 .. Len(pages)
        BY Fields DEF SmallInv, FailuresFall
      <3> QED
        BY <3>1 DEF Pages!Roomy
    <2>2. n \in DOMAIN pages
      <3>1. roomy \in SUBSET Nat
        BY <2>1, Fields DEF SmallInv
      <3>2. \E k \in roomy : \A o \in roomy : k <= o
        BY <1>2, <3>1, Least
      <3> HIDE DEF roomy
      <3>3. n \in roomy
        BY <3>2
      <3> QED
        BY <2>1, <3>3
    <2>3. Pages!Cut(n, Pages!Place(n, aligned), words)
      BY <1>2 DEF Pages!Small
    <2> HIDE DEF n
    <2>4. pages[n].last \in Nat
      BY <2>2, Fields DEF SmallInv
    <2>5. Pages!Place(n, aligned) \in Nat /\ pages[n].last <= Pages!Place(n, aligned)
      <3>1. Pages!mp_align(pages[n].last) \in Nat /\ Pages!mp_align(pages[n].last) >= pages[n].last
        <4> DEFINE last == pages[n].last
        <4>1. last \in Nat /\ MP_ALIGNMENT \in Nat \ {0}
          BY <2>4, PagesAssumption
        <4> HIDE DEF last
        <4>2. Pages!mp_align(last) \in Nat /\ Pages!mp_align(last) >= last
          BY <4>1, Align DEF Pages!mp_align
        <4> QED
          BY <4>2 DEF last
      <3> QED
        BY <2>4, <3>1 DEF Pages!Place
    <2> QED
      BY <2>2, <2>3, <2>5, CutKeeps
  <1> QED
    BY <1>1, <1>2

\* A vacant descriptor takes a new block.
LEMMA DescriptorReused ==
  ASSUME LargeInv, NEW p \in Larges \ malloced, NEW k \in DOMAIN large, large[k] = "NULL",
         malloced' = malloced \cup {p}, large' = [large EXCEPT ![k] = p]
  PROVE  LargeInv'
  <1>1. /\ large' \in Seq(Larges \cup {"NULL"}) /\ DOMAIN large' = DOMAIN large
        /\ large'[k] = p /\ \A j \in DOMAIN large \ {k} : large'[j] = large[j]
    BY DEF LargeInv
  <1>2. p # "NULL" /\ \A j \in DOMAIN large : large[j] # p
    BY PagesAssumption DEF LargeInv, Pages!LargeBlocksOwned, Pages!Pointed, Pages!NULL
  <1>3. Pages!Pointed' = Pages!Pointed \cup {p}
    BY <1>1, <1>2 DEF Pages!Pointed, Pages!NULL
  <1>4. \A i, j \in DOMAIN large' : large'[i] # "NULL" /\ large'[i] = large'[j] => i = j
    BY <1>1, <1>2 DEF LargeInv, Pages!LargeBlocksOwned, Pages!NULL
  <1> QED
    BY <1>1, <1>3, <1>4 DEF LargeInv, Pages!LargeBlocksOwned, Pages!NULL

\* Or a new descriptor does.
LEMMA DescriptorAdded ==
  ASSUME LargeInv, NEW p \in Larges \ malloced,
         malloced' = malloced \cup {p}, large' = <<p>> \o large
  PROVE  LargeInv'
  <1>1. /\ large' \in Seq(Larges \cup {"NULL"})
        /\ Len(large) \in Nat /\ DOMAIN large = 1 .. Len(large)
        /\ DOMAIN large' = 1 .. Len(large) + 1
        /\ large'[1] = p /\ \A j \in 1 .. Len(large) : large'[j + 1] = large[j]
    BY Prefixed DEF LargeInv
  <1>2. p # "NULL" /\ \A j \in DOMAIN large : large[j] # p
    BY PagesAssumption DEF LargeInv, Pages!LargeBlocksOwned, Pages!Pointed, Pages!NULL
  <1>3. \A j \in DOMAIN large' : \/ j = 1
                                 \/ j # 1 /\ j - 1 \in DOMAIN large /\ large'[j] = large[j - 1]
    <2> SUFFICES ASSUME NEW j \in DOMAIN large', j # 1
                 PROVE  j - 1 \in DOMAIN large /\ large'[j] = large[j - 1]
      OBVIOUS
    <2>1. j - 1 \in 1 .. Len(large) /\ (j - 1) + 1 = j
      BY <1>1
    <2> QED
      BY <1>1, <2>1
  <1>4. Pages!Pointed' = Pages!Pointed \cup {p}
    <2>1. \A j \in DOMAIN large : j + 1 \in DOMAIN large' /\ large'[j + 1] = large[j]
      BY <1>1
    <2>2. {large'[j] : j \in DOMAIN large'} = {large[j] : j \in DOMAIN large} \cup {p}
      <3>1. ASSUME NEW j \in DOMAIN large'
            PROVE  large'[j] \in {large[i] : i \in DOMAIN large} \cup {p}
        BY <1>1, <1>3
      <3>2. ASSUME NEW j \in DOMAIN large PROVE large[j] \in {large'[i] : i \in DOMAIN large'}
        BY <2>1
      <3>3. p \in {large'[i] : i \in DOMAIN large'}
        BY <1>1
      <3> QED
        BY <3>1, <3>2, <3>3
    <2> QED
      BY <1>2, <2>2 DEF Pages!Pointed, Pages!NULL
  <1>5. \A i, j \in DOMAIN large' : large'[i] # "NULL" /\ large'[i] = large'[j] => i = j
    <2> SUFFICES ASSUME NEW i \in DOMAIN large', NEW j \in DOMAIN large',
                        large'[i] # "NULL", large'[i] = large'[j]
                 PROVE  i = j
      OBVIOUS
    <2>1. CASE i = 1 \/ j = 1
      BY <1>1, <1>2, <1>3, <2>1
    <2>2. CASE i # 1 /\ j # 1
      <3>1. /\ i - 1 \in DOMAIN large /\ j - 1 \in DOMAIN large
            /\ large[i - 1] # "NULL" /\ large[i - 1] = large[j - 1]
        BY <1>3, <2>2
      <3>2. i - 1 = j - 1
        BY <3>1 DEF LargeInv, Pages!LargeBlocksOwned, Pages!NULL
      <3> QED
        BY <1>1, <3>2
    <2> QED
      BY <2>1, <2>2
  <1> QED
    BY <1>1, <1>4, <1>5 DEF LargeInv, Pages!LargeBlocksOwned, Pages!NULL

LEMMA LargeFreed ==
  ASSUME LargeInv, NEW p \in Larges, Pages!mp_free(p)
  PROVE  LargeInv'
  <1>1. PICK k \in DOMAIN large : large[k] = p /\ large' = [large EXCEPT ![k] = "NULL"]
    BY DEF Pages!mp_free, Pages!NULL
  <1>2. malloced' = malloced \ {p}
    BY DEF Pages!mp_free
  <1>3. /\ large' \in Seq(Larges \cup {"NULL"}) /\ DOMAIN large' = DOMAIN large
        /\ large'[k] = "NULL" /\ \A j \in DOMAIN large \ {k} : large'[j] = large[j]
    BY <1>1 DEF LargeInv
  <1>4. p # "NULL"
    BY PagesAssumption
  <1>5. \A j \in DOMAIN large \ {k} : large[j] # p
    BY <1>1, <1>4 DEF LargeInv, Pages!LargeBlocksOwned, Pages!NULL
  <1>6. Pages!Pointed' = Pages!Pointed \ {p}
    BY <1>1, <1>3, <1>4, <1>5 DEF Pages!Pointed, Pages!NULL
  <1>7. \A i, j \in DOMAIN large' : large'[i] # "NULL" /\ large'[i] = large'[j] => i = j
    BY <1>3 DEF LargeInv, Pages!LargeBlocksOwned, Pages!NULL
  <1> QED
    BY <1>2, <1>3, <1>6, <1>7 DEF LargeInv, Pages!LargeBlocksOwned, Pages!NULL

\* Nothing is left in no descriptors.
LEMMA NoneOwned ==
  ASSUME LargeInv, malloced' = malloced \ Pages!Pointed, large' = <<>>
  PROVE  LargeInv'
  <1>1. malloced' = {}
    BY DEF LargeInv, Pages!LargeBlocksOwned
  <1>2. Pages!Pointed' = {} /\ DOMAIN large' = {} /\ large' \in Seq(Larges \cup {"NULL"})
    BY DEF Pages!Pointed
  <1> QED
    BY <1>1, <1>2 DEF LargeInv, Pages!LargeBlocksOwned

LEMMA LargeAllocated ==
  ASSUME PagesInv, pages # <<>>, NEW p \in Larges \ malloced, max' = max,
         Pages!mp_alloc_large(p) \/ Pages!Describe(p)
  PROVE  PagesInv'
  <1>1. CASE Pages!Small(Pages!Descriptor, TRUE) /\ large' = <<p>> \o large
                /\ malloced' = malloced \cup {p}
    <2>1. Pages!Descriptor \in Nat
      BY DEF Pages!Descriptor
    <2>2. SmallInv'
      BY <1>1, <2>1, SmallKeeps DEF PagesInv
    <2> QED
      BY <1>1, <2>2, DescriptorAdded DEF PagesInv
  <1>2. CASE /\ Pages!Vacant # {} /\ malloced' = malloced \cup {p}
             /\ large' = [large EXCEPT ![CHOOSE k \in Pages!Vacant :
                                           \A o \in Pages!Vacant : k <= o] = p]
             /\ UNCHANGED <<pages, current, blocks>>
    <2> DEFINE vacant == Pages!Vacant
               k == CHOOSE k \in vacant : \A o \in vacant : k <= o
    <2>1. \A j \in vacant : j \in DOMAIN large /\ large[j] = "NULL" /\ j \in Nat
      BY DEF Pages!Vacant, Pages!NULL, PagesInv, LargeInv
    <2>2. large' = [large EXCEPT ![k] = p] /\ vacant # {}
      BY <1>2
    <2> HIDE DEF vacant
    <2>3. k \in vacant
      BY <2>1, <2>2, Least
    <2> HIDE DEF k
    <2>4. LargeInv'
      BY <1>2, <2>1, <2>2, <2>3, DescriptorReused DEF PagesInv
    <2>5. SmallInv'
      BY <1>2 DEF PagesInv, SmallInv, PagesTyped, BlocksBelow, FailuresFall, Pages!Start
    <2> QED
      BY <2>4, <2>5 DEF PagesInv
  <1>3. \/ /\ Pages!Small(Pages!Descriptor, TRUE) /\ large' = <<p>> \o large
           /\ malloced' = malloced \cup {p}
        \/ /\ Pages!Vacant # {} /\ malloced' = malloced \cup {p}
           /\ large' = [large EXCEPT ![CHOOSE k \in Pages!Vacant :
                                           \A o \in Pages!Vacant : k <= o] = p]
           /\ UNCHANGED <<pages, current, blocks>>
        \/ UNCHANGED <<pages, current, large, blocks, malloced>>
    BY DEF Pages!mp_alloc_large, Pages!Describe
  <1>4. CASE UNCHANGED <<pages, current, large, blocks, malloced>>
    BY <1>4 DEF PagesInv, SmallInv, LargeInv, PagesTyped, BlocksBelow, FailuresFall,
                Pages!Start, Pages!LargeBlocksOwned, Pages!Pointed
  <1> QED
    BY <1>1, <1>2, <1>3, <1>4

LEMMA Creation ==
  ASSUME NEW words \in Nat
  PROVE  /\ Pages!MaxOf(words) \in 0 .. MP_MAX_ALLOC_FROM_POOL
         /\ Pages!Created(words) \in Seq(PageRec)
         /\ DOMAIN Pages!Created(words) = {1}
         /\ Pages!Created(words)[1].last = Pages!Start(1)
         /\ Pages!Created(words) # <<>>
  <1>1. Pages!MaxOf(words) \in 0 .. MP_MAX_ALLOC_FROM_POOL
    BY PagesAssumption DEF Pages!MaxOf
  <1> DEFINE page == [last |-> Pages!Start(1), end |-> Pages!Start(1) + words, failed |-> 0]
  <1>2. page \in PageRec /\ page.last = Pages!Start(1)
    BY Starts DEF PageRec
  <1>3. Pages!Created(words) = <<page>>
    BY DEF Pages!Created
  <1> HIDE DEF page
  <1>4. <<page>> \in Seq(PageRec) /\ DOMAIN <<page>> = {1} /\ <<page>>[1] = page
        /\ <<page>> # <<>>
    BY <1>2
  <1> QED
    BY <1>1, <1>2, <1>3, <1>4

LEMMA PagesStart == Pages!Init => PagesInv
  <1> SUFFICES ASSUME Pages!Init PROVE PagesInv
    OBVIOUS
  <1>1. PICK words \in PoolSizes : /\ max = Pages!MaxOf(words) /\ pages = Pages!Created(words)
                                   /\ current = 1 /\ large = <<>> /\ blocks = {}
                                   /\ malloced = {}
    BY DEF Pages!Init
  <1>2. words \in Nat
    BY PagesAssumption
  <1>3. /\ max \in 0 .. MP_MAX_ALLOC_FROM_POOL /\ pages \in Seq(PageRec) /\ DOMAIN pages = {1}
        /\ pages[1].last = Pages!Start(1) /\ pages # <<>>
    BY <1>1, <1>2, Creation
  <1>4. PagesTyped
    BY <1>1, <1>3 DEF PagesTyped
  <1>5. BlocksBelow
    BY <1>1, <1>3, Starts DEF BlocksBelow
  <1>6. FailuresFall
    <2>1. pages[1].failed \in Nat
      BY <1>3, <1>4, Fields
    <2> QED
      BY <1>1, <1>3, <2>1 DEF FailuresFall
  <1>7. SmallInv
    BY <1>4, <1>5, <1>6 DEF SmallInv
  <1>8. LargeInv
    BY <1>1 DEF LargeInv, Pages!LargeBlocksOwned, Pages!Pointed
  <1> QED
    BY <1>7, <1>8 DEF PagesInv

LEMMA PagesCreated ==
  ASSUME PagesInv, NEW words \in PoolSizes, Pages!mp_create_pool(words)
  PROVE  PagesInv'
  <1>1. /\ pages = <<>> /\ max' = Pages!MaxOf(words) /\ pages' = Pages!Created(words)
        /\ current' = 1 /\ UNCHANGED <<large, blocks, malloced>>
    BY DEF Pages!mp_create_pool
  <1>2. words \in Nat
    BY PagesAssumption
  <1>3. blocks' = {}
    BY <1>1 DEF PagesInv, SmallInv, FailuresFall
  <1>4. /\ max' \in 0 .. MP_MAX_ALLOC_FROM_POOL /\ pages' \in Seq(PageRec)
        /\ DOMAIN pages' = {1} /\ pages'[1].last = Pages!Start(1) /\ pages' # <<>>
    BY <1>1, <1>2, Creation
  <1>5. PagesTyped'
    BY <1>1, <1>3, <1>4 DEF PagesTyped
  <1>6. BlocksBelow'
    <2>1. \A n \in DOMAIN pages' : pages'[n].last >= Pages!Start(n)
      BY <1>4, Starts
    <2> QED
      BY <1>3, <2>1 DEF BlocksBelow, Pages!Start
  <1>7. FailuresFall'
    <2>1. pages'[1] \in PageRec
      BY <1>4
    <2>2. pages'[1].failed \in Nat
      BY <2>1 DEF PageRec
    <2> QED
      BY <1>1, <1>4, <2>2 DEF FailuresFall
  <1>8. SmallInv'
    BY <1>5, <1>6, <1>7 DEF SmallInv
  <1>9. LargeInv'
    BY <1>1 DEF PagesInv, LargeInv, Pages!LargeBlocksOwned, Pages!Pointed
  <1> QED
    BY <1>8, <1>9 DEF PagesInv

LEMMA PagesReset ==
  ASSUME PagesInv, Pages!mp_reset_pool
  PROVE  PagesInv'
  <1>1. /\ pages # <<>> /\ malloced' = malloced \ Pages!Pointed /\ large' = <<>>
        /\ pages' = [n \in DOMAIN pages |-> [pages[n] EXCEPT !.last = Pages!Start(n)]]
        /\ blocks' = {} /\ max' = max /\ current' = current
    BY DEF Pages!mp_reset_pool, Pages!alive, Pages!NoDescriptors
  <1>2. /\ pages' \in Seq(PageRec) /\ DOMAIN pages' = DOMAIN pages /\ pages' # <<>>
        /\ \A n \in DOMAIN pages : /\ pages'[n].last = Pages!Start(n)
                                   /\ pages'[n].failed = pages[n].failed
    <2>1. /\ Len(pages) \in Nat /\ DOMAIN pages = 1 .. Len(pages)
          /\ \A n \in DOMAIN pages : pages[n] \in PageRec
      BY Fields DEF PagesInv, SmallInv
    <2>2. ASSUME NEW n \in DOMAIN pages
          PROVE  /\ [pages[n] EXCEPT !.last = Pages!Start(n)] \in PageRec
                 /\ [pages[n] EXCEPT !.last = Pages!Start(n)].last = Pages!Start(n)
                 /\ [pages[n] EXCEPT !.last = Pages!Start(n)].failed = pages[n].failed
      BY <2>1, Starts DEF PageRec
    <2>3. \A n \in DOMAIN pages : pages'[n] = [pages[n] EXCEPT !.last = Pages!Start(n)]
      BY <1>1
    <2>4. \A n \in DOMAIN pages : /\ pages'[n] \in PageRec
                                  /\ pages'[n].last = Pages!Start(n)
                                  /\ pages'[n].failed = pages[n].failed
      BY <2>2, <2>3
    <2>5. DOMAIN pages' = 1 .. Len(pages) /\ pages' = [n \in 1 .. Len(pages) |-> pages'[n]]
      BY <1>1, <2>1
    <2>6. pages' \in Seq(PageRec)
      BY <2>1, <2>4, <2>5
    <2>7. Len(pages) # 0
      BY <1>1 DEF PagesInv, SmallInv, PagesTyped
    <2>8. 1 \in DOMAIN pages'
      BY <2>1, <2>5, <2>7
    <2> QED
      BY <2>1, <2>4, <2>5, <2>6, <2>8
  <1>3. SmallInv'
    <2>1. PagesTyped'
      BY <1>1, <1>2 DEF PagesInv, SmallInv, PagesTyped
    <2>2. BlocksBelow'
      <3>1. \A n \in DOMAIN pages' : pages'[n].last >= Pages!Start(n)
        BY <1>2, Starts
      <3> QED
        BY <1>1, <3>1 DEF BlocksBelow, Pages!Start
    <2>3. FailuresFall'
      BY <1>1, <1>2 DEF PagesInv, SmallInv, FailuresFall
    <2> QED
      BY <2>1, <2>2, <2>3 DEF SmallInv
  <1>4. LargeInv'
    BY <1>1, NoneOwned DEF PagesInv
  <1> QED
    BY <1>3, <1>4 DEF PagesInv

LEMMA PagesDestroyed ==
  ASSUME PagesInv, Pages!mp_destory_pool
  PROVE  PagesInv'
  <1>1. /\ malloced' = malloced \ Pages!Pointed /\ large' = <<>>
        /\ pages' = <<>> /\ blocks' = {} /\ current' = 0 /\ max' = 0
    BY DEF Pages!mp_destory_pool
  <1>2. pages' \in Seq(PageRec) /\ DOMAIN pages' = {}
    BY <1>1
  <1>3. max' \in 0 .. MP_MAX_ALLOC_FROM_POOL
    BY <1>1, PagesAssumption
  <1>4. SmallInv'
    BY <1>1, <1>2, <1>3 DEF SmallInv, PagesTyped, BlocksBelow, FailuresFall
  <1>5. LargeInv'
    BY <1>1, NoneOwned DEF PagesInv
  <1> QED
    BY <1>4, <1>5 DEF PagesInv

LEMMA PagesNext ==
  ASSUME PagesInv, Pages!Next
  PROVE  PagesInv'
  <1>1. ASSUME NEW words \in PoolSizes, Pages!mp_create_pool(words) PROVE PagesInv'
    BY <1>1, PagesCreated
  <1>2. ASSUME NEW words \in Requests, NEW aligned \in BOOLEAN, Pages!AllocSmall(words, aligned)
        PROVE  PagesInv'
    <2>1. words \in Nat /\ pages # <<>> /\ max' = max /\ Pages!Small(words, aligned)
      BY <1>2, PagesAssumption DEF Pages!AllocSmall, Pages!alive
    <2>2. SmallInv'
      BY <2>1, SmallKeeps DEF PagesInv
    <2>3. LargeInv'
      BY <1>2 DEF Pages!AllocSmall, PagesInv, LargeInv, Pages!LargeBlocksOwned, Pages!Pointed
    <2> QED
      BY <2>2, <2>3 DEF PagesInv
  <1>3. ASSUME NEW words \in Requests, NEW p \in Larges, Pages!AllocLarge(words, p) PROVE PagesInv'
    BY <1>3, LargeAllocated DEF Pages!AllocLarge, Pages!alive
  <1>4. ASSUME NEW p \in Larges, Pages!mp_memalign(p) PROVE PagesInv'
    BY <1>4, LargeAllocated DEF Pages!mp_memalign, Pages!alive
  <1>5. ASSUME NEW p \in Larges, Pages!mp_free(p) PROVE PagesInv'
    <2>1. UNCHANGED <<max, pages, current, blocks>>
      BY <1>5 DEF Pages!mp_free
    <2>2. SmallInv'
      BY <2>1 DEF PagesInv, SmallInv, PagesTyped, BlocksBelow, FailuresFall, Pages!Start
    <2> QED
      BY <1>5, <2>2, LargeFreed DEF PagesInv
  <1>6. CASE Pages!mp_reset_pool
    BY <1>6, PagesReset
  <1>7. CASE Pages!mp_destory_pool
    BY <1>7, PagesDestroyed
  <1> QED
    BY <1>1, <1>2, <1>3, <1>4, <1>5, <1>6, <1>7 DEF Pages!Next

LEMMA PagesUnchanged ==
  ASSUME PagesInv, UNCHANGED pageVars
  PROVE  PagesInv'
  BY DEF pageVars, PagesInv, SmallInv, LargeInv, PagesTyped, BlocksBelow, FailuresFall,
         Pages!Start, Pages!LargeBlocksOwned, Pages!Pointed

LEMMA PagesShown == PagesInv => PagesWhole
  <1> SUFFICES ASSUME PagesInv PROVE PagesWhole
    OBVIOUS
  <1>1. max \in 0 .. MP_MAX_ALLOC_FROM_POOL /\ (current \in DOMAIN pages \/ pages = <<>>)
    BY DEF PagesInv, SmallInv, PagesTyped, FailuresFall
  <1>2. \A n \in 1 .. current - 1 : pages[n].failed > MaxFailed + 1
    <2>1. ASSUME NEW n \in 1 .. current - 1 PROVE n < current /\ n \in DOMAIN pages
      <3>1. current \in Nat /\ (pages = <<>> => current = 0)
            /\ (pages # <<>> => current \in DOMAIN pages)
        BY DEF PagesInv, SmallInv, PagesTyped, FailuresFall
      <3>2. Len(pages) \in Nat /\ DOMAIN pages = 1 .. Len(pages)
        BY Fields DEF PagesInv, SmallInv
      <3> QED
        BY <3>1, <3>2
    <2> QED
      BY <2>1 DEF PagesInv, SmallInv, FailuresFall
  <1>3. \A b \in blocks : b.page \in DOMAIN pages /\ b.first >= Pages!Start(b.page)
    BY DEF PagesInv, SmallInv, BlocksBelow
  <1>4. \A b, c \in blocks : b # c /\ b.page = c.page => Pages!Words(b) \cap Pages!Words(c) = {}
    <2>1. \A b \in blocks : b.first \in Nat /\ b.size \in Nat
      BY Fields DEF PagesInv, SmallInv
    <2>2. \A b, c \in blocks : b # c /\ b.page = c.page =>
            b.first + b.size <= c.first \/ c.first + c.size <= b.first
      BY DEF PagesInv, SmallInv, BlocksBelow
    <2> SUFFICES ASSUME NEW b \in blocks, NEW c \in blocks, b # c, b.page = c.page
                 PROVE  Pages!Words(b) \cap Pages!Words(c) = {}
      OBVIOUS
    <2> QED
      BY <2>1, <2>2 DEF Pages!Words
  <1>5. Pages!LargeBlocksOwned
    BY DEF PagesInv, LargeInv
  <1> QED
    BY <1>1, <1>2, <1>3, <1>4, <1>5 DEF PagesWhole, Pages!BlocksApart

\* Whatever sizes and alignment the page pool is used with, no two blocks of a page
\* overlap or lie on a header, also after pages were given up, each for its failures,
\* and the pool reset, and each large block has one descriptor until it is freed; up to
\* the first block that is cut beyond its page (ngx_page_pool.h:75-318).
THEOREM PagesStayWhole == PartsSpec => []PagesWhole
  <1>1. PartsInit => PagesInv
    BY PagesStart DEF PartsInit
  <1>2. PagesInv /\ [\/ WheelStep \/ RingStep \/ ListStep \/ AllocatorStep \/ PagesStep
                     \/ Stopped]_allVars => PagesInv'
    BY PagesNext, PagesUnchanged
    DEF WheelStep, RingStep, ListStep, AllocatorStep, PagesStep, Stopped, allVars
  <1> QED
    BY <1>1, <1>2, PagesShown, PTL DEF PartsSpec

-----------------------------------------------------------------------------
(* The class allocator                                                      *)

\* The free list leads from m_FreePosi through list and ends there.
Leads(list) ==
  /\ list \in Seq(Allocator!Blocks)
  /\ \A i, j \in 1 .. Len(list) : list[i] = list[j] => i = j
  /\ Len(list) = 0 => m_FreePosi = -1
  /\ Len(list) > 0 => m_FreePosi = list[1]
  /\ \A i \in 1 .. Len(list) : /\ i < Len(list) => next[list[i]] = list[i + 1]
                               /\ i = Len(list) => next[list[i]] = -1

\* What it leads through are the blocks of the chunks that hold no object.
Covers(list) == \A b \in Allocator!Blocks :
                  (\E i \in 1 .. Len(list) : list[i] = b)
                    <=> b < Allocator!First /\ blockUsers[b] = 0

AllocatorInv ==
  /\ chunks \in 0 .. MaxChunks
  /\ blockUsers \in [Allocator!Blocks -> {0, 1}]
  /\ next \in [Allocator!Blocks -> Allocator!Blocks \cup {-1, -2}]
  /\ \A b \in Allocator!Blocks : b >= Allocator!First => blockUsers[b] = 0
  /\ \E list : Leads(list) /\ Covers(list)

\* Every chunk there may be has its blocks.
LEMMA ChunkFits ==
  ASSUME NEW m \in Nat \ {0}, NEW c \in Nat, NEW bound \in Nat, c <= bound
  PROVE  /\ c * m \in Nat /\ (c + 1) * m = c * m + m
         /\ c < bound => c * m + m <= m * bound
         /\ c * m <= m * bound
  <1>1. c * m \in Nat /\ (c + 1) * m = c * m + m
    OBVIOUS
  <1>2. PICK d \in Nat : bound = c + d
    <2>1. bound - c \in Nat /\ bound = c + (bound - c)
      OBVIOUS
    <2> QED
      BY <2>1
  <1>3. m * bound = c * m + m * d /\ m * d \in Nat
    BY <1>2
  <1>4. ASSUME d > 0 PROVE m * d >= m
    <2>1. PICK e \in Nat : d = e + 1
      <3>1. d - 1 \in Nat /\ d = (d - 1) + 1
        BY <1>4
      <3> QED
        BY <3>1
    <2>2. m * d = m * e + m /\ m * e \in Nat
      BY <2>1
    <2> QED
      BY <2>2
  <1>5. c < bound => d > 0
    BY <1>2
  <1>6. c < bound => c * m + m <= m * bound
    BY <1>1, <1>3, <1>4, <1>5
  <1> QED
    BY <1>1, <1>3, <1>6

LEMMA Chunks ==
  ASSUME chunks \in 0 .. MaxChunks
  PROVE  /\ Allocator!First \in Nat
         /\ \A b \in 0 .. Allocator!First - 1 : b \in Allocator!Blocks
         /\ \A b \in Allocator!Blocks : b \in Nat
         /\ chunks < MaxChunks =>
              \A b \in 0 .. Allocator!First + m_sTrunkCount - 1 : b \in Allocator!Blocks
         /\ chunks' = chunks + 1 => Allocator!First' = Allocator!First + m_sTrunkCount
  <1> DEFINE first == chunks * m_sTrunkCount
             all == m_sTrunkCount * MaxChunks
  <1>1. /\ first \in Nat /\ (chunks + 1) * m_sTrunkCount = first + m_sTrunkCount
        /\ chunks < MaxChunks => first + m_sTrunkCount <= all
        /\ first <= all /\ all \in Nat
    BY ChunkFits, FreeListsAssumption
  <1>2. m_sTrunkCount \in Nat
    BY FreeListsAssumption
  <1>3. Allocator!First = first /\ Allocator!Blocks = 0 .. all - 1
    BY DEF Allocator!First, Allocator!Blocks
  <1>4. chunks' = chunks + 1 => Allocator!First' = (chunks + 1) * m_sTrunkCount
    BY DEF Allocator!First
  <1>5. first + m_sTrunkCount \in Nat
    BY <1>1, <1>2
  <1> HIDE DEF first, all
  <1> QED
    BY <1>1, <1>2, <1>3, <1>4, <1>5

LEMMA AllocatorStart == Allocator!Init => AllocatorInv
  <1> SUFFICES ASSUME Allocator!Init PROVE AllocatorInv
    OBVIOUS
  <1>1. /\ m_FreePosi = -1 /\ chunks = 0 /\ blockUsers = [b \in Allocator!Blocks |-> 0]
        /\ next = [b \in Allocator!Blocks |-> -2]
    BY DEF Allocator!Init, Allocator!NULL, Allocator!Object
  <1>2. chunks \in 0 .. MaxChunks
    BY <1>1, FreeListsAssumption
  <1>3. Allocator!First = 0 /\ \A b \in Allocator!Blocks : b \in Nat
    <2>1. Allocator!First = 0
      BY <1>1, FreeListsAssumption DEF Allocator!First
    <2> QED
      BY <1>2, <2>1, Chunks
  <1>4. Leads(<<>>)
    BY <1>1 DEF Leads
  <1>5. Covers(<<>>)
    BY <1>3 DEF Covers
  <1> QED
    BY <1>1, <1>2, <1>4, <1>5 DEF AllocatorInv

\* A new chunk: its first block is taken, and the list leads through the others.
LEMMA ChunkTaken ==
  ASSUME AllocatorInv, m_FreePosi = -1, chunks < MaxChunks,
         Allocator!Take(Allocator!First, Allocator!Linked), chunks' = chunks + 1
  PROVE  /\ AllocatorInv'
         /\ \E b \in Allocator!Blocks : /\ blockUsers[b] = 0
                                        /\ blockUsers' = [blockUsers EXCEPT ![b] = 1]
  <1> DEFINE B == Allocator!Blocks
             first == Allocator!First
             m == m_sTrunkCount
             linked == Allocator!Linked
  <1>1. /\ first \in Nat /\ m \in Nat /\ m > 0 /\ Allocator!First' = first + m
        /\ \A b \in 0 .. first + m - 1 : b \in B
        /\ \A b \in B : b \in Nat
        /\ chunks \in 0 .. MaxChunks
    BY Chunks, FreeListsAssumption DEF AllocatorInv
  <1>2. first \in B
    BY <1>1
  <1>3. \A b \in B : b < first => blockUsers[b] = 1
    <2>1. PICK list : Leads(list) /\ Covers(list)
      BY DEF AllocatorInv
    <2>2. Len(list) = 0
      <3>1. Len(list) \in Nat /\ (Len(list) > 0 => list[1] \in B)
        BY <2>1 DEF Leads
      <3>2. Len(list) > 0 => m_FreePosi = list[1]
        BY <2>1 DEF Leads
      <3>3. ~(-1 \in B)
        BY <1>1
      <3> QED
        BY <3>1, <3>2, <3>3
    <2>3. \A b \in B : ~(b < first /\ blockUsers[b] = 0)
      BY <2>1, <2>2 DEF Covers
    <2> QED
      BY <2>3 DEF AllocatorInv
  <1>4. /\ m_FreePosi' = linked[first]
        /\ next' = [linked EXCEPT ![first] = -2]
        /\ blockUsers' = [blockUsers EXCEPT ![first] = @ + 1]
    BY DEF Allocator!Take, Allocator!Following, Allocator!Object
  <1>5. /\ linked \in [B -> B \cup {-1, -2}]
        /\ \A i \in 0 .. m - 2 : linked[first + i] = first + i + 1
        /\ linked[first + m - 1] = -1
    <2>1. linked = [b \in B |-> IF b \in first .. first + m - 2 THEN b + 1
                                ELSE IF b = first + m - 1 THEN -1 ELSE next[b]]
      BY DEF Allocator!Linked, Allocator!NULL
    <2>2. \A b \in first .. first + m - 2 : b + 1 \in B /\ b \in B
      BY <1>1
    <2>3. first + m - 1 \in B /\ first + m - 1 \notin first .. first + m - 2
      BY <1>1
    <2>4. \A i \in 0 .. m - 2 : first + i \in first .. first + m - 2
      BY <1>1
    <2> HIDE DEF linked
    <2>5. linked \in [B -> B \cup {-1, -2}]
      BY <2>1, <2>2 DEF AllocatorInv
    <2>6. \A i \in 0 .. m - 2 : linked[first + i] = first + i + 1
      BY <2>1, <2>2, <2>4
    <2>7. linked[first + m - 1] = -1
      BY <2>1, <2>3
    <2> QED
      BY <2>5, <2>6, <2>7
  <1>6. blockUsers[first] = 0 /\ blockUsers' = [blockUsers EXCEPT ![first] = 1]
    <2>1. blockUsers[first] = 0
      BY <1>1, <1>2 DEF AllocatorInv
    <2> QED
      BY <1>4, <2>1
  <1> HIDE DEF linked, first
  <1>7. PICK rest : /\ rest \in Seq(B) /\ Len(rest) = m - 1
                    /\ \A i \in 1 .. m - 1 : rest[i] = first + i
    <2> DEFINE others == [i \in 1 .. m - 1 |-> first + i]
    <2>1. \A i \in 1 .. m - 1 : first + i \in B
      BY <1>1
    <2>2. m - 1 \in Nat
      BY <1>1
    <2>3. /\ others \in Seq(B) /\ Len(others) = m - 1
          /\ \A i \in 1 .. m - 1 : others[i] = first + i
      BY <2>1, <2>2
    <2> QED
      BY <2>3
  <1>8. \A i \in 1 .. m - 1 : next'[first + i] = linked[first + i]
    <2>1. \A i \in 1 .. m - 1 : first + i \in B /\ first + i # first
      BY <1>1
    <2> QED
      BY <1>4, <1>5, <2>1
  <1>9. Leads(rest)'
    <2>1. \A i, j \in 1 .. m - 1 : rest[i] = rest[j] => i = j
      BY <1>1, <1>7
    <2>2. m - 1 = 0 => m_FreePosi' = -1
      <3>1. m - 1 = 0 => first = first + m - 1
        BY <1>1
      <3> QED
        BY <1>4, <1>5, <3>1
    <2>3. m - 1 > 0 => m_FreePosi' = rest[1]
      <3>1. m - 1 > 0 => 0 \in 0 .. m - 2 /\ 1 \in 1 .. m - 1 /\ first = first + 0
                         /\ first + 0 + 1 = first + 1
        BY <1>1
      <3> QED
        BY <1>4, <1>5, <1>7, <3>1
    <2>4. ASSUME NEW i \in 1 .. m - 1
          PROVE  /\ i < m - 1 => next'[rest[i]] = rest[i + 1]
                 /\ i = m - 1 => next'[rest[i]] = -1
      <3>1. next'[rest[i]] = linked[first + i]
        BY <1>7, <1>8
      <3>2. i < m - 1 => i \in 0 .. m - 2 /\ i + 1 \in 1 .. m - 1 /\ first + i + 1 = first + (i + 1)
        BY <1>1
      <3>3. i = m - 1 => first + i = first + m - 1
        BY <1>1
      <3> QED
        BY <1>5, <1>7, <3>1, <3>2, <3>3
    <2> QED
      BY <1>7, <2>1, <2>2, <2>3, <2>4 DEF Leads, Allocator!Blocks
  <1>10. Covers(rest)'
    <2> SUFFICES ASSUME NEW b \in B
                 PROVE  (\E i \in 1 .. Len(rest) : rest[i] = b)
                          <=> b < first + m /\ blockUsers'[b] = 0
      BY <1>1 DEF Covers, Allocator!Blocks
    <2>1. (\E i \in 1 .. Len(rest) : rest[i] = b) <=> b \in first + 1 .. first + m - 1
      <3>1. b \in first + 1 .. first + m - 1 => b - first \in 1 .. m - 1 /\ first + (b - first) = b
        BY <1>1
      <3>2. \A i \in 1 .. m - 1 : first + i \in first + 1 .. first + m - 1
        BY <1>1
      <3> QED
        BY <1>7, <3>1, <3>2
    <2>2. b < first => blockUsers'[b] = 1
      BY <1>1, <1>3, <1>6
    <2>3. b = first => blockUsers'[b] = 1
      BY <1>6 DEF AllocatorInv
    <2>4. b > first => blockUsers'[b] = 0
      <3>1. b > first => b >= first /\ b # first
        BY <1>1
      <3> QED
        BY <1>6, <3>1 DEF AllocatorInv, first
    <2>5. b \in first + 1 .. first + m - 1 <=> b > first /\ b < first + m
      BY <1>1
    <2>6. b < first \/ b = first \/ b > first
      BY <1>1
    <2> QED
      BY <2>1, <2>2, <2>3, <2>4, <2>5, <2>6
  <1>11. AllocatorInv'
    <2>1. chunks' \in 0 .. MaxChunks
      BY <1>1, FreeListsAssumption
    <2>2. blockUsers' \in [B -> {0, 1}] /\ next' \in [B -> B \cup {-1, -2}]
      BY <1>4, <1>5, <1>6 DEF AllocatorInv
    <2>3. \A b \in B : b >= first + m => blockUsers'[b] = 0
      <3>1. \A b \in B : b >= first + m => b >= first /\ b # first
        BY <1>1
      <3> QED
        BY <1>6, <3>1 DEF AllocatorInv, first
    <2> QED
      BY <1>1, <1>9, <1>10, <2>1, <2>2, <2>3 DEF AllocatorInv, Allocator!Blocks
  <1> QED
    BY <1>2, <1>6, <1>11

\* The first block of the list is taken, and the list leads through the others.
LEMMA FirstTaken ==
  ASSUME AllocatorInv, m_FreePosi # -1, Allocator!Take(m_FreePosi, next), chunks' = chunks
  PROVE  /\ AllocatorInv'
         /\ \E b \in Allocator!Blocks : /\ blockUsers[b] = 0
                                        /\ blockUsers' = [blockUsers EXCEPT ![b] = 1]
  <1> DEFINE B == Allocator!Blocks
  <1>1. PICK list : Leads(list) /\ Covers(list)
    BY DEF AllocatorInv
  <1>2. PICK n \in Nat : n = Len(list) /\ n > 0
    BY <1>1 DEF Leads
  <1>3. PICK b \in B : b = list[1] /\ m_FreePosi = b
    BY <1>1, <1>2 DEF Leads
  <1>4. /\ m_FreePosi' = next[b] /\ next' = [next EXCEPT ![b] = -2]
        /\ blockUsers' = [blockUsers EXCEPT ![b] = @ + 1]
    BY <1>3 DEF Allocator!Take, Allocator!Following, Allocator!Object
  <1>5. blockUsers[b] = 0 /\ b < Allocator!First
    BY <1>1, <1>2, <1>3 DEF Covers
  <1>6. blockUsers' = [blockUsers EXCEPT ![b] = 1]
    BY <1>4, <1>5
  <1>7. PICK rest : /\ rest \in Seq(B) /\ Len(rest) = n - 1
                    /\ \A i \in 1 .. n - 1 : rest[i] = list[i + 1]
    <2> DEFINE others == [i \in 1 .. n - 1 |-> list[i + 1]]
    <2>1. \A i \in 1 .. n - 1 : list[i + 1] \in B
      BY <1>1, <1>2 DEF Leads
    <2>2. n - 1 \in Nat
      BY <1>2
    <2>3. /\ others \in Seq(B) /\ Len(others) = n - 1
          /\ \A i \in 1 .. n - 1 : others[i] = list[i + 1]
      BY <2>1, <2>2
    <2> QED
      BY <2>3
  <1>8. /\ \A i, j \in 1 .. n : list[i] = list[j] => i = j
        /\ \A i \in 1 .. n : /\ i < n => next[list[i]] = list[i + 1]
                             /\ i = n => next[list[i]] = -1
    BY <1>1, <1>2 DEF Leads
  <1>9. \A i \in 1 .. n - 1 : i + 1 \in 1 .. n /\ rest[i] # b /\ rest[i] \in B
    <2> SUFFICES ASSUME NEW i \in 1 .. n - 1
                 PROVE  i + 1 \in 1 .. n /\ rest[i] # b /\ rest[i] \in B
      OBVIOUS
    <2>1. i + 1 \in 1 .. n /\ 1 \in 1 .. n /\ i + 1 # 1
      BY <1>2
    <2>2. rest[i] = list[i + 1]
      BY <1>7
    <2> QED
      BY <1>3, <1>7, <1>8, <2>1, <2>2
  <1>10. Leads(rest)'
    <2>1. ASSUME NEW i \in 1 .. n - 1, NEW j \in 1 .. n - 1, rest[i] = rest[j] PROVE i = j
      <3>1. i + 1 = j + 1
        BY <1>7, <1>8, <1>9, <2>1
      <3> QED
        BY <3>1
    <2>2. n - 1 = 0 => m_FreePosi' = -1
      <3>1. n - 1 = 0 => n = 1
        OBVIOUS
      <3>2. n = 1 => next[list[1]] = -1
        BY <1>8
      <3> QED
        BY <1>3, <1>4, <3>1, <3>2
    <2>3. n - 1 > 0 => m_FreePosi' = rest[1]
      <3>1. n - 1 > 0 => 1 \in 1 .. n - 1 /\ 1 \in 1 .. n /\ 1 < n
        BY <1>2
      <3> QED
        BY <1>3, <1>4, <1>7, <1>8, <3>1
    <2>4. ASSUME NEW i \in 1 .. n - 1
          PROVE  /\ i < n - 1 => next'[rest[i]] = rest[i + 1]
                 /\ i = n - 1 => next'[rest[i]] = -1
      <3>1. next'[rest[i]] = next[list[i + 1]]
        BY <1>4, <1>7, <1>9
      <3>2. i < n - 1 => i + 1 \in 1 .. n - 1 /\ i + 1 < n
        BY <1>2
      <3>3. i = n - 1 => i + 1 = n
        BY <1>2
      <3> QED
        BY <1>7, <1>8, <1>9, <3>1, <3>2, <3>3
    <2> QED
      BY <1>7, <2>1, <2>2, <2>3, <2>4 DEF Leads, Allocator!Blocks
  <1>11. Covers(rest)'
    <2>1. ASSUME NEW c \in B
          PROVE  (\E i \in 1 .. n - 1 : rest[i] = c)
                   <=> c < Allocator!First /\ blockUsers'[c] = 0
      <3>1. CASE c = b
        <4>1. blockUsers'[c] = 1
          BY <1>6, <3>1 DEF AllocatorInv
        <4> QED
          BY <1>9, <3>1, <4>1
      <3>2. CASE c # b
        <4>1. blockUsers'[c] = blockUsers[c]
          BY <1>6, <3>2 DEF AllocatorInv
        <4>2. (\E i \in 1 .. n : list[i] = c) <=> c < Allocator!First /\ blockUsers[c] = 0
          BY <1>1, <1>2 DEF Covers
        <4>3. ASSUME NEW i \in 1 .. n, list[i] = c
              PROVE  \E j \in 1 .. n - 1 : rest[j] = c
          <5>1. i # 1
            BY <1>3, <3>2, <4>3
          <5>2. i - 1 \in 1 .. n - 1 /\ (i - 1) + 1 = i
            BY <1>2, <5>1
          <5> QED
            BY <1>7, <4>3, <5>2
        <4>4. ASSUME NEW j \in 1 .. n - 1, rest[j] = c PROVE \E i \in 1 .. n : list[i] = c
          BY <1>7, <1>9, <4>4
        <4> QED
          BY <4>1, <4>2, <4>3, <4>4
      <3> QED
        BY <3>1, <3>2
    <2> QED
      BY <1>4, <1>7, <2>1 DEF Covers, Allocator!Blocks, Allocator!First
  <1>12. AllocatorInv'
    <2>1. blockUsers' \in [B -> {0, 1}] /\ next' \in [B -> B \cup {-1, -2}]
      BY <1>4, <1>6 DEF AllocatorInv
    <2>2. ASSUME NEW c \in B, c >= Allocator!First PROVE blockUsers'[c] = 0
      <3>1. c # b
        <4>1. c \in Nat /\ Allocator!First \in Nat
          BY Chunks DEF AllocatorInv
        <4> QED
          BY <1>5, <2>2, <4>1
      <3> QED
        BY <1>6, <2>2, <3>1 DEF AllocatorInv
    <2> QED
      BY <1>10, <1>11, <2>1, <2>2 DEF AllocatorInv, Allocator!Blocks, Allocator!First
  <1> QED
    BY <1>5, <1>6, <1>12

\* A block that is given back was not on the list, and is put before the others.
LEMMA BlockReturned ==
  ASSUME AllocatorInv, NEW b \in Allocator!Blocks, Allocator!deallocate(b)
  PROVE  AllocatorInv' /\ blockUsers[b] = 1 /\ blockUsers' = [blockUsers EXCEPT ![b] = 0]
  <1> DEFINE B == Allocator!Blocks
  <1>1. PICK list : Leads(list) /\ Covers(list)
    BY DEF AllocatorInv
  <1>2. PICK n \in Nat : n = Len(list)
    BY <1>1 DEF Leads
  <1>3. /\ blockUsers[b] > 0 /\ next' = [next EXCEPT ![b] = m_FreePosi] /\ m_FreePosi' = b
        /\ blockUsers' = [blockUsers EXCEPT ![b] = @ - 1] /\ chunks' = chunks
    BY DEF Allocator!deallocate, Allocator!LinkBack
  <1>4. blockUsers[b] = 1 /\ blockUsers' = [blockUsers EXCEPT ![b] = 0]
    <2>1. blockUsers[b] = 1
      BY <1>3 DEF AllocatorInv
    <2> QED
      BY <1>3, <2>1
  <1>5. b < Allocator!First /\ b \in Nat
    BY <1>4, Chunks DEF AllocatorInv
  <1>6. \A i \in 1 .. n : list[i] # b /\ list[i] \in B
    <2>1. \A i \in 1 .. n : list[i] \in B
      BY <1>1, <1>2 DEF Leads
    <2>2. ~\E i \in 1 .. n : list[i] = b
      BY <1>1, <1>2, <1>4 DEF Covers
    <2> QED
      BY <2>1, <2>2
  <1>7. PICK all : /\ all \in Seq(B) /\ Len(all) = n + 1 /\ all[1] = b
                   /\ \A i \in 1 .. n : all[i + 1] = list[i]
    <2>1. list \in Seq(B)
      BY <1>1 DEF Leads
    <2> DEFINE longer == <<b>> \o list
    <2>2. /\ longer \in Seq(B) /\ Len(longer) = Len(list) + 1 /\ longer[1] = b
          /\ \A i \in 1 .. Len(list) : longer[i + 1] = list[i]
      BY <2>1, Prefixed
    <2> HIDE DEF longer
    <2> QED
      BY <1>2, <2>2
  <1>8. \A i \in 1 .. n + 1 : i = 1 \/ (i - 1 \in 1 .. n /\ all[i] = list[i - 1])
    <2> SUFFICES ASSUME NEW i \in 1 .. n + 1, i # 1
                 PROVE  i - 1 \in 1 .. n /\ all[i] = list[i - 1]
      OBVIOUS
    <2>1. i - 1 \in 1 .. n /\ (i - 1) + 1 = i
      BY <1>2
    <2> QED
      BY <1>7, <2>1
  <1>9. /\ \A i, j \in 1 .. n : list[i] = list[j] => i = j
        /\ n = 0 => m_FreePosi = -1
        /\ n > 0 => m_FreePosi = list[1]
        /\ \A i \in 1 .. n : /\ i < n => next[list[i]] = list[i + 1]
                             /\ i = n => next[list[i]] = -1
    BY <1>1, <1>2 DEF Leads
  <1>10. Leads(all)'
    <2>1. ASSUME NEW i \in 1 .. n + 1, NEW j \in 1 .. n + 1, all[i] = all[j] PROVE i = j
      <3>1. CASE i = 1 \/ j = 1
        BY <1>6, <1>7, <1>8, <2>1, <3>1
      <3>2. CASE i # 1 /\ j # 1
        <4>1. i - 1 = j - 1
          BY <1>8, <1>9, <2>1, <3>2
        <4> QED
          BY <4>1
      <3> QED
        BY <3>1, <3>2
    <2>2. ASSUME NEW i \in 1 .. n + 1
          PROVE  /\ i < n + 1 => next'[all[i]] = all[i + 1]
                 /\ i = n + 1 => next'[all[i]] = -1
      <3>1. CASE i = 1
        <4>1. next'[b] = m_FreePosi
          BY <1>3 DEF AllocatorInv
        <4>2. i < n + 1 => n > 0 /\ 1 \in 1 .. n
          BY <1>2, <3>1
        <4>3. i = n + 1 => n = 0
          BY <1>2, <3>1
        <4> QED
          BY <1>7, <1>9, <3>1, <4>1, <4>2, <4>3
      <3>2. CASE i # 1
        <4>1. i - 1 \in 1 .. n /\ all[i] = list[i - 1]
          BY <1>8, <3>2
        <4>2. next'[all[i]] = next[list[i - 1]]
          BY <1>3, <1>6, <4>1 DEF AllocatorInv
        <4>3. i < n + 1 => i - 1 < n /\ (i - 1) + 1 = i /\ i \in 1 .. n
          BY <1>2, <3>2
        <4>4. i = n + 1 => i - 1 = n
          BY <1>2
        <4> QED
          BY <1>7, <1>9, <4>1, <4>2, <4>3, <4>4
      <3> QED
        BY <3>1, <3>2
    <2>3. n + 1 # 0
      BY <1>2
    <2> QED
      BY <1>3, <1>7, <2>1, <2>2, <2>3 DEF Leads, Allocator!Blocks
  <1>11. Covers(all)'
    <2>1. ASSUME NEW c \in B
          PROVE  (\E i \in 1 .. n + 1 : all[i] = c)
                   <=> c < Allocator!First /\ blockUsers'[c] = 0
      <3>1. CASE c = b
        <4>1. blockUsers'[c] = 0
          BY <1>4, <3>1 DEF AllocatorInv
        <4>2. 1 \in 1 .. n + 1
          BY <1>2
        <4> QED
          BY <1>5, <1>7, <3>1, <4>1, <4>2
      <3>2. CASE c # b
        <4>1. blockUsers'[c] = blockUsers[c]
          BY <1>4, <3>2 DEF AllocatorInv
        <4>2. (\E i \in 1 .. n : list[i] = c) <=> c < Allocator!First /\ blockUsers[c] = 0
          BY <1>1, <1>2 DEF Covers
        <4>3. ASSUME NEW i \in 1 .. n + 1, all[i] = c PROVE \E j \in 1 .. n : list[j] = c
          BY <1>7, <1>8, <3>2, <4>3
        <4>4. ASSUME NEW j \in 1 .. n, list[j] = c PROVE \E i \in 1 .. n + 1 : all[i] = c
          <5>1. j + 1 \in 1 .. n + 1
            BY <1>2
          <5> QED
            BY <1>7, <4>4, <5>1
        <4> QED
          BY <4>1, <4>2, <4>3, <4>4
      <3> QED
        BY <3>1, <3>2
    <2> QED
      BY <1>3, <1>7, <2>1 DEF Covers, Allocator!Blocks, Allocator!First
  <1>12. AllocatorInv'
    <2>1. m_FreePosi \in B \cup {-1, -2}
      <3>1. n > 0 => 1 \in 1 .. n
        BY <1>2
      <3>2. n > 0 => m_FreePosi \in B
        BY <1>6, <1>9, <3>1
      <3> QED
        BY <1>2, <1>9, <3>2
    <2>2. blockUsers' \in [B -> {0, 1}] /\ next' \in [B -> B \cup {-1, -2}]
      BY <1>3, <1>4, <2>1 DEF AllocatorInv
    <2>3. \A c \in B : c >= Allocator!First => blockUsers'[c] = 0
      BY <1>4 DEF AllocatorInv
    <2> QED
      BY <1>3, <1>10, <1>11, <2>2, <2>3 DEF AllocatorInv, Allocator!Blocks, Allocator!First
  <1> QED
    BY <1>4, <1>12

LEMMA AllocatorUnchanged ==
  ASSUME AllocatorInv, UNCHANGED <<m_FreePosi, next, chunks, blockUsers>>
  PROVE  AllocatorInv' /\ blockUsers' = blockUsers
  <1>1. /\ m_FreePosi' = m_FreePosi /\ next' = next /\ chunks' = chunks
        /\ blockUsers' = blockUsers
    OBVIOUS
  <1>2. PICK list : Leads(list) /\ Covers(list)
    BY DEF AllocatorInv
  <1>3. Leads(list)' /\ Covers(list)'
    BY <1>1, <1>2 DEF Leads, Covers, Allocator!First, Allocator!Blocks
  <1> QED
    BY <1>1, <1>3 DEF AllocatorInv, Allocator!First, Allocator!Blocks

LEMMA AllocatorNext ==
  ASSUME AllocatorInv, Allocator!Next
  PROVE  AllocatorInv' /\ [Allocator!OP!Next]_blockUsers
  <1>1. ASSUME NEW b \in Allocator!Blocks, blockUsers[b] = 0,
               blockUsers' = [blockUsers EXCEPT ![b] = 1]
        PROVE  Allocator!OP!Next
    BY <1>1 DEF Allocator!OP!Next, Allocator!OP!Take
  <1>2. CASE Allocator!allocate
    <2>1. CASE m_FreePosi = -1
      <3>1. \/ /\ chunks < MaxChunks /\ chunks' = chunks + 1
               /\ Allocator!Take(Allocator!First, Allocator!Linked)
            \/ UNCHANGED <<m_FreePosi, next, chunks, blockUsers>>
        BY <1>2, <2>1 DEF Allocator!allocate, Allocator!NULL
      <3>2. CASE UNCHANGED <<m_FreePosi, next, chunks, blockUsers>>
        BY <3>2, AllocatorUnchanged
      <3> QED
        BY <1>1, <2>1, <3>1, <3>2, ChunkTaken
    <2>2. CASE m_FreePosi # -1
      BY <1>1, <1>2, <2>2, FirstTaken DEF Allocator!allocate, Allocator!NULL
    <2> QED
      BY <2>1, <2>2
  <1>3. ASSUME NEW b \in Allocator!Blocks, Allocator!deallocate(b)
        PROVE  AllocatorInv' /\ Allocator!OP!Next
    BY <1>3, BlockReturned DEF Allocator!OP!Next, Allocator!OP!Give
  <1> QED
    BY <1>2, <1>3 DEF Allocator!Next

\* What is linked from the first block on is what the list leads through.
LEMMA AllocatorShown == AllocatorInv => Allocator!FreeListWhole
  <1> SUFFICES ASSUME AllocatorInv PROVE Allocator!FreeListWhole
    OBVIOUS
  <1> DEFINE B == Allocator!Blocks
  <1>1. PICK list : Leads(list) /\ Covers(list)
    BY DEF AllocatorInv
  <1>2. PICK n \in Nat : n = Len(list)
    BY <1>1 DEF Leads
  <1>3. /\ \A i \in 1 .. n : list[i] \in B
        /\ n = 0 => m_FreePosi = -1
        /\ n > 0 => m_FreePosi = list[1]
        /\ \A i \in 1 .. n : /\ i < n => next[list[i]] = list[i + 1]
                             /\ i = n => next[list[i]] = -1
    BY <1>1, <1>2 DEF Leads
  <1>4. -1 \notin B /\ -2 \notin B /\ \A b \in B : b \in Nat
    BY Chunks DEF AllocatorInv
  <1>5. m_FreePosi \in B \cup {-1}
    <2>1. n > 0 => 1 \in 1 .. n
      BY <1>2
    <2> QED
      BY <1>2, <1>3, <2>1
  <1> DEFINE L == {list[i] : i \in 1 .. n}
  <1>6. L \in SUBSET B /\ Allocator!Followed(L)
    <2>1. m_FreePosi \in B => m_FreePosi \in L
      <3>1. m_FreePosi \in B => n > 0 /\ 1 \in 1 .. n
        BY <1>2, <1>3, <1>4
      <3> QED
        BY <1>3, <3>1
    <2>2. ASSUME NEW i \in 1 .. n, next[list[i]] \in B PROVE next[list[i]] \in L
      <3>1. i < n
        <4>1. i # n
          BY <1>3, <1>4, <2>2
        <4> QED
          BY <1>2, <4>1
      <3>2. i + 1 \in 1 .. n
        BY <1>2, <3>1
      <3> QED
        BY <1>3, <3>1, <3>2
    <2> QED
      BY <1>3, <2>1, <2>2 DEF Allocator!Followed
  <1>7. ASSUME NEW S \in SUBSET B, Allocator!Followed(S) PROVE L \subseteq S
    <2> DEFINE Missed == {i \in 1 .. n : list[i] \notin S}
    <2> SUFFICES ASSUME Missed # {} PROVE FALSE
      OBVIOUS
    <2>1. Missed \in SUBSET Nat
      BY <1>2
    <2>2. PICK i \in Missed : \A j \in Missed : i <= j
      BY <2>1, Least
    <2>3. i \in 1 .. n /\ list[i] \notin S
      OBVIOUS
    <2>4. i # 1
      <3>1. i = 1 => m_FreePosi = list[1] /\ list[1] \in B
        BY <1>2, <1>3, <2>3
      <3> QED
        BY <1>7, <2>3, <3>1 DEF Allocator!Followed
    <2>5. i - 1 \in 1 .. n /\ i - 1 < n /\ (i - 1) + 1 = i /\ ~(i <= i - 1)
      BY <1>2, <2>3, <2>4
    <2>6. list[i - 1] \in S
      BY <2>2, <2>5
    <2>7. next[list[i - 1]] = list[i]
      BY <1>3, <2>5
    <2> QED
      BY <1>3, <1>7, <2>3, <2>6, <2>7 DEF Allocator!Followed
  <1>8. Allocator!FreeBlocks = L
    BY <1>6, <1>7 DEF Allocator!FreeBlocks
  <1>9. L = {b \in 0 .. Allocator!First - 1 : blockUsers[b] = 0}
    <2>1. \A b \in 0 .. Allocator!First - 1 : b \in B
      BY Chunks DEF AllocatorInv
    <2>2. \A b \in B : b \in L <=> b < Allocator!First /\ blockUsers[b] = 0
      BY <1>1, <1>2 DEF Covers
    <2>3. \A b \in B : b < Allocator!First <=> b \in 0 .. Allocator!First - 1
      <3>1. Allocator!First \in Nat
        BY Chunks DEF AllocatorInv
      <3> QED
        BY <1>4, <3>1
    <2> HIDE DEF L
    <2> QED
      BY <1>6, <2>1, <2>2, <2>3
  <1>10. \A b \in L : next[b] # -2
    <2>1. ASSUME NEW i \in 1 .. n PROVE next[list[i]] # -2
      <3>1. i = n \/ (i < n /\ i + 1 \in 1 .. n)
        BY <1>2
      <3> QED
        BY <1>3, <1>4, <3>1
    <2> QED
      BY <2>1
  <1> QED
    BY <1>5, <1>8, <1>9, <1>10 DEF Allocator!FreeListWhole, Allocator!NULL, Allocator!Object

-----------------------------------------------------------------------------
(* TFreeList                                                                *)

HeldObjects == {o \in FreeList!Objects : users[o] > 0}

\* An object on the stack is there once and with no user.
ListInv ==
  /\ m_ppFreeObjects \in [FreeList!Objects -> FreeList!Objects]
  /\ users \in [FreeList!Objects -> {0, 1}]
  /\ m_iTop \in 0 .. m_iNumObjects
  /\ \A i, j \in 0 .. m_iTop - 1 : m_ppFreeObjects[i] = m_ppFreeObjects[j] => i = j
  /\ FreeList!EachObjectOnce

-----------------------------------------------------------------------------
LEMMA EachObjectHeldOnce ==
  LET once == /\ m_iTop = m_iNumObjects - Cardinality(HeldObjects)
              /\ {m_ppFreeObjects[i] : i \in 0 .. m_iTop - 1} = FreeList!Objects \ HeldObjects
  IN (FreeList!EachObjectOnce <=> once) /\ (FreeList!EachObjectOnce' <=> once')
  BY DEF FreeList!EachObjectOnce, FreeList!Cardinality, Cardinality, HeldObjects

LEMMA HeldObjectsFinite ==
  /\ IsFiniteSet(HeldObjects) /\ Cardinality(HeldObjects) \in Nat
  /\ HeldObjects # {} => Cardinality(HeldObjects) > 0
  <1> USE FreeListsAssumption
  <1>1. IsFiniteSet(FreeList!Objects)
    BY FS_Interval DEF FreeList!Objects
  <1>2. IsFiniteSet(HeldObjects)
    BY <1>1, FS_Subset DEF HeldObjects
  <1>3. Cardinality(HeldObjects) \in Nat
    BY <1>2, FS_CardinalityType
  <1>4. Cardinality(HeldObjects) = 0 <=> HeldObjects = {}
    BY <1>2, FS_EmptySet
  <1> QED
    BY <1>2, <1>3, <1>4

\* Every object is on the stack once after the constructor and FreeAll.
LEMMA ListEmptied ==
  ASSUME m_ppFreeObjects' = FreeList!AllFree, m_iTop' = m_iNumObjects,
         users' = [o \in FreeList!Objects |-> 0]
  PROVE  ListInv'
  <1> USE FreeListsAssumption
  <1>1. \A i \in FreeList!Objects : m_iNumObjects - 1 - i \in FreeList!Objects
    BY DEF FreeList!Objects
  <1>2. m_ppFreeObjects' \in [FreeList!Objects -> FreeList!Objects]
    BY <1>1 DEF FreeList!AllFree
  <1>3. 0 .. m_iTop' - 1 = FreeList!Objects
    BY DEF FreeList!Objects
  <1>4. \A i, j \in 0 .. m_iTop' - 1 : m_ppFreeObjects'[i] = m_ppFreeObjects'[j] => i = j
    BY <1>3 DEF FreeList!AllFree, FreeList!Objects
  <1>5. {m_ppFreeObjects'[i] : i \in 0 .. m_iTop' - 1} = FreeList!Objects
    <2>1. \A o \in FreeList!Objects : m_ppFreeObjects'[m_iNumObjects - 1 - o] = o
      BY <1>1 DEF FreeList!AllFree, FreeList!Objects
    <2>2. {m_ppFreeObjects'[i] : i \in FreeList!Objects} = FreeList!Objects
      BY <1>1, <1>2, <2>1
    <2> QED
      BY <1>3, <2>2
  <1>6. {o \in FreeList!Objects : users'[o] > 0} = {}
    OBVIOUS
  <1>7. FreeList!EachObjectOnce'
    <2>1. Cardinality({o \in FreeList!Objects : users'[o] > 0}) = 0
      BY <1>6, FS_EmptySet
    <2> QED
      BY <1>5, <1>6, <2>1, EachObjectHeldOnce DEF HeldObjects
  <1> QED
    BY <1>2, <1>4, <1>7 DEF ListInv

LEMMA ListStarts == FreeList!Init => ListInv
  <1> USE FreeListsAssumption
  <1> SUFFICES ASSUME FreeList!Init PROVE ListInv
    OBVIOUS
  <1>1. \A i \in FreeList!Objects : m_iNumObjects - 1 - i \in FreeList!Objects
    BY DEF FreeList!Objects
  <1>2. m_ppFreeObjects \in [FreeList!Objects -> FreeList!Objects]
    BY <1>1 DEF FreeList!Init, FreeList!AllFree
  <1>3. 0 .. m_iTop - 1 = FreeList!Objects
    BY DEF FreeList!Init, FreeList!Objects
  <1>4. \A i, j \in 0 .. m_iTop - 1 : m_ppFreeObjects[i] = m_ppFreeObjects[j] => i = j
    BY <1>3 DEF FreeList!Init, FreeList!AllFree, FreeList!Objects
  <1>5. {m_ppFreeObjects[i] : i \in 0 .. m_iTop - 1} = FreeList!Objects
    <2>1. \A o \in FreeList!Objects : m_ppFreeObjects[m_iNumObjects - 1 - o] = o
      BY <1>1 DEF FreeList!Init, FreeList!AllFree, FreeList!Objects
    <2>2. {m_ppFreeObjects[i] : i \in FreeList!Objects} = FreeList!Objects
      BY <1>1, <1>2, <2>1
    <2> QED
      BY <1>3, <2>2
  <1>6. {o \in FreeList!Objects : users[o] > 0} = {}
    BY DEF FreeList!Init
  <1>7. FreeList!EachObjectOnce
    <2>1. Cardinality({o \in FreeList!Objects : users[o] > 0}) = 0
      BY <1>6, FS_EmptySet
    <2> QED
      BY <1>5, <1>6, <2>1, EachObjectHeldOnce DEF FreeList!Init, HeldObjects
  <1> QED
    BY <1>2, <1>4, <1>7 DEF ListInv, FreeList!Init

-----------------------------------------------------------------------------
\* The object that is taken was nobody's, and leaves the stack.
LEMMA ListTakes ==
  ASSUME ListInv, FreeList!NewInstance
  PROVE  /\ ListInv'
         /\ \E o \in FreeList!Objects : users[o] = 0 /\ users' = [users EXCEPT ![o] = 1]
  <1> USE FreeListsAssumption
  <1> DEFINE top == m_iTop - 1
  <1>1. top \in 0 .. m_iTop - 1 /\ top \in FreeList!Objects /\ m_iTop' = top
        /\ m_ppFreeObjects' = m_ppFreeObjects
    BY DEF FreeList!NewInstance, FreeList!GetFree, ListInv, FreeList!Objects
  <1>2. PICK o \in FreeList!Objects : o = m_ppFreeObjects[top]
    BY <1>1 DEF ListInv
  <1>3. users' = [users EXCEPT ![o] = @ + 1]
    BY <1>2 DEF FreeList!NewInstance
  <1>4. users[o] = 0 /\ o \notin HeldObjects
    BY <1>1, <1>2 DEF ListInv, FreeList!EachObjectOnce, HeldObjects
  <1>5. users' = [users EXCEPT ![o] = 1] /\ HeldObjects' = HeldObjects \cup {o}
    BY <1>3, <1>4 DEF ListInv, HeldObjects
  <1>6. Cardinality(HeldObjects') = Cardinality(HeldObjects) + 1
    BY <1>4, <1>5, HeldObjectsFinite, FS_AddElement
  <1>7. {m_ppFreeObjects[i] : i \in 0 .. top - 1}
          = {m_ppFreeObjects[i] : i \in 0 .. m_iTop - 1} \ {o}
    <2>1. \A i \in 0 .. m_iTop - 1 : m_ppFreeObjects[i] = o => i = top
      BY <1>1, <1>2 DEF ListInv
    <2>2. 0 .. top - 1 = (0 .. m_iTop - 1) \ {top}
      BY DEF ListInv
    <2> QED
      BY <1>2, <2>1, <2>2
  <1>8. FreeList!EachObjectOnce'
    <2>1. m_iTop' = m_iNumObjects - Cardinality(HeldObjects')
      BY <1>1, <1>6, EachObjectHeldOnce, HeldObjectsFinite DEF ListInv
    <2>2. {m_ppFreeObjects'[i] : i \in 0 .. m_iTop' - 1} = FreeList!Objects \ HeldObjects'
      <3>1. {m_ppFreeObjects[i] : i \in 0 .. m_iTop - 1} = FreeList!Objects \ HeldObjects
        BY EachObjectHeldOnce DEF ListInv
      <3>2. {m_ppFreeObjects'[i] : i \in 0 .. m_iTop' - 1}
              = {m_ppFreeObjects[i] : i \in 0 .. top - 1}
        BY <1>1
      <3> HIDE DEF top
      <3> QED
        BY <1>5, <1>7, <3>1, <3>2
    <2> QED
      BY <2>1, <2>2, EachObjectHeldOnce
  <1>9. ListInv'
    BY <1>1, <1>5, <1>8 DEF ListInv
  <1> QED
    BY <1>4, <1>5, <1>9

\* There is room for the object that is given back, and it was not on the stack.
LEMMA ListGives ==
  ASSUME ListInv, NEW o \in FreeList!Objects, FreeList!FreeInstance(o)
  PROVE  ListInv' /\ users[o] = 1 /\ users' = [users EXCEPT ![o] = 0]
  <1> USE FreeListsAssumption
  <1>1. users[o] = 1 /\ users' = [users EXCEPT ![o] = 0] /\ o \in HeldObjects
    <2>1. users[o] = 1
      BY DEF FreeList!FreeInstance, ListInv
    <2>2. users' = [users EXCEPT ![o] = users[o] - 1]
      BY DEF FreeList!FreeInstance
    <2> QED
      BY <2>1, <2>2 DEF HeldObjects
  <1>2. HeldObjects' = HeldObjects \ {o}
    BY <1>1 DEF ListInv, HeldObjects
  <1>3. Cardinality(HeldObjects') = Cardinality(HeldObjects) - 1
    BY <1>1, <1>2, HeldObjectsFinite, FS_RemoveElement
  <1>4. m_iTop = m_iNumObjects - Cardinality(HeldObjects)
    BY EachObjectHeldOnce DEF ListInv
  <1>5. m_iTop \in FreeList!Objects /\ m_iTop' = m_iTop + 1 /\ m_iTop' \in 0 .. m_iNumObjects
    <2>1. Cardinality(HeldObjects) > 0 /\ Cardinality(HeldObjects) \in Nat
      BY <1>1, HeldObjectsFinite
    <2>2. m_iTop \in 0 .. m_iNumObjects /\ m_iTop' = m_iTop + 1
      BY DEF ListInv, FreeList!FreeInstance
    <2> QED
      BY <1>4, <2>1, <2>2 DEF FreeList!Objects
  <1>6. /\ m_ppFreeObjects' \in [FreeList!Objects -> FreeList!Objects]
        /\ m_ppFreeObjects'[m_iTop] = o
        /\ \A i \in 0 .. m_iTop - 1 : m_ppFreeObjects'[i] = m_ppFreeObjects[i]
        /\ \A i \in 0 .. m_iTop - 1 : m_ppFreeObjects[i] # o
    <2>1. \A i \in 0 .. m_iTop - 1 : i \in FreeList!Objects /\ i # m_iTop
      BY DEF ListInv, FreeList!Objects
    <2>2. \A i \in 0 .. m_iTop - 1 : m_ppFreeObjects[i] # o
      BY <1>1 DEF ListInv, FreeList!EachObjectOnce
    <2> QED
      BY <1>5, <2>1, <2>2 DEF FreeList!FreeInstance, FreeList!Slot, ListInv
  <1>7. 0 .. m_iTop' - 1 = (0 .. m_iTop - 1) \cup {m_iTop}
    BY <1>5 DEF ListInv
  <1>8. {m_ppFreeObjects'[i] : i \in 0 .. m_iTop' - 1}
          = {m_ppFreeObjects[i] : i \in 0 .. m_iTop - 1} \cup {o}
    BY <1>6, <1>7
  <1>9. \A i, j \in 0 .. m_iTop' - 1 : m_ppFreeObjects'[i] = m_ppFreeObjects'[j] => i = j
    BY <1>6, <1>7 DEF ListInv
  <1>10. FreeList!EachObjectOnce'
    <2>1. m_iTop' = m_iNumObjects - Cardinality(HeldObjects')
      BY <1>3, <1>4, <1>5, HeldObjectsFinite
    <2>2. {m_ppFreeObjects[i] : i \in 0 .. m_iTop - 1} = FreeList!Objects \ HeldObjects
      BY EachObjectHeldOnce DEF ListInv
    <2>3. {m_ppFreeObjects'[i] : i \in 0 .. m_iTop' - 1} = FreeList!Objects \ HeldObjects'
      BY <1>1, <1>2, <1>8, <2>2
    <2> QED
      BY <2>1, <2>3, EachObjectHeldOnce
  <1>11. users' \in [FreeList!Objects -> {0, 1}]
    BY <1>1 DEF ListInv
  <1> QED
    BY <1>1, <1>5, <1>6, <1>9, <1>10, <1>11 DEF ListInv

LEMMA ListNext ==
  ASSUME ListInv, [FreeList!Next]_FreeList!vars
  PROVE  ListInv' /\ [FreeList!OP!Next]_users
  <1> USE FreeListsAssumption
  <1>1. CASE FreeList!NewInstance
    BY <1>1, ListTakes DEF FreeList!OP!Next, FreeList!OP!Take
  <1>2. ASSUME NEW o \in FreeList!Objects, FreeList!FreeInstance(o)
        PROVE  ListInv' /\ FreeList!OP!Next
    BY <1>2, ListGives DEF FreeList!OP!Next, FreeList!OP!Give
  <1>3. CASE FreeList!FreeAll
    BY <1>3, ListEmptied DEF FreeList!FreeAll, FreeList!OP!Next, FreeList!OP!GiveAll
  <1>4. CASE UNCHANGED FreeList!vars
    BY <1>4 DEF FreeList!vars, ListInv, FreeList!EachObjectOnce
  <1> QED
    BY <1>1, <1>2, <1>3, <1>4 DEF FreeList!Next

-----------------------------------------------------------------------------
\* For a list of any size the stack and the objects held are all the objects, none
\* twice (TFreeList.h:19-117).
THEOREM ObjectsOnce == FreeList!Spec => []FreeList!EachObjectOnce
  <1>1. FreeList!Init => ListInv
    BY ListStarts
  <1>2. ListInv /\ [FreeList!Next]_FreeList!vars => ListInv'
    BY ListNext
  <1>3. ListInv => FreeList!EachObjectOnce
    BY DEF ListInv
  <1> QED
    BY <1>1, <1>2, <1>3, PTL DEF FreeList!Spec

\* And no user gets an object another one has (TFreeList.h:67-92).
THEOREM ListImplementsObjectPool ==
  FreeList!Spec => FreeList!ImplementsObjectPool
  <1>1. FreeList!Init => ListInv /\ FreeList!OP!Init
    BY ListStarts DEF FreeList!Init, FreeList!OP!Init
  <1>2. ListInv /\ [FreeList!Next]_FreeList!vars => ListInv' /\ [FreeList!OP!Next]_users
    BY ListNext
  <1>3. FreeList!Spec => FreeList!OP!Spec
    BY <1>1, <1>2, PTL DEF FreeList!Spec, FreeList!OP!Spec
  <1> QED
    BY <1>3 DEF FreeList!ImplementsObjectPool

-----------------------------------------------------------------------------
(* Both free lists                                                          *)

LEMMA ListsStart ==
  PartsInit => /\ ListInv /\ FreeList!OP!Init
               /\ AllocatorInv /\ Allocator!OP!Init
  <1>1. PartsInit => FreeList!Init /\ Allocator!Init
    BY DEF PartsInit
  <1>2. FreeList!Init => FreeList!OP!Init
    BY DEF FreeList!Init, FreeList!OP!Init
  <1>3. Allocator!Init => Allocator!OP!Init
    BY DEF Allocator!Init, Allocator!OP!Init
  <1> QED
    BY <1>1, <1>2, <1>3, ListStarts, AllocatorStart

PartsNext == \/ WheelStep \/ RingStep \/ ListStep \/ AllocatorStep \/ PagesStep
             \/ Stopped

LEMMA ListsStep ==
  ASSUME ListInv, [PartsNext]_allVars
  PROVE  ListInv' /\ [FreeList!OP!Next]_users
  <1>1. [FreeList!Next]_FreeList!vars
    BY DEF PartsNext, WheelStep, RingStep, ListStep, AllocatorStep, PagesStep, Stopped, allVars,
           listVars, FreeList!vars
  <1> QED
    BY <1>1, ListNext

LEMMA AllocatorSteps ==
  ASSUME AllocatorInv, [PartsNext]_allVars
  PROVE  AllocatorInv' /\ [Allocator!OP!Next]_blockUsers
  <1>1. Allocator!Next \/ UNCHANGED allocVars
    BY DEF PartsNext, WheelStep, RingStep, ListStep, AllocatorStep, PagesStep, Stopped, allVars
  <1> QED
    BY <1>1, AllocatorNext, AllocatorUnchanged DEF allocVars

\* With any number of objects, of blocks in a chunk and of chunks, neither free list
\* loses an object or has one twice (TFreeList.h:19-117, page_pool.cpp:16-67).
THEOREM FreeListsStayWhole == PartsSpec => []FreeListsWhole
  <1>1. PartsInit => ListInv /\ AllocatorInv
    BY ListsStart
  <1>2. ListInv /\ AllocatorInv /\ [PartsNext]_allVars => ListInv' /\ AllocatorInv'
    BY ListsStep, AllocatorSteps
  <1>3. ListInv /\ AllocatorInv => FreeListsWhole
    BY AllocatorShown DEF ListInv, FreeListsWhole
  <1> QED
    BY <1>1, <1>2, <1>3, PTL DEF PartsSpec, PartsNext

\* And both are object pools: an object has one user at a time, whichever blocks are
\* taken, given back and taken again (TFreeList.h:67-92, page_pool.cpp:16-67).
THEOREM FreeListsRefine == PartsSpec => FreeListsArePools
  <1>1. PartsInit => ListInv /\ FreeList!OP!Init /\ AllocatorInv /\ Allocator!OP!Init
    BY ListsStart
  <1>2. ListInv /\ AllocatorInv /\ [PartsNext]_allVars
          => ListInv' /\ AllocatorInv' /\ [FreeList!OP!Next]_users /\ [Allocator!OP!Next]_blockUsers
    BY ListsStep, AllocatorSteps
  <1>3. PartsSpec => FreeList!OP!Spec /\ Allocator!OP!Spec
    BY <1>1, <1>2, PTL DEF PartsSpec, PartsNext, FreeList!OP!Spec, Allocator!OP!Spec
  <1> QED
    BY <1>3 DEF FreeListsArePools, FreeList!ImplementsObjectPool,
       Allocator!ImplementsObjectPool

-----------------------------------------------------------------------------
(* Remainders                                                               *)

LEMMA DivModInt ==
  ASSUME NEW x \in Int, NEW a \in Nat \ {0}
  PROVE  x = a * (x \div a) + (x % a) /\ x % a \in 0 .. a - 1 /\ x \div a \in Int
  OBVIOUS

\* A remainder is the only one.
LEMMA ModUnique ==
  ASSUME NEW s \in Nat \ {0}, NEW q \in Int, NEW r \in 0 .. s - 1, NEW x \in Int, x = s * q + r
  PROVE  x % s = r
  <1> DEFINE q2 == x \div s
             r2 == x % s
  <1>1. x = s * q2 + r2 /\ r2 \in 0 .. s - 1 /\ q2 \in Int
    BY DivModInt
  <1> HIDE DEF q2, r2
  <1> DEFINE d == q2 - q
  <1>2. d \in Int /\ q2 = q + d
    BY <1>1
  <1>3. s * q2 = s * q + s * d /\ s * d \in Int
    BY <1>2
  <1> HIDE DEF d
  <1>4. r - r2 = s * d
    BY <1>1, <1>3
  <1>5. d > 0 => s * d >= s
    <2>1. ASSUME d > 0 PROVE s * d >= s
      <3> DEFINE e == d - 1
      <3>1. e \in Nat /\ d = e + 1
        BY <1>2, <2>1
      <3> HIDE DEF e
      <3>2. s * d = s * e + s /\ s * e \in Nat
        BY <3>1
      <3> QED
        BY <3>2
    <2> QED
      BY <2>1
  <1>6. d < 0 => s * d <= -s
    <2>1. ASSUME d < 0 PROVE s * d <= -s
      <3> DEFINE e == -d - 1
      <3>1. e \in Nat /\ d = -e - 1
        BY <1>2, <2>1
      <3> HIDE DEF e
      <3>2. s * d = -(s * e) - s /\ s * e \in Nat
        BY <3>1
      <3> QED
        BY <3>2
    <2> QED
      BY <2>1
  <1>7. d = 0
    BY <1>1, <1>2, <1>4, <1>5, <1>6
  <1>8. s * d = 0
    BY <1>7
  <1> QED
    BY <1>1, <1>4, <1>8 DEF r2

LEMMA ModMultiple ==
  ASSUME NEW s \in Nat \ {0}, NEW a \in Int, NEW b \in Int
  PROVE  (s * a + b) % s = b % s
  <1> DEFINE c == b \div s
             r == b % s
  <1>1. b = s * c + r /\ r \in 0 .. s - 1 /\ c \in Int
    BY DivModInt
  <1> HIDE DEF c, r
  <1>2. s * a + b = s * (a + c) + r /\ a + c \in Int /\ s * a + b \in Int
    BY <1>1
  <1>3. (s * a + b) % s = r
    BY <1>1, <1>2, ModUnique
  <1> QED
    BY <1>3 DEF r

LEMMA ModSmall ==
  ASSUME NEW s \in Nat \ {0}, NEW x \in Int
  PROVE  /\ x \in 0 .. s - 1 => x % s = x
         /\ x \in s .. 2 * s - 1 => x % s = x - s
         /\ x \in -s .. -1 => x % s = x + s
  <1>1. x \in 0 .. s - 1 => x % s = x
    <2>1. x = s * 0 + x
      OBVIOUS
    <2> QED
      BY <2>1, ModUnique
  <1>2. x \in s .. 2 * s - 1 => x % s = x - s
    <2>1. x = s * 1 + (x - s) /\ (x \in s .. 2 * s - 1 => x - s \in 0 .. s - 1)
      OBVIOUS
    <2> QED
      BY <2>1, ModUnique
  <1>3. x \in -s .. -1 => x % s = x + s
    <2>1. x = s * (-1) + (x + s) /\ (x \in -s .. -1 => x + s \in 0 .. s - 1) /\ -1 \in Int
      OBVIOUS
    <2> QED
      BY <2>1, ModUnique
  <1> QED
    BY <1>1, <1>2, <1>3

\* RingPlaces near each other are different ones.
LEMMA ModApart ==
  ASSUME NEW s \in Nat \ {0}, NEW x \in Int, NEW y \in Int, x < y, y < x + s
  PROVE  x % s # y % s
  <1> DEFINE c == x \div s
             r == x % s
  <1>1. x = s * c + r /\ r \in 0 .. s - 1 /\ c \in Int
    BY DivModInt
  <1> HIDE DEF c, r
  <1> DEFINE z == r + (y - x)
  <1>2. z \in Int /\ y = s * c + z /\ z > r /\ z < r + s
    BY <1>1
  <1> HIDE DEF z
  <1>3. y % s = z % s
    BY <1>1, <1>2, ModMultiple
  <1>4. z \in 0 .. s - 1 \/ z \in s .. 2 * s - 1
    BY <1>1, <1>2
  <1>5. y % s = z \/ y % s = z - s
    BY <1>2, <1>3, <1>4, ModSmall
  <1>6. y % s # r
    BY <1>1, <1>2, <1>5
  <1> QED
    BY <1>6 DEF r

\* Reducing to a range that the size divides does not change the place.
Divides(s, m) == \E k \in Int : m = s * k
Reduced(x, m) == x % m
Multiples(s, x, r) == r \in Int /\ \E a \in Int : x = s * a + r

LEMMA ModRange ==
  ASSUME NEW s \in Nat \ {0}, NEW m \in Nat \ {0}, Divides(s, m), NEW x \in Int
  PROVE  Multiples(s, x, Reduced(x, m))
  <1> DEFINE c == x \div m
             r == x % m
  <1>1. x = m * c + r /\ r \in 0 .. m - 1 /\ c \in Int
    BY DivModInt
  <1>2. PICK k \in Int : m = s * k
    BY DEF Divides
  <1> HIDE DEF c, r
  <1> DEFINE a == k * c
  <1>3. a \in Int
    BY <1>1
  <1>4. m * c = s * a
    <2>1. m * c = (s * k) * c
      BY <1>2
    <2>2. (s * k) * c = s * (k * c)
      BY <1>1
    <2> QED
      BY <2>1, <2>2
  <1> HIDE DEF a
  <1>5. x = s * a + r
    BY <1>1, <1>4
  <1>6. Multiples(s, x, r)
    BY <1>1, <1>3, <1>5 DEF Multiples
  <1> QED
    BY <1>6 DEF Reduced, r

-----------------------------------------------------------------------------
(* The ring buffer                                                          *)

RingInv ==
  /\ read_pos \in 0 .. Ring!Range32 - 1 /\ write_pos \in 0 .. Ring!Range32 - 1
  /\ Ring!rb_length <= size
  /\ \/ size = 0 /\ buf = <<>>
     \/ size \in Sizes /\ buf # <<>> /\ buf = [i \in 0 .. size - 1 |-> buf[i]]

LEMMA SizeOf ==
  ASSUME NEW s \in Sizes
  PROVE  s \in Nat \ {0} /\ Ring!Range32 \in Nat \ {0} /\ s < Ring!Range32
         /\ \E k \in Int : Ring!Range32 = s * k
  <1>1. PICK k \in 2 .. Ring!Range32 : Ring!Range32 = s * k
    BY RangeAssumption
  <1>2. s \in Nat \ {0} /\ Ring!Range32 \in Nat \ {0}
    BY RangeAssumption
  <1> DEFINE e == k - 2
  <1>3. e \in Nat /\ k = e + 2
    BY <1>1, <1>2
  <1> HIDE DEF e
  <1>4. s * k = s * e + s + s /\ s * e \in Nat
    BY <1>2, <1>3
  <1> QED
    BY <1>1, <1>2, <1>4

\* How far apart two positions are, on either side of the wrap.
Apart(w, r) == (w - r) % Ring!Range32

LEMMA Distance ==
  ASSUME NEW r \in 0 .. Ring!Range32 - 1, NEW w \in 0 .. Ring!Range32 - 1
  PROVE  /\ Apart(w, r) \in 0 .. Ring!Range32 - 1
         /\ w >= r => Apart(w, r) = w - r
         /\ ~(w >= r) => Apart(w, r) = w - r + Ring!Range32
  <1> DEFINE m == Ring!Range32
             d == w - r
  <1>1. m \in Nat \ {0}
    BY RangeAssumption
  <1> HIDE DEF m
  <1>2. r \in 0 .. m - 1 /\ w \in 0 .. m - 1
    BY DEF m
  <1>3. d \in Int /\ (w >= r => d \in 0 .. m - 1) /\ (~(w >= r) => d \in -m .. -1)
    BY <1>1, <1>2
  <1> HIDE DEF d
  <1>4. (w >= r => d % m = d) /\ (~(w >= r) => d % m = d + m)
    BY <1>1, <1>3, ModSmall
  <1>5. d % m \in 0 .. m - 1
    BY <1>1, <1>3, <1>4
  <1> QED
    BY <1>4, <1>5 DEF d, m, Apart

\* A position that is moved on.
LEMMA Moved ==
  ASSUME NEW p \in 0 .. Ring!Range32 - 1, NEW n \in Nat, n < Ring!Range32
  PROVE  /\ Ring!Advanced(p, n) \in 0 .. Ring!Range32 - 1
         /\ p + n < Ring!Range32 => Ring!Advanced(p, n) = p + n
         /\ p + n >= Ring!Range32 => Ring!Advanced(p, n) = p + n - Ring!Range32
  <1> DEFINE m == Ring!Range32
             x == p + n
  <1>1. m \in Nat \ {0}
    BY RangeAssumption
  <1>6. x = p + n /\ m = Ring!Range32 /\ Ring!Advanced(p, n) = x % m
    BY DEF Ring!Advanced
  <1> HIDE DEF m
  <1>2. p \in 0 .. m - 1 /\ n < m
    BY DEF m
  <1>3. x \in Int /\ (x < m => x \in 0 .. m - 1) /\ (~(x < m) => x \in m .. 2 * m - 1)
    BY <1>1, <1>2
  <1> HIDE DEF x
  <1>4. (x < m => x % m = x) /\ (~(x < m) => x % m = x - m)
    BY <1>1, <1>3, ModSmall
  <1>5. x % m \in 0 .. m - 1
    BY <1>1, <1>3, <1>4
  <1> QED
    BY <1>1, <1>3, <1>4, <1>5, <1>6

LEMMA LengthWritten ==
  ASSUME NEW r \in 0 .. Ring!Range32 - 1, NEW w \in 0 .. Ring!Range32 - 1, NEW n \in Nat,
         Apart(w, r) + n < Ring!Range32
  PROVE  Apart(Ring!Advanced(w, n), r) = Apart(w, r) + n
  <1>1. /\ Apart(w, r) \in 0 .. Ring!Range32 - 1
        /\ w >= r => Apart(w, r) = w - r
        /\ ~(w >= r) => Apart(w, r) = w - r + Ring!Range32
    BY Distance
  <1>2. Ring!Range32 \in Nat /\ n < Ring!Range32
    BY <1>1, RangeAssumption
  <1>3. PICK v \in 0 .. Ring!Range32 - 1 : /\ v = Ring!Advanced(w, n)
                                           /\ w + n < Ring!Range32 => v = w + n
                                           /\ w + n >= Ring!Range32 => v = w + n - Ring!Range32
    <2>1. /\ Ring!Advanced(w, n) \in 0 .. Ring!Range32 - 1
          /\ w + n < Ring!Range32 => Ring!Advanced(w, n) = w + n
          /\ w + n >= Ring!Range32 => Ring!Advanced(w, n) = w + n - Ring!Range32
      <3>1. n < Ring!Range32
        BY <1>2
      <3>2. Ring!Advanced(w, n) \in 0 .. Ring!Range32 - 1
        BY <3>1, Moved
      <3>3. w + n < Ring!Range32 => Ring!Advanced(w, n) = w + n
        BY <3>1, Moved
      <3>4. w + n >= Ring!Range32 => Ring!Advanced(w, n) = w + n - Ring!Range32
        BY <3>1, Moved
      <3> QED
        BY <3>2, <3>3, <3>4
    <2> QED
      BY <2>1
  <1>4. /\ v >= r => Apart(v, r) = v - r
        /\ ~(v >= r) => Apart(v, r) = v - r + Ring!Range32
    BY Distance
  <1>5. Apart(v, r) = Apart(w, r) + n
    BY <1>1, <1>2, <1>3, <1>4
  <1> QED
    BY <1>3, <1>5

LEMMA LengthRead ==
  ASSUME NEW r \in 0 .. Ring!Range32 - 1, NEW w \in 0 .. Ring!Range32 - 1, NEW n \in Nat,
         n <= Apart(w, r)
  PROVE  Apart(w, Ring!Advanced(r, n)) = Apart(w, r) - n
  <1>1. /\ Apart(w, r) \in 0 .. Ring!Range32 - 1
        /\ w >= r => Apart(w, r) = w - r
        /\ ~(w >= r) => Apart(w, r) = w - r + Ring!Range32
    BY Distance
  <1>2. Ring!Range32 \in Nat /\ n < Ring!Range32
    BY <1>1, RangeAssumption
  <1>3. PICK v \in 0 .. Ring!Range32 - 1 : /\ v = Ring!Advanced(r, n)
                                           /\ r + n < Ring!Range32 => v = r + n
                                           /\ r + n >= Ring!Range32 => v = r + n - Ring!Range32
    <2>1. /\ Ring!Advanced(r, n) \in 0 .. Ring!Range32 - 1
          /\ r + n < Ring!Range32 => Ring!Advanced(r, n) = r + n
          /\ r + n >= Ring!Range32 => Ring!Advanced(r, n) = r + n - Ring!Range32
      <3>1. n < Ring!Range32
        BY <1>2
      <3>2. Ring!Advanced(r, n) \in 0 .. Ring!Range32 - 1
        BY <3>1, Moved
      <3>3. r + n < Ring!Range32 => Ring!Advanced(r, n) = r + n
        BY <3>1, Moved
      <3>4. r + n >= Ring!Range32 => Ring!Advanced(r, n) = r + n - Ring!Range32
        BY <3>1, Moved
      <3> QED
        BY <3>2, <3>3, <3>4
    <2> QED
      BY <2>1
  <1>4. /\ w >= v => Apart(w, v) = w - v
        /\ ~(w >= v) => Apart(w, v) = w - v + Ring!Range32
    BY Distance
  <1>5. Apart(w, v) = Apart(w, r) - n
    BY <1>1, <1>2, <1>3, <1>4
  <1> QED
    BY <1>3, <1>5

\* ToEnd is what is left of buf, but 0 at its start.
LEMMA ToTheEnd ==
  ASSUME size \in Sizes, NEW p \in 0 .. Ring!Range32 - 1
  PROVE  /\ p % size \in 0 .. size - 1
         /\ p % size = 0 => Ring!ToEnd(p) = 0
         /\ p % size # 0 => Ring!ToEnd(p) = size - (p % size)
  <1> DEFINE s == size
             m == Ring!Range32
             q == p \div s
             o == p % s
             x == s - p
  <1>1. /\ s \in Nat \ {0} /\ m \in Nat \ {0} /\ s < m /\ p \in 0 .. m - 1
    BY SizeOf
  <1>2. PICK k \in Int : m = s * k
    BY SizeOf
  <1>3. p = s * q + o /\ o \in 0 .. s - 1 /\ q \in Int
    <2> HIDE DEF s, m
    <2>1. p \in Int
      BY <1>1
    <2> QED
      BY <1>1, <2>1, DivModInt
  <1>4. x \in Int
    BY <1>1
  <1>5. (x % m) % s = x % s
    <2> HIDE DEF s, m, x
    <2>1. PICK r : r = Reduced(x, m)
      OBVIOUS
    <2>2. Divides(s, m)
      BY <1>2 DEF Divides
    <2>3. Multiples(s, x, r)
      BY <1>1, <1>4, <2>1, <2>2, ModRange
    <2>4. r \in Int /\ \E a \in Int : x = s * a + r
      BY <2>3 DEF Multiples
    <2>5. PICK a \in Int : x = s * a + r
      BY <2>4
    <2>6. x % s = r % s
      BY <1>1, <2>4, <2>5, ModMultiple
    <2> QED
      BY <2>1, <2>6 DEF Reduced
  <1> HIDE DEF q, o
  <1>6. x = s * (1 - q) + (0 - o)
    BY <1>1, <1>3
  <1> HIDE DEF s, m, x
  <1>7. x % s = (0 - o) % s
    <2>1. 1 - q \in Int /\ 0 - o \in Int
      BY <1>3
    <2> QED
      BY <1>1, <1>6, <2>1, ModMultiple
  <1>8. (0 - o) % s = IF o = 0 THEN 0 ELSE s - o
    <2> DEFINE y == 0 - o
    <2>1. y \in Int /\ (o = 0 => y \in 0 .. s - 1 /\ y = 0)
          /\ (o # 0 => y \in -s .. -1 /\ y + s = s - o)
      BY <1>1, <1>3
    <2> HIDE DEF y
    <2>2. y % s = IF o = 0 THEN 0 ELSE s - o
      BY <1>1, <2>1, ModSmall
    <2> QED
      BY <2>2 DEF y
  <1>9. Ring!ToEnd(p) = (x % m) % s
    BY DEF Ring!ToEnd, x, m, s
  <1>10. (o = 0 => Ring!ToEnd(p) = 0) /\ (o # 0 => Ring!ToEnd(p) = s - o)
    BY <1>5, <1>7, <1>8, <1>9
  <1> QED
    BY <1>3, <1>10 DEF o, s

\* The least element of the library, as the module of the ring buffer sees it.
LEMMA SameMin == \A S : Ring!Min(S) = Min(S)
  BY DEF Ring!Min, Min

LEMMA MinOf ==
  ASSUME NEW a \in Int, NEW b \in Int
  PROVE  (a <= b => Min({a, b}) = a) /\ (~(a <= b) => Min({a, b}) = b)
  <1>1. \E x \in {a, b} : \A y \in {a, b} : x <= y
    OBVIOUS
  <1>2. Min({a, b}) \in {a, b} /\ \A y \in {a, b} : Min({a, b}) <= y
    BY <1>1 DEF Min
  <1> QED
    BY <1>2

\* Where the first n places from p on are: i of them up to the end of buf, and the
\* others from its start, below those.
LEMMA RingPlaces ==
  ASSUME size \in Sizes, NEW p \in 0 .. Ring!Range32 - 1, NEW n \in 0 .. size,
         NEW i, i = Min({n, Ring!ToEnd(p)})
  PROVE  /\ i \in 0 .. n
         /\ \A t \in 1 .. i : /\ (p + t - 1) % size = (p % size) + t - 1
                              /\ (p % size) + t - 1 < size
         /\ \A t \in i + 1 .. n : (p + t - 1) % size = t - i - 1
         /\ i > 0 /\ i < n => n - i <= p % size
         /\ p % size \in 0 .. size - 1
  <1>1. PICK s \in Nat \ {0} : s = size
    BY SizeOf
  <1>2. PICK o \in 0 .. s - 1 : o = p % size
    BY <1>1, ToTheEnd
  <1>3. PICK e \in 0 .. s : e = Ring!ToEnd(p) /\ (o = 0 => e = 0) /\ (o # 0 => e = s - o)
    <2>1. (o = 0 => Ring!ToEnd(p) = 0) /\ (o # 0 => Ring!ToEnd(p) = s - o)
      BY <1>1, <1>2, ToTheEnd
    <2>2. Ring!ToEnd(p) \in 0 .. s
      BY <2>1
    <2> QED
      BY <2>1, <2>2
  <1>4. n \in 0 .. s
    BY <1>1
  <1>5. (n <= e => i = n) /\ (~(n <= e) => i = e)
    <2>1. n \in Int /\ e \in Int
      BY <1>4
    <2> QED
      BY <1>3, <2>1, MinOf
  <1>6. i \in 0 .. n
    BY <1>3, <1>4, <1>5
  <1>7. ASSUME NEW t \in 1 .. n PROVE (p + t - 1) % s = (o + t - 1) % s
    <2> DEFINE c == p \div s
               b == o + t - 1
               x == p + t - 1
    <2>1. p \in Int
      BY RangeAssumption
    <2>2. p = s * c + o /\ c \in Int
      BY <1>1, <1>2, <2>1, DivModInt
    <2> HIDE DEF c
    <2>3. b \in Int /\ x = s * c + b
      BY <1>2, <1>4, <2>1, <2>2
    <2> HIDE DEF b, x
    <2>4. x % s = b % s
      BY <2>2, <2>3, ModMultiple
    <2> QED
      BY <2>4 DEF b, x
  <1>8. ASSUME NEW t \in 1 .. i
        PROVE  (p + t - 1) % s = o + t - 1 /\ o + t - 1 < s
    <2> DEFINE b == o + t - 1
    <2>1. t \in 1 .. n
      BY <1>4, <1>6
    <2>2. b \in 0 .. s - 1
      BY <1>2, <1>3, <1>4, <1>5, <1>6
    <2> HIDE DEF b
    <2>3. b % s = b /\ b < s
      BY <2>2, ModSmall
    <2> QED
      BY <1>7, <2>1, <2>3 DEF b
  <1>9. ASSUME NEW t \in i + 1 .. n PROVE (p + t - 1) % s = t - i - 1
    <2> DEFINE b == o + t - 1
    <2>1. t \in 1 .. n /\ i = e
      BY <1>3, <1>4, <1>5, <1>6
    <2>2. /\ o = 0 => b \in 0 .. s - 1 /\ b = t - i - 1
          /\ o # 0 => b \in s .. 2 * s - 1 /\ b - s = t - i - 1
          /\ b \in Int
      BY <1>2, <1>3, <1>4, <2>1
    <2> HIDE DEF b
    <2>3. b % s = t - i - 1
      BY <2>2, ModSmall
    <2> QED
      BY <1>7, <2>1, <2>3 DEF b
  <1>10. i > 0 /\ i < n => n - i <= o
    BY <1>2, <1>3, <1>4, <1>5, <1>6
  <1> QED
    BY <1>1, <1>2, <1>6, <1>8, <1>9, <1>10

LEMMA SubSeqOf ==
  ASSUME NEW S, NEW seq \in Seq(S), NEW m \in Nat, NEW n \in Nat, n <= Len(seq), m <= n
  PROVE  /\ SubSeq(seq, m + 1, n) \in Seq(S) /\ Len(SubSeq(seq, m + 1, n)) = n - m
         /\ \A x \in 1 .. n - m : SubSeq(seq, m + 1, n)[x] = seq[m + x]
  OBVIOUS

\* A copy to the n places from p on leaves there what it copied, and nothing else.
LEMMA Written ==
  ASSUME size \in Sizes, DOMAIN buf = 0 .. size - 1,
         NEW p \in 0 .. Ring!Range32 - 1, NEW n \in 0 .. size, NEW data \in Seq(Bytes), Len(data) = n
  PROVE  LET i == Min({n, Ring!ToEnd(p)})
             b == Ring!Copied(Ring!Copied(buf, Ring!Offset(p), SubSeq(data, 1, i)),
                              0, SubSeq(data, i + 1, n))
         IN /\ b = [j \in 0 .. size - 1 |-> b[j]]
            /\ \A t \in 1 .. n : b[(p + t - 1) % size] = data[t]
            /\ \A j \in 0 .. size - 1 :
                 (\A t \in 1 .. n : j # (p + t - 1) % size) => b[j] = buf[j]
  <1> DEFINE i == Min({n, Ring!ToEnd(p)})
             o == Ring!Offset(p)
             s == size
             A == SubSeq(data, 1, i)
             B == SubSeq(data, i + 1, n)
             b == Ring!Copied(Ring!Copied(buf, o, A), 0, B)
  <1>1. o = p % s
    BY DEF Ring!Offset
  <1>2. /\ i \in 0 .. n
        /\ \A t \in 1 .. i : (p + t - 1) % s = o + t - 1 /\ o + t - 1 < s
        /\ \A t \in i + 1 .. n : (p + t - 1) % s = t - i - 1
        /\ i > 0 /\ i < n => n - i <= o
        /\ o \in 0 .. s - 1
    <2>1. i \in 0 .. n
      BY RingPlaces
    <2>2. \A t \in 1 .. i : (p + t - 1) % s = (p % s) + t - 1 /\ (p % s) + t - 1 < s
      BY RingPlaces
    <2>3. \A t \in i + 1 .. n : (p + t - 1) % s = t - i - 1
      BY RingPlaces
    <2>4. (i > 0 /\ i < n => n - i <= p % s) /\ p % s \in 0 .. s - 1
      BY RingPlaces
    <2> QED
      BY <1>1, <2>1, <2>2, <2>3, <2>4
  <1>3. s \in Nat \ {0} /\ n \in 0 .. s
    BY SizeOf
  <1> HIDE DEF i, o, s
  <1>7. A \in Seq(Bytes) /\ Len(A) = i /\ \A x \in 1 .. i : A[x] = data[x]
    <2>1. /\ SubSeq(data, 0 + 1, i) \in Seq(Bytes) /\ Len(SubSeq(data, 0 + 1, i)) = i - 0
          /\ \A x \in 1 .. i - 0 : SubSeq(data, 0 + 1, i)[x] = data[0 + x]
      <3>1. i \in Nat /\ i <= Len(data) /\ 0 <= i
        BY <1>2, <1>3
      <3> QED
        BY <3>1, SubSeqOf
    <2>2. 0 + 1 = 1 /\ i - 0 = i /\ \A x \in 1 .. i : 0 + x = x
      BY <1>2, <1>3
    <2> QED
      BY <2>1, <2>2
  <1>8. /\ B \in Seq(Bytes) /\ Len(B) = n - i
        /\ \A x \in 1 .. n - i : B[x] = data[i + x]
    <2>1. i \in Nat /\ n \in Nat /\ n <= Len(data) /\ i <= n
      BY <1>2, <1>3
    <2> QED
      BY <2>1, SubSeqOf
  <1> HIDE DEF A, B
  <1>4. /\ b = [j \in 0 .. s - 1 |-> b[j]]
        /\ \A j \in 0 .. s - 1 :
             /\ j \in 0 .. n - i - 1 => b[j] = data[i + j + 1]
             /\ j \notin 0 .. n - i - 1 /\ j - o \in 0 .. i - 1 => b[j] = data[j - o + 1]
             /\ j \notin 0 .. n - i - 1 /\ j - o \notin 0 .. i - 1 => b[j] = buf[j]
    <2>1. b = Ring!Copied(Ring!Copied(buf, o, A), 0, B)
      OBVIOUS
    <2> HIDE DEF b
    <2>2. DOMAIN buf = 0 .. s - 1 /\ o \in Nat /\ o \in 0 .. s - 1
      BY <1>2, <1>3 DEF s
    <2>3. /\ b = [j \in 0 .. s - 1 |-> b[j]]
          /\ \A j \in 0 .. s - 1 :
               /\ j < Len(B) => b[j] = B[j + 1]
               /\ j >= Len(B) /\ j >= o /\ j - o < Len(A) => b[j] = A[j - o + 1]
               /\ j >= Len(B) /\ ~(j >= o /\ j - o < Len(A)) => b[j] = buf[j]
      <3> DEFINE c == Ring!Copied(buf, o, A)
      <3>1. c = [j \in 0 .. s - 1 |-> IF j - o \in 0 .. Len(A) - 1 THEN A[j - o + 1] ELSE buf[j]]
        BY <2>2 DEF Ring!Copied
      <3>2. b = Ring!Copied(c, 0, B)
        BY <2>1
      <3> HIDE DEF c
      <3>3. DOMAIN c = 0 .. s - 1
        BY <3>1
      <3>4. b = [j \in 0 .. s - 1 |-> IF j - 0 \in 0 .. Len(B) - 1 THEN B[j - 0 + 1] ELSE c[j]]
        BY <3>2, <3>3 DEF Ring!Copied
      <3>5. ASSUME NEW j \in 0 .. s - 1
            PROVE  /\ j < Len(B) => b[j] = B[j + 1]
                   /\ j >= Len(B) /\ j >= o /\ j - o < Len(A) => b[j] = A[j - o + 1]
                   /\ j >= Len(B) /\ ~(j >= o /\ j - o < Len(A)) => b[j] = buf[j]
        <4>1. Len(A) \in Nat /\ Len(B) \in Nat /\ j \in Nat
          BY <1>2, <1>3, <1>7, <1>8
        <4>2. /\ j >= o /\ j - o < Len(A) <=> j - o \in 0 .. Len(A) - 1
              /\ j < Len(B) <=> j \in 0 .. Len(B) - 1
              /\ j >= Len(B) <=> ~(j < Len(B))
          BY <2>2, <4>1
        <4>3. c[j] = IF j - o \in 0 .. Len(A) - 1 THEN A[j - o + 1] ELSE buf[j]
          BY <3>1
        <4>4. j - 0 = j
          BY <4>1
        <4>5. b[j] = IF j \in 0 .. Len(B) - 1 THEN B[j + 1] ELSE c[j]
          BY <3>4, <4>4
        <4> QED
          BY <4>2, <4>3, <4>5
      <3>6. b = [j \in 0 .. s - 1 |-> b[j]]
        BY <3>4
      <3> QED
        BY <3>5, <3>6
    <2>4. ASSUME NEW j \in 0 .. s - 1
          PROVE  /\ j \in 0 .. n - i - 1 => b[j] = data[i + j + 1]
                 /\ j \notin 0 .. n - i - 1 /\ j - o \in 0 .. i - 1 => b[j] = data[j - o + 1]
                 /\ j \notin 0 .. n - i - 1 /\ j - o \notin 0 .. i - 1 => b[j] = buf[j]
      <3>1. i \in Nat /\ n \in Nat /\ i <= n /\ j \in Nat
        BY <1>2, <1>3
      <3>2. j \in 0 .. n - i - 1 => j < Len(B) /\ j + 1 \in 1 .. n - i /\ i + (j + 1) = i + j + 1
        BY <1>8, <3>1
      <3>3. j \notin 0 .. n - i - 1 => j >= Len(B)
        BY <1>8, <3>1
      <3>4. j - o \in 0 .. i - 1 <=> j >= o /\ j - o < Len(A)
        BY <1>7, <2>2, <3>1
      <3>5. j - o \in 0 .. i - 1 => j - o + 1 \in 1 .. i
        BY <2>2, <3>1
      <3>6. j \in 0 .. n - i - 1 => b[j] = data[i + j + 1]
        BY <1>8, <2>3, <3>2
      <3>7. j \notin 0 .. n - i - 1 /\ j - o \in 0 .. i - 1 => b[j] = data[j - o + 1]
        BY <1>7, <2>3, <3>3, <3>4, <3>5
      <3>8. j \notin 0 .. n - i - 1 /\ j - o \notin 0 .. i - 1 => b[j] = buf[j]
        BY <2>3, <3>3, <3>4
      <3> QED
        BY <3>6, <3>7, <3>8
    <2> QED
      BY <2>3, <2>4
  <1> HIDE DEF b
  <1>5. ASSUME NEW t \in 1 .. n PROVE b[(p + t - 1) % s] = data[t]
    <2>1. CASE t <= i
      <3> DEFINE j == o + t - 1
      <3>1. /\ j \in 0 .. s - 1 /\ j - o \in 0 .. i - 1 /\ j \notin 0 .. n - i - 1
            /\ j - o + 1 = t /\ t \in 1 .. i
        <4>1. t \in 1 .. i /\ i > 0
          BY <1>2, <1>3, <2>1
        <4>2. j < s
          BY <1>2, <4>1
        <4>3. i \in Nat /\ o \in Nat /\ n \in Nat /\ t \in Nat /\ s \in Nat
          BY <1>2, <1>3
        <4>4. j \in 0 .. s - 1 /\ j - o \in 0 .. i - 1 /\ j - o + 1 = t
          BY <4>1, <4>2, <4>3
        <4>5. i < n => n - i <= o
          BY <1>2, <4>1
        <4>6. j \notin 0 .. n - i - 1
          BY <1>2, <4>1, <4>3, <4>5
        <4> QED
          BY <4>1, <4>4, <4>6
      <3> HIDE DEF j
      <3>2. b[j] = data[t]
        BY <1>4, <3>1
      <3> QED
        BY <1>2, <3>1, <3>2 DEF j
    <2>2. CASE t > i
      <3> DEFINE j == t - i - 1
      <3>1. j \in 0 .. s - 1 /\ j \in 0 .. n - i - 1 /\ i + j + 1 = t /\ t \in i + 1 .. n
        BY <1>2, <1>3, <2>2
      <3> HIDE DEF j
      <3>2. b[j] = data[t]
        BY <1>4, <3>1
      <3> QED
        BY <1>2, <3>1, <3>2 DEF j
    <2>3. t <= i \/ t > i
      BY <1>2, <1>3
    <2> QED
      BY <2>1, <2>2, <2>3
  <1>6. ASSUME NEW j \in 0 .. s - 1, \A t \in 1 .. n : j # (p + t - 1) % s
        PROVE  b[j] = buf[j]
    <2>1. j \notin 0 .. n - i - 1
      <3>1. ASSUME j \in 0 .. n - i - 1 PROVE FALSE
        <4> DEFINE t == i + j + 1
        <4>1. t \in 1 .. n /\ t \in i + 1 .. n /\ t - i - 1 = j
          BY <1>2, <1>3, <3>1
        <4> HIDE DEF t
        <4> QED
          BY <1>2, <1>6, <4>1
      <3> QED
        BY <3>1
    <2>2. j - o \notin 0 .. i - 1
      <3>1. ASSUME j - o \in 0 .. i - 1 PROVE FALSE
        <4> DEFINE t == j - o + 1
        <4>1. t \in 1 .. n /\ t \in 1 .. i /\ o + t - 1 = j
          BY <1>2, <1>3, <3>1
        <4> HIDE DEF t
        <4> QED
          BY <1>2, <1>6, <4>1
      <3> QED
        BY <3>1
    <2> QED
      BY <1>4, <2>1, <2>2
  <1> QED
    BY <1>4, <1>5, <1>6 DEF A, B, b, i, o, s

\* The counts of a buffer in use.
LEMMA Counts ==
  ASSUME RingInv, buf # <<>>
  PROVE  /\ size \in Sizes /\ size \in Nat \ {0} /\ size < Ring!Range32
         /\ Ring!rb_length = Apart(write_pos, read_pos)
         /\ Ring!rb_length \in 0 .. size /\ Ring!rb_remain = size - Ring!rb_length
         /\ Ring!rb_is_empty <=> Ring!rb_length = 0
         /\ DOMAIN buf = 0 .. size - 1
  <1>1. /\ size \in Sizes /\ read_pos \in 0 .. Ring!Range32 - 1
        /\ write_pos \in 0 .. Ring!Range32 - 1
        /\ Ring!rb_length <= size /\ DOMAIN buf = 0 .. size - 1
    BY DEF RingInv
  <1>2. size \in Nat \ {0} /\ size < Ring!Range32 /\ Ring!Range32 \in Nat \ {0}
    BY <1>1, SizeOf
  <1>3. Ring!rb_length = Apart(write_pos, read_pos)
    BY DEF Ring!rb_length, Apart
  <1>4. /\ Apart(write_pos, read_pos) \in 0 .. Ring!Range32 - 1
        /\ write_pos >= read_pos => Apart(write_pos, read_pos) = write_pos - read_pos
        /\ ~(write_pos >= read_pos)
             => Apart(write_pos, read_pos) = write_pos - read_pos + Ring!Range32
    BY <1>1, Distance
  <1>5. Ring!rb_length \in 0 .. size
    BY <1>1, <1>2, <1>3, <1>4
  <1>6. read_pos = write_pos <=> Ring!rb_length = 0
    BY <1>1, <1>2, <1>3, <1>4
  <1>7. Ring!rb_remain = size - Ring!rb_length
    <2> DEFINE x == size - Ring!rb_length
               m == Ring!Range32
    <2>1. x \in 0 .. m - 1 /\ x \in Int /\ m \in Nat \ {0}
      BY <1>2, <1>5
    <2>2. Ring!rb_remain = x % m
      BY DEF Ring!rb_remain
    <2> HIDE DEF x, m
    <2>3. Ring!rb_remain = x
      BY <2>1, <2>2, ModSmall
    <2> QED
      BY <2>3 DEF x
  <1> QED
    BY <1>1, <1>2, <1>3, <1>5, <1>6, <1>7 DEF Ring!rb_is_empty

\* The writer is as far ahead of the reader as there are unread bytes.
LEMMA WriteAt ==
  ASSUME NEW s \in Sizes, NEW r \in 0 .. Ring!Range32 - 1, NEW w \in 0 .. Ring!Range32 - 1,
         NEW t \in Int
  PROVE  (w + t - 1) % s = (r + Apart(w, r) + t - 1) % s
  <1>1. s \in Nat \ {0} /\ Ring!Range32 \in Nat \ {0}
    BY SizeOf
  <1>2. PICK k \in Int : Ring!Range32 = s * k
    BY SizeOf
  <1>3. PICK l \in Nat : /\ l = Apart(w, r)
                         /\ w >= r => l = w - r
                         /\ ~(w >= r) => l = w - r + Ring!Range32
    <2>1. Apart(w, r) \in Nat
      BY <1>1, Distance
    <2> QED
      BY <2>1, Distance
  <1> DEFINE b == w + t - 1
             x == r + l + t - 1
  <1>4. b \in Int /\ (w >= r => x = b) /\ (~(w >= r) => x = Ring!Range32 + b)
    BY <1>1, <1>3
  <1> HIDE DEF b, x
  <1>5. b \in Int /\ (w >= r => x = b) /\ (~(w >= r) => x = s * k + b)
    BY <1>2, <1>4
  <1>6. b % s = x % s
    <2>1. (s * k + b) % s = b % s
      BY <1>1, <1>5, ModMultiple
    <2> QED
      BY <1>5, <2>1
  <1> QED
    BY <1>3, <1>6 DEF b, x

LEMMA ConcatAt ==
  ASSUME NEW S, NEW x \in Seq(S), NEW y \in Seq(S)
  PROVE  /\ x \o y \in Seq(S) /\ Len(x \o y) = Len(x) + Len(y)
         /\ \A i \in 1 .. Len(x) : (x \o y)[i] = x[i]
         /\ \A i \in 1 .. Len(y) : (x \o y)[Len(x) + i] = y[i]
  OBVIOUS

LEMMA SeqsSame ==
  ASSUME NEW S, NEW x \in Seq(S), NEW y \in Seq(S), NEW n \in Nat, Len(x) = n, Len(y) = n,
         \A i \in 1 .. n : x[i] = y[i]
  PROVE  x = y
  OBVIOUS

\* z is x, of length m, followed by y, of length n.
Joins(x, m, y, n, z) == /\ \A i \in 1 .. m : z[i] = x[i]
                        /\ \A i \in 1 .. n : z[m + i] = y[i]

LEMMA ConcatIs ==
  ASSUME NEW S, NEW x \in Seq(S), NEW y \in Seq(S), NEW z \in Seq(S), NEW m, NEW n,
         m = Len(x), n = Len(y), Len(z) = m + n, Joins(x, m, y, n, z)
  PROVE  z = x \o y
  <1> DEFINE c == x \o y
  <1>1. m \in Nat /\ n \in Nat
   OBVIOUS
  <1>2. /\ c \in Seq(S) /\ Len(c) = m + n
        /\ \A i \in 1 .. m : c[i] = x[i]
        /\ \A i \in 1 .. n : c[m + i] = y[i]
    BY ConcatAt
  <1> HIDE DEF c
  <1>3. PICK l \in Nat : l = m + n
    BY <1>1
  <1>4. ASSUME NEW i \in 1 .. l PROVE z[i] = c[i]
    <2>1. i \in 1 .. m \/ (i - m \in 1 .. n /\ m + (i - m) = i)
      BY <1>1, <1>3
    <2>2. i - m \in 1 .. n => z[m + (i - m)] = c[m + (i - m)]
      BY <1>2 DEF Joins
    <2>3. i \in 1 .. m => z[i] = c[i]
      BY <1>2 DEF Joins
    <2> QED
      BY <2>1, <2>2, <2>3
  <1>5. z = c
    BY <1>2, <1>3, <1>4, SeqsSame
  <1> QED
    BY <1>5 DEF c

LEMMA SubSeqIs ==
  ASSUME NEW S, NEW x \in Seq(S), NEW m \in Nat, NEW n \in Nat, m <= n, n <= Len(x),
         NEW z \in Seq(S), Len(z) = n - m, \A i \in 1 .. n - m : z[i] = x[m + i]
  PROVE  z = SubSeq(x, m + 1, n)
  <1> DEFINE c == SubSeq(x, m + 1, n)
  <1>1. PICK l \in Nat : l = n - m
    OBVIOUS
  <1>2. c \in Seq(S) /\ Len(c) = l /\ \A i \in 1 .. l : c[i] = x[m + i]
    BY <1>1, SubSeqOf
  <1> HIDE DEF c
  <1>3. \A i \in 1 .. l : z[i] = c[i]
    BY <1>1, <1>2
  <1>4. z = c
    BY <1>1, <1>2, <1>3, SeqsSame
  <1> QED
    BY <1>4 DEF c

\* What a buffer can hold; the unread bytes are a sequence of it.
Held == Bytes \cup {buf[j] : j \in 0 .. size - 1}

LEMMA UnreadIs ==
  ASSUME RingInv, buf # <<>>
  PROVE  /\ Ring!Unread \in Seq(Held) /\ Len(Ring!Unread) = Ring!rb_length
         /\ \A i \in 1 .. Ring!rb_length : /\ (read_pos + i - 1) % size \in 0 .. size - 1
                                           /\ Ring!Unread[i] = buf[(read_pos + i - 1) % size]
  <1>1. PICK s \in Nat \ {0} : s = size /\ Ring!rb_length \in 0 .. s
    BY Counts
  <1>2. PICK L \in Nat : L = Ring!rb_length
    BY <1>1
  <1>3. read_pos \in Int
    BY RangeAssumption DEF RingInv
  <1>4. ASSUME NEW i \in 1 .. L PROVE (read_pos + i - 1) % s \in 0 .. s - 1
    <2> DEFINE x == read_pos + i - 1
    <2>1. x \in Int
      BY <1>3
    <2> HIDE DEF x
    <2>2. x % s \in 0 .. s - 1
      BY <2>1, DivModInt
    <2> QED
      BY <2>2 DEF x
  <1>5. Ring!Unread = [i \in 1 .. L |-> buf[(read_pos + i - 1) % s]]
    BY <1>1, <1>2 DEF Ring!Unread, Ring!Offset
  <1>6. \A j \in 0 .. s - 1 : buf[j] \in Held
    BY <1>1 DEF Held
  <1>7. ASSUME NEW i \in 1 .. L PROVE Ring!Unread[i] \in Held
    BY <1>4, <1>5, <1>6
  <1>8. Ring!Unread = [i \in 1 .. L |-> Ring!Unread[i]]
    BY <1>5
  <1>9. Ring!Unread \in [1 .. L -> Held]
    BY <1>7, <1>8
  <1>10. Ring!Unread \in Seq(Held) /\ Len(Ring!Unread) = L
    BY <1>9
  <1> QED
    BY <1>1, <1>2, <1>4, <1>5, <1>10

\* A write that is taken puts its bytes behind the unread ones and disturbs none of them.
LEMMA WriteTaken ==
  ASSUME RingInv, buf # <<>>, NEW n \in Nat, NEW data \in [1 .. n -> Bytes],
         Ring!rb_write(data), ~Ring!Refused(n)
  PROVE  RingInv' /\ n <= size - Len(Ring!Unread) /\ Ring!Unread' = Ring!Unread \o data
  <1>1. PICK s \in Sizes : s = size
    BY Counts
  <1>2. PICK r \in 0 .. Ring!Range32 - 1 : r = read_pos
    BY DEF RingInv
  <1>3. PICK w \in 0 .. Ring!Range32 - 1 : w = write_pos
    BY DEF RingInv
  <1>4. PICK L \in Nat : L = Ring!rb_length /\ L = Apart(w, r) /\ L <= s /\ Ring!rb_remain = s - L
    BY <1>1, <1>2, <1>3, Counts
  <1>5. s \in Nat \ {0} /\ s < Ring!Range32 /\ Ring!Range32 \in Nat \ {0}
    BY SizeOf
  <1>6. n <= s - L
    BY <1>4, <1>5 DEF Ring!Refused
  <1>7. data \in Seq(Bytes) /\ Len(data) = n
    OBVIOUS
  <1>8. /\ size' = s /\ read_pos' = r /\ write_pos' = Ring!Advanced(w, n)
        /\ buf' = Ring!Copied(Ring!Copied(buf, Ring!Offset(w),
                                         SubSeq(data, 1, Min({n, Ring!ToEnd(w)}))),
                         0, SubSeq(data, Min({n, Ring!ToEnd(w)}) + 1, n))
    BY <1>1, <1>2, <1>3, <1>7, SameMin DEF Ring!rb_write, Ring!Rest
  <1>9. n \in 0 .. s /\ DOMAIN buf = 0 .. s - 1
    BY <1>1, <1>4, <1>5, <1>6, Counts
  <1>10. PICK b : /\ b = buf' /\ b = [j \in 0 .. s - 1 |-> b[j]]
                  /\ \A t \in 1 .. n : b[(w + t - 1) % s] = data[t]
                  /\ \A j \in 0 .. s - 1 :
                       (\A t \in 1 .. n : j # (w + t - 1) % s) => b[j] = buf[j]
    <2>1. size \in Sizes /\ DOMAIN buf = 0 .. size - 1 /\ n \in 0 .. size
      BY <1>1, <1>9
    <2> DEFINE i == Min({n, Ring!ToEnd(w)})
               c == Ring!Copied(Ring!Copied(buf, Ring!Offset(w), SubSeq(data, 1, i)),
                                0, SubSeq(data, i + 1, n))
    <2>2. /\ c = [j \in 0 .. size - 1 |-> c[j]]
          /\ \A t \in 1 .. n : c[(w + t - 1) % size] = data[t]
          /\ \A j \in 0 .. size - 1 :
               (\A t \in 1 .. n : j # (w + t - 1) % size) => c[j] = buf[j]
      BY <1>7, <2>1, Written
    <2>3. c = buf'
      BY <1>8
    <2> HIDE DEF c
    <2> QED
      BY <1>1, <2>2, <2>3
  <1>11. PICK w2 \in 0 .. Ring!Range32 - 1 : w2 = write_pos'
    <2>1. n < Ring!Range32
      BY <1>5, <1>9
    <2> QED
      BY <1>8, <2>1, Moved
  <1>12. Ring!rb_length' = L + n
    <2>1. Apart(w, r) + n < Ring!Range32
      BY <1>4, <1>5, <1>6
    <2>2. Apart(w2, r) = L + n
      BY <1>4, <1>8, <1>11, <2>1, LengthWritten
    <2>3. Ring!rb_length' = Apart(w2, r)
      BY <1>8, <1>11 DEF Ring!rb_length, Apart
    <2> QED
      BY <2>2, <2>3
  <1>13. RingInv'
    <2>1. Ring!rb_length' <= s
      BY <1>4, <1>5, <1>6, <1>12
    <2>2. 0 \in 0 .. s - 1
      BY <1>5
    <2>3. b # <<>>
      <3>1. DOMAIN b = 0 .. s - 1
        BY <1>10
      <3>2. DOMAIN <<>> = {}
        OBVIOUS
      <3> QED
        BY <2>2, <3>1, <3>2
    <2> QED
      BY <1>1, <1>8, <1>10, <1>11, <2>1, <2>3 DEF RingInv
  <1>14. Ring!Unread' = [i \in 1 .. L + n |-> b[(r + i - 1) % s]]
    BY <1>8, <1>10, <1>12 DEF Ring!Unread, Ring!Offset
  <1>15. /\ Ring!Unread \in Seq(Held) /\ Len(Ring!Unread) = L
         /\ \A i \in 1 .. L : /\ (r + i - 1) % s \in 0 .. s - 1
                              /\ Ring!Unread[i] = buf[(r + i - 1) % s]
    BY <1>1, <1>2, <1>4, UnreadIs
  <1>16. ASSUME NEW i \in 1 .. L PROVE b[(r + i - 1) % s] = Ring!Unread[i]
    <2>1. ASSUME NEW t \in 1 .. n PROVE (r + i - 1) % s # (w + t - 1) % s
      <3> DEFINE x == r + i - 1
                 y == r + L + t - 1
      <3>1. x \in Int /\ y \in Int /\ x < y /\ y < x + s
        <4>1. /\ r \in Int /\ L \in Int /\ n \in Int /\ s \in Int /\ i \in Int /\ t \in Int
              /\ 1 <= i /\ i <= L /\ 1 <= t /\ t <= n /\ n <= s - L
          BY <1>4, <1>5, <1>6
        <4> QED
          BY ONLY <4>1
      <3> HIDE DEF x, y
      <3>2. x % s # y % s
        BY <1>5, <3>1, ModApart
      <3>3. (w + t - 1) % s = y % s
        <4>1. t \in Int
          OBVIOUS
        <4>2. (w + t - 1) % s = (r + Apart(w, r) + t - 1) % s
          BY <4>1, WriteAt
        <4> QED
          BY <1>4, <4>2 DEF y
      <3> QED
        BY <3>2, <3>3 DEF x
    <2> QED
      BY <1>10, <1>15, <2>1
  <1>17. ASSUME NEW i \in 1 .. n PROVE b[(r + L + i - 1) % s] = data[i]
    <2>1. i \in Int
      OBVIOUS
    <2>2. (w + i - 1) % s = (r + Apart(w, r) + i - 1) % s
      BY <2>1, WriteAt
    <2> QED
      BY <1>4, <1>10, <2>2
  <1>18. Ring!Unread' = Ring!Unread \o data
    <2>1. PICK z : z = Ring!Unread' /\ z = [i \in 1 .. L + n |-> b[(r + i - 1) % s]]
      BY <1>14
    <2>3. \A i \in 1 .. L : z[i] = Ring!Unread[i]
      <3>1. ASSUME NEW i \in 1 .. L PROVE z[i] = Ring!Unread[i]
        <4>1. i \in 1 .. L + n
          OBVIOUS
        <4> QED
          BY <1>16, <2>1, <4>1
      <3> QED
        BY <3>1
    <2>4. \A i \in 1 .. n : z[L + i] = data[i]
      <3>1. ASSUME NEW i \in 1 .. n PROVE z[L + i] = data[i]
        <4>1. L + i \in 1 .. L + n /\ r + (L + i) - 1 = r + L + i - 1
          BY <1>5
        <4>2. z[L + i] = b[(r + L + i - 1) % s]
          BY <2>1, <4>1
        <4> QED
          BY <1>17, <4>2
      <3> QED
        BY <3>1
    <2>5. PICK H : H = Held
      OBVIOUS
    <2>6. data \in [1 .. n -> H]
      <3>1. \A t \in 1 .. n : data[t] \in H
        BY <2>5 DEF Held
      <3>2. data = [t \in 1 .. n |-> data[t]]
        OBVIOUS
      <3> QED
        BY <3>1, <3>2
    <2>7. PICK u \in [1 .. L -> H] : u = Ring!Unread
      <3>1. Ring!Unread \in [1 .. L -> H]
        BY <1>15, <2>5
      <3> QED
        BY <3>1
    <2>8. PICK l \in Nat : l = L + n
      OBVIOUS
    <2>9. z \in [1 .. l -> H]
      <3>1. \A i \in 1 .. l : z[i] \in H
        <4>1. ASSUME NEW i \in 1 .. l PROVE z[i] \in H
          <5>1. i \in 1 .. L \/ (i - L \in 1 .. n /\ L + (i - L) = i)
            BY <2>8
          <5>2. i \in 1 .. L => z[i] = u[i]
            BY <2>3, <2>7
          <5>3. i - L \in 1 .. n => z[L + (i - L)] = data[i - L]
            BY <2>4
          <5> QED
            BY <2>6, <5>1, <5>2, <5>3
        <4> QED
          BY <4>1
      <3>2. z = [i \in 1 .. l |-> z[i]]
        BY <2>1, <2>8
      <3> QED
        BY <3>1, <3>2
    <2>10. z = u \o data
      <3>1. Joins(u, L, data, n, z)
        BY <2>3, <2>4, <2>7 DEF Joins
      <3>2. u \in Seq(H) /\ Len(u) = L
        BY <2>7
      <3>3. data \in Seq(H) /\ Len(data) = n
        BY <2>6
      <3>4. z \in Seq(H) /\ Len(z) = L + n
        BY <2>8, <2>9
      <3> QED
        BY <3>1, <3>2, <3>3, <3>4, ConcatIs
    <2> QED
      BY <2>1, <2>7, <2>10
  <1> QED
    BY <1>1, <1>6, <1>13, <1>15, <1>18

\* A read returns the oldest unread bytes, from both sides of the end of buf, and leaves
\* the others unread.
LEMMA ReadTaken ==
  ASSUME RingInv, buf # <<>>, NEW want \in Nat, Ring!rb_read(want), ~Ring!rb_is_empty
  PROVE  /\ RingInv' /\ Len(Ring!Unread) > 0
         /\ LET n == IF want <= Len(Ring!Unread) THEN want ELSE Len(Ring!Unread)
            IN /\ dst' = SubSeq(Ring!Unread, 1, n) /\ ret' = n
               /\ Ring!Unread' = SubSeq(Ring!Unread, n + 1, Len(Ring!Unread))
  <1>1. PICK s \in Sizes : s = size
    BY Counts
  <1>2. PICK r \in 0 .. Ring!Range32 - 1 : r = read_pos
    BY DEF RingInv
  <1>3. PICK w \in 0 .. Ring!Range32 - 1 : w = write_pos
    BY DEF RingInv
  <1>4. PICK L \in Nat : L = Ring!rb_length /\ L = Apart(w, r) /\ L <= s /\ L > 0
    BY <1>1, <1>2, <1>3, Counts
  <1>5. s \in Nat \ {0} /\ s < Ring!Range32 /\ Ring!Range32 \in Nat \ {0}
    BY SizeOf
  <1>6. PICK n \in 0 .. L : n = Min({want, L}) /\ n = IF want <= L THEN want ELSE L
    <2>1. (want <= L => Min({want, L}) = want) /\ (~(want <= L) => Min({want, L}) = L)
      <3>1. want \in Int /\ L \in Int
        OBVIOUS
      <3> QED
        BY <3>1, MinOf
    <2>2. Min({want, L}) \in 0 .. L
      BY <2>1
    <2>3. Min({want, L}) = IF want <= L THEN want ELSE L
      BY <2>1
    <2> QED
      BY <2>2, <2>3
  <1>7. PICK i : i = Min({n, Ring!ToEnd(r)})
    OBVIOUS
  <1>8. /\ size' = s /\ buf' = buf /\ write_pos' = w /\ read_pos' = Ring!Advanced(r, n)
        /\ dst' = Ring!Taken(Ring!Offset(r), i) \o Ring!Taken(0, n - i) /\ ret' = n
    BY <1>1, <1>2, <1>3, <1>4, <1>6, <1>7, SameMin DEF Ring!rb_read
  <1>9. /\ i \in 0 .. n
        /\ \A t \in 1 .. i : /\ (r + t - 1) % s = (r % s) + t - 1 /\ (r % s) + t - 1 < s
        /\ \A t \in i + 1 .. n : (r + t - 1) % s = t - i - 1
        /\ r % s \in 0 .. s - 1
    <2>1. size \in Sizes /\ n \in 0 .. size
      BY <1>1, <1>4, <1>5, <1>6
    <2> QED
      BY <1>1, <1>7, <2>1, RingPlaces
  <1>10. PICK r2 \in 0 .. Ring!Range32 - 1 : r2 = read_pos' /\ r2 = Ring!Advanced(r, n)
    <2>1. n \in Nat /\ n < Ring!Range32
      BY <1>4, <1>5
    <2> QED
      BY <1>8, <2>1, Moved
  <1>11. Ring!rb_length' = L - n
    <2>1. n \in Nat /\ n <= Apart(w, r)
      BY <1>4
    <2>2. Apart(w, r2) = L - n
      BY <1>4, <1>10, <2>1, LengthRead
    <2>3. Ring!rb_length' = Apart(w, r2)
      BY <1>8, <1>10 DEF Ring!rb_length, Apart
    <2> QED
      BY <2>2, <2>3
  <1>12. RingInv'
    <2>1. Ring!rb_length' <= s
      BY <1>4, <1>5, <1>11
    <2>2. buf = [j \in 0 .. size - 1 |-> buf[j]]
      BY DEF RingInv
    <2> QED
      BY <1>1, <1>8, <1>10, <2>1, <2>2 DEF RingInv
  <1>13. PICK H : H = Held
    OBVIOUS
  <1>14. PICK u \in Seq(H) :
           /\ u = Ring!Unread /\ Len(u) = L
           /\ \A j \in 1 .. L : (r + j - 1) % s \in 0 .. s - 1 /\ u[j] = buf[(r + j - 1) % s]
    <2>1. /\ Ring!Unread \in Seq(H) /\ Len(Ring!Unread) = L
          /\ \A j \in 1 .. L : (r + j - 1) % s \in 0 .. s - 1
                                    /\ Ring!Unread[j] = buf[(r + j - 1) % s]
      BY <1>1, <1>2, <1>4, <1>13, UnreadIs
    <2> QED
      BY <2>1
  <1>15. dst' = SubSeq(u, 1, n)
    <2>1. PICK a : a = Ring!Taken(Ring!Offset(r), i)
      OBVIOUS
    <2>2. PICK b : b = Ring!Taken(0, n - i)
      OBVIOUS
    <2>3. PICK c : c = SubSeq(u, 0 + 1, n)
      OBVIOUS
    <2>4. c \in Seq(H) /\ Len(c) = n /\ \A t \in 1 .. n : c[t] = u[t]
      <3>1. 0 \in Nat /\ n \in Nat /\ n <= Len(u) /\ 0 <= n
        BY <1>14
      <3>2. /\ c \in Seq(H) /\ Len(c) = n - 0
            /\ \A t \in 1 .. n - 0 : c[t] = u[0 + t]
        BY <2>3, <3>1, SubSeqOf
      <3>3. n - 0 = n /\ \A t \in 1 .. n : 0 + t = t
        OBVIOUS
      <3> QED
        BY <3>2, <3>3
    <2>5. \A t \in 1 .. n : u[t] \in H /\ u[t] = buf[(r + t - 1) % s]
      BY <1>14
    <2>6. ASSUME NEW t \in 1 .. i PROVE buf[Ring!Offset(r) + t - 1] = u[t]
      <3>1. t \in 1 .. n
        BY <1>9
      <3> QED
        BY <1>1, <1>9, <2>5, <3>1 DEF Ring!Offset
    <2>7. ASSUME NEW t \in 1 .. n - i PROVE buf[0 + t - 1] = u[i + t]
      <3>1. i + t \in 1 .. n /\ i + t \in i + 1 .. n /\ (i + t) - i - 1 = 0 + t - 1
        BY <1>9
      <3>2. (r + (i + t) - 1) % s = 0 + t - 1
        BY <1>9, <3>1
      <3> QED
        BY <2>5, <3>1, <3>2
    <2>8. a \in Seq(H) /\ Len(a) = i /\ \A t \in 1 .. i : a[t] = u[t]
      <3>1. a = [t \in 1 .. i |-> buf[Ring!Offset(r) + t - 1]]
        BY <2>1 DEF Ring!Taken
      <3>2. \A t \in 1 .. i : a[t] = u[t]
        BY <2>6, <3>1
      <3>3. \A t \in 1 .. i : a[t] \in H
        BY <1>9, <2>5, <3>2
      <3>4. a = [t \in 1 .. i |-> a[t]]
        BY <3>1
      <3>5. a \in [1 .. i -> H] /\ i \in Nat
        BY <1>9, <3>3, <3>4
      <3> QED
        BY <3>2, <3>5
    <2>9. b \in Seq(H) /\ Len(b) = n - i /\ \A t \in 1 .. n - i : b[t] = u[i + t]
      <3>1. PICK k \in Nat : k = n - i
        BY <1>9
      <3>2. b = [t \in 1 .. k |-> buf[0 + t - 1]]
        BY <2>2, <3>1 DEF Ring!Taken
      <3>3. \A t \in 1 .. k : b[t] = u[i + t]
        BY <2>7, <3>1, <3>2
      <3>4. \A t \in 1 .. k : b[t] \in H
        <4>1. ASSUME NEW t \in 1 .. k PROVE b[t] \in H
          <5>1. i + t \in 1 .. n
            BY <1>9, <3>1
          <5> QED
            BY <2>5, <3>3, <5>1
        <4> QED
          BY <4>1
      <3>5. b = [t \in 1 .. k |-> b[t]]
        BY <3>2
      <3>6. b \in [1 .. k -> H]
        BY <3>4, <3>5
      <3> QED
        BY <3>1, <3>3, <3>6
    <2>10. Joins(a, i, b, n - i, c)
      <3>1. \A t \in 1 .. i : c[t] = a[t]
        BY <1>9, <2>4, <2>8
      <3>2. \A t \in 1 .. n - i : c[i + t] = b[t]
        <4>1. ASSUME NEW t \in 1 .. n - i PROVE c[i + t] = b[t]
          <5>1. i + t \in 1 .. n
            BY <1>9
          <5> QED
            BY <2>4, <2>9, <5>1
        <4> QED
          BY <4>1
      <3> QED
        BY <3>1, <3>2 DEF Joins
    <2>11. c = a \o b
      <3>1. PICK k \in Nat : k = n - i
        BY <1>9
      <3>2. Len(c) = i + k /\ Len(b) = k /\ Joins(a, i, b, k, c)
        BY <1>9, <2>4, <2>9, <2>10, <3>1
      <3> QED
        BY <2>4, <2>8, <2>9, <3>2, ConcatIs
    <2>12. 0 + 1 = 1
      OBVIOUS
    <2> QED
      BY <1>8, <2>1, <2>2, <2>3, <2>11, <2>12
  <1>16. Ring!Unread' = SubSeq(u, n + 1, L)
    <2>1. PICK k \in Nat : k = L - n
      OBVIOUS
    <2>2. PICK z : z = Ring!Unread'
      OBVIOUS
    <2>3. z = [j \in 1 .. k |-> buf[(r2 + j - 1) % s]]
      BY <1>8, <1>10, <1>11, <2>1, <2>2 DEF Ring!Unread, Ring!Offset
    <2>4. ASSUME NEW j \in 1 .. k PROVE z[j] = u[n + j]
      <3>1. n + j \in 1 .. L
        BY <2>1
      <3>2. (r2 + j - 1) % s = (r + (n + j) - 1) % s
        <4>1. Divides(s, Ring!Range32)
          BY SizeOf DEF Divides
        <4>2. PICK x \in Int : x = r + n /\ r2 = Reduced(x, Ring!Range32)
          BY <1>5, <1>10 DEF Ring!Advanced, Reduced
        <4>3. Multiples(s, x, r2)
          BY <1>5, <4>1, <4>2, ModRange
        <4>4. PICK a \in Int : x = s * a + r2
          BY <4>3 DEF Multiples
        <4>5. PICK c \in Int : c = r2 + j - 1
          BY <1>5
        <4>6. r + (n + j) - 1 = s * a + c
          <5>1. r + (n + j) - 1 = x + j - 1 /\ s * a \in Int
            BY <1>5, <4>2
          <5> QED
            BY <1>5, <4>4, <4>5, <5>1
        <4>7. (s * a + c) % s = c % s
          BY <1>5, ModMultiple
        <4> QED
          BY <4>5, <4>6, <4>7
      <3> QED
        BY <1>14, <2>3, <3>1, <3>2
    <2>5. z \in [1 .. k -> H]
      <3>1. \A j \in 1 .. k : z[j] \in H
        <4>1. ASSUME NEW j \in 1 .. k PROVE z[j] \in H
          <5>1. n + j \in 1 .. L
            BY <2>1
          <5>2. \A x \in 1 .. L : u[x] \in H
            BY <1>14
          <5>3. z[j] = u[n + j]
            BY <2>4
          <5> QED
            BY <5>1, <5>2, <5>3
        <4> QED
          BY <4>1
      <3>2. z = [j \in 1 .. k |-> z[j]]
        BY <2>3
      <3> QED
        BY <3>1, <3>2
    <2>6. z \in Seq(H) /\ Len(z) = L - n
      BY <2>1, <2>5
    <2>7. \A j \in 1 .. L - n : z[j] = u[n + j]
      BY <2>1, <2>4
    <2>8. n \in Nat /\ n <= L /\ L <= Len(u)
      BY <1>14
    <2>9. z = SubSeq(u, n + 1, L)
      BY <2>6, <2>7, <2>8, SubSeqIs
    <2> QED
      BY <2>2, <2>9
  <1>17. n = IF want <= Len(Ring!Unread) THEN want ELSE Len(Ring!Unread)
    BY <1>6, <1>14
  <1> QED
    BY <1>4, <1>8, <1>12, <1>14, <1>15, <1>16, <1>17

\* Nothing is unread where the positions meet.
LEMMA NothingUnread ==
  ASSUME NEW r \in 0 .. Ring!Range32 - 1
  PROVE  Apart(r, r) = 0
  BY RangeAssumption, Distance

LEMMA RingStart ==
  ASSUME Ring!Init
  PROVE  RingInv /\ Ring!Queue!Init
  <1>1. PICK s \in Sizes : size = s /\ buf = [i \in 0 .. s - 1 |-> Garbage]
    BY DEF Ring!Init
  <1>2. s \in Nat \ {0}
    BY SizeOf
  <1>3. read_pos = Ring!Range32 - 3 /\ write_pos = Ring!Range32 - 3
        /\ src = <<>> /\ dst = <<>> /\ ret = 0
    BY DEF Ring!Init
  <1>4. PICK r \in 0 .. Ring!Range32 - 1 : r = Ring!Range32 - 3
    BY RangeAssumption
  <1>5. Ring!rb_length = 0
    <2>1. Ring!rb_length = Apart(r, r)
      BY <1>3, <1>4 DEF Ring!rb_length, Apart
    <2> QED
      BY <2>1, NothingUnread
  <1>6. Ring!Unread = <<>>
    BY <1>5 DEF Ring!Unread
  <1>7. 0 \in DOMAIN buf /\ DOMAIN <<>> = {} /\ buf = [i \in 0 .. s - 1 |-> buf[i]]
    BY <1>1, <1>2
  <1>8. buf # <<>>
    BY <1>7
  <1>9. RingInv
    BY <1>1, <1>2, <1>3, <1>4, <1>5, <1>7, <1>8 DEF RingInv
  <1> QED
    BY <1>1, <1>3, <1>6, <1>9 DEF Ring!Queue!Init

LEMMA RingUnchanged ==
  ASSUME RingInv, UNCHANGED <<buf, size, read_pos, write_pos>>
  PROVE  RingInv' /\ Ring!Unread' = Ring!Unread
  <1>1. Ring!rb_length' = Ring!rb_length
    BY DEF Ring!rb_length
  <1>2. RingInv'
    BY <1>1 DEF RingInv
  <1>3. Ring!Unread' = Ring!Unread
    BY <1>1 DEF Ring!Unread, Ring!Offset
  <1> QED
    BY <1>2, <1>3

LEMMA RingNext ==
  ASSUME RingInv, Ring!Next
  PROVE  RingInv' /\ [Ring!Queue!Next]_<<Ring!Unread, size, src, dst, ret>>
  <1>0. size \in Nat /\ MaxRequest \in Nat
    BY SizeOf, RequestAssumption, RangeAssumption DEF RingInv
  <1>1. ASSUME NEW n \in 0 .. MaxRequest, NEW data \in [1 .. n -> Bytes], Ring!rb_write(data)
        PROVE  RingInv' /\ [Ring!Queue!Next]_<<Ring!Unread, size, src, dst, ret>>
    <2>1. /\ buf # <<>> /\ Len(data) = n /\ size' = size /\ read_pos' = read_pos
          /\ src' = data /\ dst' = <<>> /\ n \in Nat
      BY <1>0, <1>1 DEF Ring!rb_write
    <2>2. /\ Len(Ring!Unread) \in 0 .. size /\ size # 0
          /\ Ring!Refused(n) <=> n > size - Len(Ring!Unread)
      BY <2>1, Counts, UnreadIs DEF Ring!Refused
    <2>3. Ring!Queue!Fits <=> ~Ring!Refused(n)
      <3>1. PICK L \in Nat : L = Len(Ring!Unread)
        BY <2>2
      <3>2. L + n <= size <=> ~(n > size - L)
        BY <1>0, <2>1, <3>1
      <3> QED
        BY <2>1, <2>2, <3>1, <3>2 DEF Ring!Queue!Fits
    <2>4. src' \in Seq(Bytes) /\ Len(src') <= MaxRequest
      BY <1>0, <1>1, <2>1
    <2>5. RingInv' /\ Ring!Queue!Write
      <3>1. CASE Ring!Refused(n)
        <4>1. UNCHANGED <<buf, size, read_pos, write_pos>> /\ ret' = Ring!MinusOne
          BY <1>1, <2>1, <3>1 DEF Ring!rb_write
        <4>2. RingInv' /\ Ring!Unread' = Ring!Unread
          BY <4>1, RingUnchanged
        <4> QED
          BY <2>1, <2>2, <2>3, <2>4, <3>1, <4>1, <4>2 DEF Ring!Queue!Write
      <3>2. CASE ~Ring!Refused(n)
        <4>1. RingInv' /\ Ring!Unread' = Ring!Unread \o data
          BY <1>1, <2>1, <3>2, WriteTaken
        <4>2. ret' = Len(data)
          BY <1>1, <2>1, <3>2 DEF Ring!rb_write
        <4> QED
          BY <2>1, <2>2, <2>3, <2>4, <3>2, <4>1, <4>2 DEF Ring!Queue!Write
      <3> QED
        BY <3>1, <3>2
    <2> QED
      BY <2>5 DEF Ring!Queue!Next
  <1>2. ASSUME NEW n \in 0 .. MaxRequest, Ring!rb_read(n)
        PROVE  RingInv' /\ [Ring!Queue!Next]_<<Ring!Unread, size, src, dst, ret>>
    <2>1. buf # <<>> /\ UNCHANGED <<buf, size, write_pos>> /\ src' = <<>> /\ n \in Nat
      BY <1>0, <1>2 DEF Ring!rb_read
    <2>2. /\ Len(Ring!Unread) \in 0 .. size /\ size # 0
          /\ Ring!rb_is_empty <=> Len(Ring!Unread) = 0
          /\ Ring!Unread = <<>> <=> Len(Ring!Unread) = 0
      BY <2>1, Counts, UnreadIs
    <2>3. RingInv' /\ Ring!Queue!Read(n)
      <3>1. CASE Ring!rb_is_empty
        <4>1. /\ UNCHANGED <<buf, size, read_pos, write_pos>>
              /\ ret' = Ring!MinusOne /\ dst' = <<>>
          BY <1>2, <2>1, <3>1 DEF Ring!rb_read
        <4>2. RingInv' /\ Ring!Unread' = Ring!Unread
          BY <4>1, RingUnchanged
        <4> QED
          BY <2>1, <2>2, <3>1, <4>1, <4>2 DEF Ring!Queue!Read
      <3>2. CASE ~Ring!rb_is_empty
        <4>1. /\ RingInv'
              /\ dst' = SubSeq(Ring!Unread, 1, Ring!Queue!Oldest(n))
              /\ ret' = Ring!Queue!Oldest(n)
              /\ Ring!Unread' = SubSeq(Ring!Unread, Ring!Queue!Oldest(n) + 1, Len(Ring!Unread))
          BY <1>2, <2>1, <3>2, ReadTaken DEF Ring!Queue!Oldest
        <4> QED
          BY <2>1, <2>2, <3>2, <4>1 DEF Ring!Queue!Read
      <3> QED
        BY <3>1, <3>2
    <2>4. n \in 0 .. MaxRequest
      BY <1>2
    <2> QED
      BY <2>3, <2>4 DEF Ring!Queue!Next
  <1>3. ASSUME Ring!rb_free PROVE RingInv' /\ [Ring!Queue!Next]_<<Ring!Unread, size, src, dst, ret>>
    <2>1. /\ buf' = <<>> /\ size' = 0 /\ read_pos' = 0 /\ write_pos' = 0
          /\ src' = <<>> /\ dst' = <<>> /\ ret' = ret
      BY <1>3 DEF Ring!rb_free
    <2>2. 0 \in 0 .. Ring!Range32 - 1
      BY RangeAssumption
    <2>3. Ring!rb_length' = 0
      <3>1. Ring!rb_length' = Apart(0, 0)
        BY <2>1 DEF Ring!rb_length, Apart
      <3> QED
        BY <2>2, <3>1, NothingUnread
    <2>4. Ring!Unread' = <<>>
      BY <2>3 DEF Ring!Unread
    <2>5. RingInv'
      BY <2>1, <2>2, <2>3 DEF RingInv
    <2>6. Ring!Queue!Free
      BY <2>1, <2>4 DEF Ring!Queue!Free
    <2> QED
      BY <2>5, <2>6 DEF Ring!Queue!Next
  <1>4. ASSUME buf = <<>>, NEW s \in Sizes, Ring!rb_init(s)
        PROVE  RingInv' /\ [Ring!Queue!Next]_<<Ring!Unread, size, src, dst, ret>>
    <2>1. /\ buf' = [i \in 0 .. s - 1 |-> Garbage] /\ size' = s
          /\ read_pos' = Ring!Range32 - 3 /\ write_pos' = Ring!Range32 - 3
          /\ src' = <<>> /\ dst' = <<>> /\ ret' = ret
      BY <1>4 DEF Ring!rb_init
    <2>2. s \in Nat \ {0}
      BY SizeOf
    <2>3. PICK r \in 0 .. Ring!Range32 - 1 : r = Ring!Range32 - 3
      BY RangeAssumption
    <2>4. Ring!rb_length' = 0
      <3>1. Ring!rb_length' = Apart(r, r)
        BY <2>1, <2>3 DEF Ring!rb_length, Apart
      <3> QED
        BY <3>1, NothingUnread
    <2>5. Ring!Unread' = <<>>
      BY <2>4 DEF Ring!Unread
    <2>6. 0 \in DOMAIN buf' /\ DOMAIN <<>> = {} /\ buf' = [i \in 0 .. s - 1 |-> buf'[i]]
      BY <2>1, <2>2
    <2>7. buf' # <<>>
      BY <2>6
    <2>8. RingInv'
      BY <2>1, <2>2, <2>3, <2>4, <2>6, <2>7 DEF RingInv
    <2>9. size = 0 /\ Ring!rb_length <= 0
      BY <1>4 DEF RingInv
    <2>10. Ring!Unread = <<>>
      <3>1. Ring!rb_length \in Int
        <4>1. Ring!rb_length = Apart(write_pos, read_pos)
          BY DEF Ring!rb_length, Apart
        <4>2. Apart(write_pos, read_pos) \in 0 .. Ring!Range32 - 1
          BY Distance DEF RingInv
        <4> QED
          BY <4>1, <4>2
      <3>2. 1 .. Ring!rb_length = {}
        BY <2>9, <3>1
      <3> QED
        BY <3>2 DEF Ring!Unread
    <2>11. Ring!Queue!Renew
      BY <2>1, <2>5, <2>9, <2>10 DEF Ring!Queue!Renew
    <2> QED
      BY <2>8, <2>11 DEF Ring!Queue!Next
  <1> QED
    BY <1>1, <1>2, <1>3, <1>4 DEF Ring!Next

LEMMA RingSteps ==
  ASSUME RingInv, [PartsNext]_allVars
  PROVE  RingInv' /\ [Ring!Queue!Next]_<<Ring!Unread, size, src, dst, ret>>
  <1>1. Ring!Next \/ UNCHANGED Ring!vars
    BY DEF PartsNext, WheelStep, RingStep, ListStep, AllocatorStep, PagesStep, Stopped, allVars,
           ringVars, Ring!vars
  <1>2. CASE Ring!Next
    BY <1>2, RingNext
  <1>3. CASE UNCHANGED Ring!vars
    <2>1. UNCHANGED <<buf, size, read_pos, write_pos, src, dst, ret>>
      BY <1>3 DEF Ring!vars
    <2> QED
      BY <2>1, RingUnchanged
  <1> QED
    BY <1>1, <1>2, <1>3

\* With any sizes that divide the range of a position and any bytes, the ring buffer is a
\* queue: the bytes of each write that is not refused, and no others, are what later reads
\* return, in order and once, wherever the bytes wrap around the buffer and the positions
\* around their range, and each call returns their number (ringbuffer.c:3-85).
THEOREM RingImplementsQueue == PartsSpec => ImplementsQueue
  <1>1. PartsInit => RingInv /\ Ring!Queue!Init
    BY RingStart DEF PartsInit
  <1>2. RingInv /\ [PartsNext]_allVars => RingInv' /\ [Ring!Queue!Next]_<<Ring!Unread, size, src, dst, ret>>
    BY RingSteps
  <1> QED
    BY <1>1, <1>2, PTL DEF PartsSpec, PartsNext, ImplementsQueue, Ring!ImplementsQueue,
        Ring!Queue!Spec, Ring!Queue!vars

===============================================================================
