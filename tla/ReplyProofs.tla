---------------------------- MODULE ReplyProofs ----------------------------
(***************************************************************************)
(* That the reader of replies returns the replies the server sent, whole, in *)
(* order and as soon as their last byte is there (read.c:235-598), and that   *)
(* sdsrange leaves of its buffer all that was not read (sds.c:712-738), for   *)
(* all replies, all ways the network cuts them and every depth of the stack.  *)
(*                                                                          *)
(* The objects of a reply are sent in the order of Precedes, so the object p  *)
(* that the reader is at tells all it holds: the stack is the path to p, the  *)
(* reply read so far are the objects before p, and the bytes left are the     *)
(* tokens of p, those of the objects after p, and what is sent after the      *)
(* reply.  The three are kept by every object that is read, whatever part of  *)
(* the bytes is in the buffer by then.                                        *)
(***************************************************************************)
EXTENDS MCHiredis, FiniteSetTheorems, SequenceTheorems, WellFoundedInduction, TLAPS

LEMMA LeastOf ==
  ASSUME NEW T \in SUBSET Nat, T # {}
  PROVE  \E x \in T : \A y \in T : x <= y
  <1>1. PICK x \in T : \A y \in T : ~(<<y, x>> \in OpToRel(<, Nat))
    BY WFMin, NatLessThanWellFounded
  <1>2. \A y \in T : ~(y < x)
    BY <1>1 DEF OpToRel
  <1> QED
    BY <1>2

LEMMA GreatestOf ==
  ASSUME NEW n \in Nat, NEW T \in SUBSET (0 .. n), T # {}
  PROVE  \E x \in T : \A y \in T : x >= y
  <1> DEFINE U == {n - x : x \in T}
  <1>1. U \in SUBSET Nat /\ U # {}
    <2>1. \A x \in T : n - x \in Nat
      OBVIOUS
    <2> QED
      BY <2>1
  <1>2. PICK u \in U : \A v \in U : u <= v
    BY <1>1, LeastOf
  <1>3. PICK x \in T : u = n - x
    BY <1>2
  <1>4. ASSUME NEW y \in T PROVE x >= y
    <2>1. n - x <= n - y
      BY <1>2, <1>3
    <2> QED
      BY <2>1
  <1> QED
    BY <1>4

-----------------------------------------------------------------------------
(* The order in which the objects of a reply are sent                       *)

Paths == Seq(Nat)

LEMMA PrecedesIs ==
  ASSUME NEW p, NEW q
  PROVE  Reader!Precedes(p, q) <=>
           \E l \in 1 .. Len(q) : /\ l <= Len(p) + 1 /\ \A j \in 1 .. l - 1 : p[j] = q[j]
                                  /\ l <= Len(p) => p[l] < q[l]
  BY DEF Reader!Precedes

LEMMA NotBeforeItself ==
  ASSUME NEW p \in Paths
  PROVE  ~Reader!Precedes(p, p)
  <1>1. \A l \in 1 .. Len(p) : p[l] \in Nat
    BY DEF Paths
  <1> QED
    BY <1>1 DEF Reader!Precedes

LEMMA PrecedesThrough ==
  ASSUME NEW p \in Paths, NEW q \in Paths, NEW s \in Paths,
         Reader!Precedes(p, q), Reader!Precedes(q, s)
  PROVE  Reader!Precedes(p, s)
  <1>1. PICK l \in 1 .. Len(q) : /\ l <= Len(p) + 1 /\ \A j \in 1 .. l - 1 : p[j] = q[j]
                                 /\ l <= Len(p) => p[l] < q[l]
    BY DEF Reader!Precedes
  <1>2. PICK m \in 1 .. Len(s) : /\ m <= Len(q) + 1 /\ \A j \in 1 .. m - 1 : q[j] = s[j]
                                 /\ m <= Len(q) => q[m] < s[m]
    BY DEF Reader!Precedes
  <1>3. /\ Len(p) \in Nat /\ Len(q) \in Nat /\ Len(s) \in Nat
        /\ \A i \in 1 .. Len(p) : p[i] \in Nat
        /\ \A i \in 1 .. Len(q) : q[i] \in Nat
        /\ \A i \in 1 .. Len(s) : s[i] \in Nat
    BY DEF Paths
  <1> SUFFICES \E k \in 1 .. Len(s) : /\ k <= Len(p) + 1 /\ \A j \in 1 .. k - 1 : p[j] = s[j]
                                      /\ k <= Len(p) => p[k] < s[k]
    BY PrecedesIs
  <1>4. CASE l < m
    <2>1. l \in 1 .. Len(s) /\ q[l] = s[l] /\ \A j \in 1 .. l - 1 : q[j] = s[j]
      BY <1>2, <1>3, <1>4
    <2>2. \A j \in 1 .. l - 1 : p[j] = s[j]
      BY <1>1, <2>1
    <2>3. l <= Len(p) => p[l] < s[l]
      BY <1>1, <2>1
    <2> QED
      BY <1>1, <2>1, <2>2, <2>3
  <1>5. CASE l = m
    <2>1. \A j \in 1 .. l - 1 : p[j] = s[j]
      BY <1>1, <1>2, <1>5
    <2>2. l <= Len(p) => p[l] < s[l]
      <3>1. q[l] < s[l]
        BY <1>1, <1>2, <1>3, <1>5
      <3> QED
        BY <1>1, <1>2, <1>3, <1>5, <3>1
    <2> QED
      BY <1>1, <1>2, <1>5, <2>1, <2>2
  <1>6. CASE m < l
    <2>1. m <= Len(p) /\ p[m] = q[m] /\ m <= Len(q)
      BY <1>1, <1>2, <1>3, <1>6
    <2>2. \A j \in 1 .. m - 1 : p[j] = s[j]
      BY <1>1, <1>2, <1>3, <1>6
    <2>3. p[m] < s[m] /\ m <= Len(p) + 1
      BY <1>2, <1>3, <2>1
    <2> QED
      BY <1>2, <2>2, <2>3
  <1> QED
    BY <1>4, <1>5, <1>6, <1>3

\* Of two objects one is sent before the other.
LEMMA OneBeforeOther ==
  ASSUME NEW p \in Paths, NEW q \in Paths, p # q
  PROVE  Reader!Precedes(p, q) \/ Reader!Precedes(q, p)
  <1>0. /\ Len(p) \in Nat /\ Len(q) \in Nat
        /\ \A i \in 1 .. Len(p) : p[i] \in Nat
        /\ \A i \in 1 .. Len(q) : q[i] \in Nat
    BY DEF Paths
  <1> DEFINE Apart == {l \in Nat \ {0} : \/ l > Len(p) \/ l > Len(q)
                                         \/ p[l] # q[l]}
  <1>1. Len(p) + Len(q) + 1 \in Apart
    BY <1>0
  <1>2. PICK l \in Apart : \A k \in Apart : l <= k
    <2>1. Apart \in SUBSET Nat /\ Apart # {}
      BY <1>1
    <2> HIDE DEF Apart
    <2> QED
      BY <2>1, LeastOf
  <1>3. ASSUME NEW j \in 1 .. l - 1 PROVE p[j] = q[j] /\ j <= Len(p) /\ j <= Len(q)
    <2>1. j \notin Apart
      <3>1. l \in Nat /\ j < l
        BY <1>2
      <3> HIDE DEF Apart
      <3> QED
        BY <1>2, <3>1
    <2> QED
      BY <2>1, <1>0, <1>2
  <1>4. l \in Nat \ {0} /\ l <= Len(p) + 1 /\ l <= Len(q) + 1
    <2>1. l \in Nat \ {0}
      BY <1>2
    <2>2. l = 1 \/ l - 1 \in 1 .. l - 1
      BY <2>1
    <2> QED
      BY <2>1, <2>2, <1>3, <1>0
  <1>5. CASE l <= Len(p) /\ l <= Len(q)
    <2>1. p[l] # q[l]
      BY <1>2, <1>4, <1>5, <1>0
    <2>2. p[l] < q[l] \/ q[l] < p[l]
      BY <2>1, <1>0, <1>4, <1>5
    <2> HIDE DEF Apart
    <2> QED
      BY <2>2, <1>3, <1>4, <1>5, <1>0, PrecedesIs
  <1>6. CASE l = Len(p) + 1 /\ l <= Len(q)
    <2> HIDE DEF Apart
    <2> QED
      BY <1>3, <1>4, <1>6, <1>0, PrecedesIs
  <1>7. CASE l = Len(q) + 1 /\ l <= Len(p)
    <2> HIDE DEF Apart
    <2> QED
      BY <1>3, <1>4, <1>7, <1>0, PrecedesIs
  <1>8. CASE l = Len(q) + 1 /\ l = Len(p) + 1
    <2> HIDE DEF Apart
    <2>1. Len(p) = Len(q) /\ \A i \in 1 .. Len(p) : p[i] = q[i]
      BY <1>3, <1>8, <1>0
    <2>2. p = q
      <3>1. p \in Seq(Nat) /\ q \in Seq(Nat)
        BY DEF Paths
      <3> QED
        BY <2>1, <3>1, SeqEqual
    <2> QED
      BY <2>2
  <1> HIDE DEF Apart
  <1> QED
    BY <1>4, <1>5, <1>6, <1>7, <1>8, <1>0

-----------------------------------------------------------------------------
(* The objects of a reply                                                   *)

After(r, p) == Reader!After(r, p)
Before(r, p) == {q \in DOMAIN r : Reader!Precedes(q, p)}

\* How many objects are sent after the one at p.
Coming(r, p) == Cardinality(After(r, p))

LEMMA SameCardinality == \A S : Reader!Cardinality(S) = Cardinality(S)
  BY DEF Reader!Cardinality, Cardinality

LEMMA TreePaths ==
  ASSUME NEW r, Tree(r)
  PROVE  /\ DOMAIN r \subseteq Paths /\ IsFiniteSet(DOMAIN r)
         /\ \A p \in DOMAIN r : p \in Paths /\ Len(p) \in Nat /\ r[p] \in Objects
  BY DEF Tree, Paths

LEMMA AfterIs ==
  ASSUME NEW r, Tree(r), NEW p \in DOMAIN r
  PROVE  /\ \A q : q \in After(r, p) <=> q \in DOMAIN r /\ Reader!Precedes(p, q)
         /\ IsFiniteSet(After(r, p)) /\ Coming(r, p) \in Nat
         /\ p \notin After(r, p)
         /\ Cardinality(DOMAIN r) \in Nat /\ Coming(r, p) < Cardinality(DOMAIN r)
  <1>1. \A q : q \in After(r, p) <=> q \in DOMAIN r /\ Reader!Precedes(p, q)
    BY DEF After, Reader!After
  <1>2. p \notin After(r, p)
    BY <1>1, NotBeforeItself, TreePaths
  <1>3. After(r, p) \subseteq DOMAIN r
    BY <1>1
  <1>4. IsFiniteSet(DOMAIN r)
    BY TreePaths
  <1>5. /\ IsFiniteSet(After(r, p)) /\ Cardinality(After(r, p)) <= Cardinality(DOMAIN r)
        /\ Cardinality(After(r, p)) = Cardinality(DOMAIN r) => After(r, p) = DOMAIN r
    BY <1>3, <1>4, FS_Subset
  <1>6. Cardinality(DOMAIN r) \in Nat /\ Cardinality(After(r, p)) \in Nat
    BY <1>4, <1>5, FS_CardinalityType
  <1> QED
    BY <1>1, <1>2, <1>5, <1>6 DEF Coming

LEMMA FewerComing ==
  ASSUME NEW r, Tree(r), NEW p \in DOMAIN r, NEW q \in DOMAIN r, Reader!Precedes(p, q)
  PROVE  Coming(r, q) < Coming(r, p)
  <1>1. After(r, q) \subseteq After(r, p)
    BY AfterIs, PrecedesThrough, TreePaths
  <1>2. q \in After(r, p) /\ q \notin After(r, q)
    BY AfterIs
  <1>3. IsFiniteSet(After(r, p))
    BY AfterIs
  <1>4. /\ Cardinality(After(r, q)) <= Cardinality(After(r, p))
        /\ Cardinality(After(r, q)) = Cardinality(After(r, p)) => After(r, q) = After(r, p)
    BY <1>1, <1>3, FS_Subset
  <1>5. Cardinality(After(r, p)) \in Nat /\ Cardinality(After(r, q)) \in Nat
    BY AfterIs DEF Coming
  <1> QED
    BY <1>2, <1>4, <1>5 DEF Coming

\* The count of what comes tells an object from the others.
LEMMA ComingTells ==
  ASSUME NEW r, Tree(r), NEW p \in DOMAIN r, NEW q \in DOMAIN r, Coming(r, p) = Coming(r, q)
  PROVE  p = q
  <1> SUFFICES ASSUME p # q PROVE FALSE
    OBVIOUS
  <1>1. Reader!Precedes(p, q) \/ Reader!Precedes(q, p)
    BY OneBeforeOther, TreePaths
  <1>2. Coming(r, p) \in Nat /\ Coming(r, q) \in Nat
    BY AfterIs
  <1> QED
    BY <1>1, <1>2, FewerComing

\* n is the object that is sent after the one at p.
Follows(r, p, n) ==
  /\ n \in DOMAIN r /\ Reader!Precedes(p, n)
  /\ \A q \in DOMAIN r : Reader!Precedes(p, q) => q = n \/ Reader!Precedes(n, q)

LEMMA Followed ==
  ASSUME NEW r, Tree(r), NEW p \in DOMAIN r, NEW n \in DOMAIN r, Follows(r, p, n)
  PROVE  /\ Coming(r, p) = Coming(r, n) + 1
         /\ Before(r, n) = Before(r, p) \cup {p}
  <1>1. \A q : q \in After(r, p) <=> q \in After(r, n) \cup {n}
    BY AfterIs, PrecedesThrough, TreePaths DEF Follows
  <1>2. After(r, p) = After(r, n) \cup {n}
    BY <1>1
  <1>3. Cardinality(After(r, n) \cup {n}) = Cardinality(After(r, n)) + 1
    BY AfterIs, FS_AddElement
  <1>4. \A q : q \in Before(r, n) <=> q \in Before(r, p) \cup {p}
    <2> SUFFICES ASSUME NEW q \in DOMAIN r
                 PROVE  Reader!Precedes(q, n) <=> Reader!Precedes(q, p) \/ q = p
      BY DEF Before
    <2>1. Reader!Precedes(p, n)
      BY DEF Follows
    <2>2. Reader!Precedes(q, p) => Reader!Precedes(q, n)
      BY <2>1, PrecedesThrough, TreePaths
    <2>3. ASSUME Reader!Precedes(q, n), ~Reader!Precedes(q, p), q # p PROVE FALSE
      <3>1. Reader!Precedes(p, q)
        BY <2>3, OneBeforeOther, TreePaths
      <3>2. q = n \/ Reader!Precedes(n, q)
        BY <3>1 DEF Follows
      <3>3. Reader!Precedes(n, n)
        BY <2>3, <3>2, PrecedesThrough, TreePaths
      <3> QED
        BY <3>3, NotBeforeItself, TreePaths
    <2> QED
      BY <2>1, <2>2, <2>3
  <1>5. Before(r, n) = Before(r, p) \cup {p}
    BY <1>4
  <1> QED
    BY <1>2, <1>3, <1>5 DEF Coming

\* Nothing is sent after the object at p.
LEMMA NoneFollows ==
  ASSUME NEW r, Tree(r), NEW p \in DOMAIN r, \A q \in DOMAIN r : ~Reader!Precedes(p, q)
  PROVE  Coming(r, p) = 0 /\ DOMAIN r = Before(r, p) \cup {p}
  <1>1. After(r, p) = {}
    BY AfterIs
  <1>2. Coming(r, p) = 0
    BY <1>1, FS_EmptySet DEF Coming
  <1>3. \A q : q \in DOMAIN r <=> q \in Before(r, p) \cup {p}
    <2>1. ASSUME NEW q \in DOMAIN r, q # p PROVE Reader!Precedes(q, p)
      BY <2>1, OneBeforeOther, TreePaths
    <2> QED
      BY <2>1 DEF Before
  <1>4. DOMAIN r = Before(r, p) \cup {p}
    BY <1>3
  <1> QED
    BY <1>2, <1>4

LEMMA RootFirst ==
  ASSUME NEW r, Tree(r)
  PROVE  /\ <<>> \in DOMAIN r /\ Before(r, <<>>) = {}
         /\ Coming(r, <<>>) + 1 = Cardinality(DOMAIN r)
  <1>1. <<>> \in DOMAIN r
    BY DEF Tree
  <1>2. ASSUME NEW q \in Paths PROVE ~Reader!Precedes(q, <<>>)
    BY DEF Reader!Precedes
  <1>3. Before(r, <<>>) = {}
    BY <1>2, TreePaths DEF Before
  <1>4. \A q : q \in After(r, <<>>) \cup {<<>>} <=> q \in DOMAIN r
    <2>1. ASSUME NEW q \in DOMAIN r, q # <<>> PROVE Reader!Precedes(<<>>, q)
      <3>1. <<>> \in Paths /\ q \in Paths
        BY TreePaths DEF Paths
      <3> QED
        BY <1>2, <2>1, <3>1, OneBeforeOther
    <2> QED
      BY <1>1, <2>1, AfterIs
  <1>5. After(r, <<>>) \cup {<<>>} = DOMAIN r
    BY <1>4
  <1>6. Cardinality(After(r, <<>>) \cup {<<>>}) = Cardinality(After(r, <<>>)) + 1
    BY <1>1, AfterIs, FS_AddElement
  <1> QED
    BY <1>1, <1>3, <1>5, <1>6 DEF Coming

\* The first i indices of p.
Upto(p, i) == SubSeq(p, 1, i)

LEMMA UptoIs ==
  ASSUME NEW p \in Paths, NEW i \in 0 .. Len(p)
  PROVE  /\ Upto(p, i) \in Paths /\ Len(Upto(p, i)) = i
         /\ \A j \in 1 .. i : Upto(p, i)[j] = p[j]
  BY DEF Upto, Paths

LEMMA SamePath ==
  ASSUME NEW p \in Paths, NEW q \in Paths, Len(p) = Len(q), \A i \in 1 .. Len(p) : p[i] = q[i]
  PROVE  p = q
  BY SeqEqual DEF Paths

LEMMA SameUpto ==
  ASSUME NEW p \in Paths, NEW q \in Paths, NEW i \in Nat, i <= Len(p), i <= Len(q),
         \A j \in 1 .. i : p[j] = q[j]
  PROVE  Upto(p, i) = Upto(q, i)
  <1>1. i \in 0 .. Len(p) /\ i \in 0 .. Len(q)
    BY DEF Paths
  <1>2. /\ Upto(p, i) \in Paths /\ Upto(q, i) \in Paths
        /\ Len(Upto(p, i)) = i /\ Len(Upto(q, i)) = i
        /\ \A j \in 1 .. i : Upto(p, i)[j] = p[j] /\ Upto(q, i)[j] = q[j]
    BY <1>1, UptoIs
  <1> QED
    BY <1>2, SamePath

LEMMA UptoAll ==
  ASSUME NEW p \in Paths
  PROVE  Upto(p, Len(p)) = p
  <1>1. Len(p) \in 0 .. Len(p)
    BY DEF Paths
  <1> QED
    BY <1>1, UptoIs, SamePath

\* What lies above the object at p.
LEMMA AboveIt ==
  ASSUME NEW r, Tree(r), NEW p \in DOMAIN r, NEW i \in 1 .. Len(p)
  PROVE  /\ Upto(p, i - 1) \in DOMAIN r /\ Branches(r[Upto(p, i - 1)])
         /\ p[i] \in Nat /\ p[i] < r[Upto(p, i - 1)].val
         /\ r[Upto(p, i - 1)].val \in Nat
         /\ \A j \in 0 .. r[Upto(p, i - 1)].val - 1 : Append(Upto(p, i - 1), j) \in DOMAIN r
  <1>1. /\ Upto(p, i - 1) \in DOMAIN r /\ Branches(r[Upto(p, i - 1)])
        /\ p[i] < r[Upto(p, i - 1)].val
    BY DEF Tree, Upto
  <1>2. r[Upto(p, i - 1)].val \in Nat
    <2>1. r[Upto(p, i - 1)] \in Objects
      BY <1>1, TreePaths
    <2> QED
      BY <1>1, <2>1 DEF Branches, Objects
  <1>3. \A j \in 0 .. r[Upto(p, i - 1)].val - 1 : Append(Upto(p, i - 1), j) \in DOMAIN r
    BY <1>1 DEF Tree
  <1>4. p[i] \in Nat
    BY TreePaths DEF Paths
  <1> QED
    BY <1>1, <1>2, <1>3, <1>4

LEMMA FirstElement ==
  ASSUME NEW r, Tree(r), NEW p \in DOMAIN r, Branches(r[p])
  PROVE  Follows(r, p, Append(p, 0))
  <1> DEFINE n == Append(p, 0)
  <1>0. p \in Paths /\ Len(p) \in Nat
    BY TreePaths
  <1>1. n \in DOMAIN r
    <2>1. 0 \in 0 .. r[p].val - 1
      <3>1. r[p].val \in Int /\ r[p].val > 0
        BY TreePaths DEF Branches, Objects
      <3> QED
        BY <3>1
    <2> QED
      BY <2>1 DEF Tree
  <1>2. n \in Paths /\ Len(n) = Len(p) + 1 /\ n[Len(p) + 1] = 0 /\ \A j \in 1 .. Len(p) : n[j] = p[j]
    BY <1>0 DEF Paths
  <1> HIDE DEF n
  <1>3. Reader!Precedes(p, n)
    <2>1. Len(p) + 1 \in 1 .. Len(n)
      BY <1>0, <1>2
    <2> QED
      BY <1>0, <1>2, <2>1, PrecedesIs
  <1>4. ASSUME NEW q \in DOMAIN r, Reader!Precedes(p, q), q # n PROVE Reader!Precedes(n, q)
    <2>1. PICK l \in 1 .. Len(q) : /\ l <= Len(p) + 1 /\ \A j \in 1 .. l - 1 : p[j] = q[j]
                                   /\ l <= Len(p) => p[l] < q[l]
      BY <1>4 DEF Reader!Precedes
    <2>2. q \in Paths /\ Len(q) \in Nat /\ q[l] \in Nat
      BY <2>1, TreePaths DEF Paths
    <2>3. CASE l <= Len(p)
      <3>1. n[l] = p[l] /\ p[l] < q[l] /\ l <= Len(n) + 1
        BY <2>1, <2>2, <2>3, <1>0, <1>2
      <3>2. \A j \in 1 .. l - 1 : n[j] = q[j]
        BY <2>1, <2>2, <2>3, <1>0, <1>2
      <3> QED
        BY <3>1, <3>2, PrecedesIs
    <2>4. CASE l = Len(p) + 1 /\ q[l] # 0
      <3>1. n[l] < q[l] /\ \A j \in 1 .. l - 1 : n[j] = q[j]
        BY <2>1, <2>2, <2>4, <1>0, <1>2
      <3> QED
        BY <3>1, <2>1, <2>4, <1>2, <1>0, PrecedesIs
    <2>5. CASE l = Len(p) + 1 /\ q[l] = 0
      <3>1. \A j \in 1 .. l : n[j] = q[j]
        BY <2>1, <2>2, <2>5, <1>0, <1>2
      <3>2. Len(q) # l
        BY <3>1, <2>2, <2>5, <1>2, <1>4, SamePath
      <3>3. l + 1 \in 1 .. Len(q) /\ l + 1 = Len(n) + 1 /\ l \in Nat
        BY <3>2, <2>1, <2>2, <2>5, <1>2, <1>0
      <3>4. /\ l + 1 \in 1 .. Len(q) /\ l + 1 <= Len(n) + 1
            /\ \A j \in 1 .. (l + 1) - 1 : n[j] = q[j]
            /\ ~(l + 1 <= Len(n))
        BY <3>1, <3>3, <1>2, <1>0
      <3> QED
        BY <3>4, PrecedesIs
    <2> QED
      BY <2>1, <2>2, <2>3, <2>4, <2>5, <1>0
  <1>5. Follows(r, p, n)
    BY <1>1, <1>3, <1>4 DEF Follows
  <1> QED
    BY <1>5 DEF n

\* The levels at which the object at p has a sibling to come.
Open(r, p) == {i \in 1 .. Len(p) : p[i] + 1 < r[Upto(p, i - 1)].val}

\* What comes after an object without elements is at a level that is open.
LEMMA ThroughOpen ==
  ASSUME NEW r, Tree(r), NEW p \in DOMAIN r, ~Branches(r[p]),
         NEW q \in DOMAIN r, Reader!Precedes(p, q)
  PROVE  \E l \in Open(r, p) : l <= Len(q) /\ p[l] < q[l] /\ \A j \in 1 .. l - 1 : p[j] = q[j]
  <1>0. p \in Paths /\ Len(p) \in Nat /\ q \in Paths /\ Len(q) \in Nat
    BY TreePaths
  <1>1. PICK l \in 1 .. Len(q) : /\ l <= Len(p) + 1 /\ \A j \in 1 .. l - 1 : p[j] = q[j]
                                 /\ l <= Len(p) => p[l] < q[l]
    BY DEF Reader!Precedes
  <1>2. Upto(p, l - 1) = Upto(q, l - 1)
    <2>1. l - 1 \in Nat /\ l - 1 <= Len(p) /\ l - 1 <= Len(q)
      BY <1>0, <1>1
    <2> QED
      BY <1>0, <1>1, <2>1, SameUpto
  <1>3. Branches(r[Upto(q, l - 1)]) /\ q[l] \in Nat /\ q[l] < r[Upto(q, l - 1)].val
        /\ r[Upto(q, l - 1)].val \in Nat
    BY AboveIt
  <1>4. l # Len(p) + 1
    <2>1. l = Len(p) + 1 => Upto(p, l - 1) = p
      BY <1>0, UptoAll
    <2> QED
      BY <1>2, <1>3, <2>1
  <1>5. l \in 1 .. Len(p) /\ p[l] < q[l] /\ p[l] \in Nat
    BY <1>0, <1>1, <1>4 DEF Paths
  <1>6. p[l] + 1 < r[Upto(p, l - 1)].val
    BY <1>2, <1>3, <1>5
  <1> QED
    BY <1>1, <1>5, <1>6 DEF Open

LEMMA LastObject ==
  ASSUME NEW r, Tree(r), NEW p \in DOMAIN r, ~Branches(r[p]), Open(r, p) = {}
  PROVE  \A q \in DOMAIN r : ~Reader!Precedes(p, q)
  BY ThroughOpen

\* The path that goes on at level d.
Onward(p, d) == Append(Upto(p, d - 1), p[d] + 1)

LEMMA OnwardIs ==
  ASSUME NEW p \in Paths, NEW d \in 1 .. Len(p)
  PROVE  /\ Onward(p, d) \in Paths /\ Len(Onward(p, d)) = d /\ Onward(p, d)[d] = p[d] + 1
         /\ \A j \in 1 .. d - 1 : Onward(p, d)[j] = p[j]
  <1>1. d - 1 \in 0 .. Len(p) /\ p[d] + 1 \in Nat
    BY DEF Paths
  <1>2. /\ Upto(p, d - 1) \in Paths /\ Len(Upto(p, d - 1)) = d - 1
        /\ \A j \in 1 .. d - 1 : Upto(p, d - 1)[j] = p[j]
    BY <1>1, UptoIs
  <1> QED
    BY <1>1, <1>2 DEF Onward, Paths

LEMMA NextElement ==
  ASSUME NEW r, Tree(r), NEW p \in DOMAIN r, ~Branches(r[p]),
         NEW d \in Open(r, p), \A i \in Open(r, p) : i <= d
  PROVE  Follows(r, p, Onward(p, d))
  <1> DEFINE n == Onward(p, d)
  <1>0. p \in Paths /\ Len(p) \in Nat /\ d \in 1 .. Len(p) /\ p[d] \in Nat
        /\ \A i \in 1 .. Len(p) : p[i] \in Nat
    BY TreePaths DEF Open, Paths
  <1>1. n \in DOMAIN r
    <2>1. p[d] + 1 < r[Upto(p, d - 1)].val /\ r[Upto(p, d - 1)].val \in Nat
      BY <1>0, AboveIt DEF Open
    <2>2. p[d] + 1 \in 0 .. r[Upto(p, d - 1)].val - 1
      BY <2>1, <1>0
    <2> QED
      BY <1>0, <2>2, AboveIt DEF Onward
  <1>2. n \in Paths /\ Len(n) = d /\ n[d] = p[d] + 1 /\ \A j \in 1 .. d - 1 : n[j] = p[j]
    BY <1>0, OnwardIs
  <1> HIDE DEF n
  <1>3. Reader!Precedes(p, n)
    <2>1. d \in 1 .. Len(n) /\ d <= Len(p) + 1 /\ p[d] < n[d] /\ \A j \in 1 .. d - 1 : p[j] = n[j]
      BY <1>0, <1>2
    <2> QED
      BY <2>1, PrecedesIs
  <1>4. ASSUME NEW q \in DOMAIN r, Reader!Precedes(p, q), q # n PROVE Reader!Precedes(n, q)
    <2>1. PICK l \in Open(r, p) : l <= Len(q) /\ p[l] < q[l] /\ \A j \in 1 .. l - 1 : p[j] = q[j]
      BY <1>4, ThroughOpen
    <2>2. q \in Paths /\ Len(q) \in Nat /\ l \in 1 .. Len(p) /\ l <= d /\ l \in 1 .. Len(q)
          /\ q[l] \in Nat
      <3>1. q \in Paths /\ Len(q) \in Nat
        BY TreePaths
      <3>2. l \in 1 .. Len(p) /\ l <= d
        BY <2>1 DEF Open
      <3>3. l \in 1 .. Len(q)
        BY <3>1, <3>2, <2>1, <1>0
      <3>4. q[l] \in Nat
        BY <3>1, <3>3 DEF Paths
      <3> QED
        BY <3>1, <3>2, <3>3, <3>4
    <2>3. CASE l < d
      <3>1. l <= Len(n) + 1 /\ n[l] < q[l] /\ \A j \in 1 .. l - 1 : n[j] = q[j]
        BY <2>1, <2>2, <2>3, <1>0, <1>2
      <3> QED
        BY <3>1, <2>2, PrecedesIs
    <2>4. CASE l = d /\ q[l] # p[l] + 1
      <3>1. p[l] \in Nat /\ q[l] \in Nat /\ p[l] < q[l]
        BY <1>0, <2>1, <2>2
      <3>2. p[l] + 1 < q[l]
        BY <3>1, <2>4
      <3>3. l <= Len(n) + 1 /\ n[l] < q[l] /\ \A j \in 1 .. l - 1 : n[j] = q[j]
        BY <3>2, <2>1, <2>2, <2>4, <1>0, <1>2
      <3> QED
        BY <3>3, <2>2, PrecedesIs
    <2>5. CASE l = d /\ q[l] = p[l] + 1
      <3>1. \A j \in 1 .. d : n[j] = q[j]
        BY <2>1, <2>2, <2>5, <1>0, <1>2
      <3>2. Len(q) # d
        BY <3>1, <2>2, <1>2, <1>4, SamePath
      <3>3. d + 1 \in 1 .. Len(q)
        BY <3>2, <2>2, <2>5, <1>0
      <3>4. d + 1 <= Len(n) + 1 /\ ~(d + 1 <= Len(n)) /\ (d + 1) - 1 = d
        BY <1>2, <1>0
      <3>5. /\ d + 1 \in 1 .. Len(q) /\ d + 1 <= Len(n) + 1
            /\ \A j \in 1 .. (d + 1) - 1 : n[j] = q[j]
            /\ ~(d + 1 <= Len(n))
        BY <3>1, <3>3, <3>4
      <3> QED
        BY <3>5, PrecedesIs
    <2> QED
      BY <2>2, <2>3, <2>4, <2>5, <1>0
  <1>5. Follows(r, p, n)
    BY <1>1, <1>3, <1>4 DEF Follows
  <1> QED
    BY <1>5 DEF n

LEMMA DeepestOpen ==
  ASSUME NEW r, Tree(r), NEW p \in DOMAIN r, Open(r, p) # {}
  PROVE  \E d \in Open(r, p) : \A i \in Open(r, p) : i <= d
  <1>1. Len(p) \in Nat /\ Open(r, p) \in SUBSET (0 .. Len(p))
    BY TreePaths DEF Open
  <1>2. \E d \in Open(r, p) : \A i \in Open(r, p) : d >= i
    BY <1>1, GreatestOf
  <1> QED
    BY <1>1, <1>2

LEMMA FollowedOrLast ==
  ASSUME NEW r, Tree(r), NEW p \in DOMAIN r
  PROVE  Coming(r, p) = 0 \/ \E n \in DOMAIN r : Follows(r, p, n)
  <1>1. CASE Branches(r[p])
    BY <1>1, FirstElement DEF Follows
  <1>2. CASE ~Branches(r[p]) /\ Open(r, p) = {}
    BY <1>2, LastObject, NoneFollows
  <1>3. CASE ~Branches(r[p]) /\ Open(r, p) # {}
    <2>1. PICK d \in Open(r, p) : \A i \in Open(r, p) : i <= d
      BY <1>3, DeepestOpen
    <2>2. Follows(r, p, Onward(p, d))
      BY <1>3, <2>1, NextElement
    <2> QED
      BY <2>2 DEF Follows
  <1> QED
    BY <1>1, <1>2, <1>3

-----------------------------------------------------------------------------
(* What is sent for a reply                                                 *)

TokenSet == [kind : {"type", "line", "body"}, v : Int \cup STRING]
Streams == Seq(TokenSet)

LEMMA TokenIn ==
  ASSUME NEW k \in {"type", "line", "body"}, NEW v \in Int \cup STRING
  PROVE  Reader!Token(k, v) \in TokenSet
  BY DEF Reader!Token, TokenSet

LEMMA TokensAre ==
  ASSUME NEW o \in Objects
  PROVE  /\ Reader!Tokens(o) \in Streams
         /\ Len(Reader!Tokens(o)) > 0 /\ Len(Reader!Tokens(o)) \in Nat
         /\ Reader!Tokens(o)[1] = Reader!Token("type", o.type)
         /\ Tail(Reader!Tokens(o)) =
              IF o.nil THEN <<Reader!Token("line", -1)>>
              ELSE IF o.type = "$" THEN <<Reader!Token("line", 1), Reader!Token("body", o.val)>>
              ELSE <<Reader!Token("line", o.val)>>
  <1>1. o.type \in STRING /\ o.val \in Int /\ o.nil \in BOOLEAN
    BY DEF Objects
  <1>2. CASE o.nil
    <2>1. Reader!Tokens(o) = <<Reader!Token("type", o.type), Reader!Token("line", -1)>>
      BY <1>2 DEF Reader!Tokens
    <2>2. Reader!Token("type", o.type) \in TokenSet
      BY <1>1, TokenIn
    <2>3. Reader!Token("line", -1) \in TokenSet
      <3>1. PICK v \in Int : v = -1
        OBVIOUS
      <3>2. Reader!Token("line", v) \in TokenSet
        BY ONLY <3>1, TokenIn
      <3> QED
        BY <3>1, <3>2
    <2> QED
      BY <1>2, <2>1, <2>2, <2>3 DEF Streams
  <1>3. CASE ~o.nil /\ o.type = "$"
    <2>1. Reader!Tokens(o) = <<Reader!Token("type", "$"), Reader!Token("line", 1),
                               Reader!Token("body", o.val)>>
      BY <1>3 DEF Reader!Tokens
    <2>2. /\ Reader!Token("type", "$") \in TokenSet /\ Reader!Token("line", 1) \in TokenSet
          /\ Reader!Token("body", o.val) \in TokenSet
      <3>1. Reader!Token("type", o.type) \in TokenSet
        BY <1>1, TokenIn
      <3>2. Reader!Token("line", 1) \in TokenSet /\ Reader!Token("body", o.val) \in TokenSet
        BY <1>1, TokenIn
      <3> QED
        BY <1>3, <3>1, <3>2
    <2> QED
      BY <1>3, <2>1, <2>2 DEF Streams
  <1>4. CASE ~o.nil /\ o.type # "$"
    <2>1. Reader!Tokens(o) = <<Reader!Token("type", o.type), Reader!Token("line", o.val)>>
      BY <1>4 DEF Reader!Tokens
    <2>2. Reader!Token("type", o.type) \in TokenSet /\ Reader!Token("line", o.val) \in TokenSet
      BY <1>1, TokenIn
    <2> QED
      BY <1>4, <2>1, <2>2 DEF Streams
  <1> QED
    BY <1>1, <1>2, <1>3, <1>4

Lasts(r) == Reader!EncodingOfLast(r)

Nth(r, n) == CHOOSE p \in DOMAIN r : Reader!Cardinality(Reader!After(r, p)) = n - 1

LEMMA NthIs ==
  ASSUME NEW r, Tree(r), NEW p \in DOMAIN r, NEW n, n - 1 = Coming(r, p)
  PROVE  Nth(r, n) = p
  <1>1. \A q \in DOMAIN r : Reader!Cardinality(Reader!After(r, q)) = Coming(r, q)
    BY SameCardinality DEF Coming, After
  <1>2. Reader!Cardinality(Reader!After(r, p)) = n - 1
    BY <1>1
  <1>3. Nth(r, n) \in DOMAIN r /\ Reader!Cardinality(Reader!After(r, Nth(r, n))) = n - 1
    BY <1>2 DEF Nth
  <1> QED
    BY <1>1, <1>3, ComingTells

EncodingTurn(r, f, n) == IF n = 0 THEN <<>> ELSE Reader!Tokens(r[Nth(r, n)]) \o f[n - 1]

LEMMA LastsAre ==
  ASSUME NEW r, Tree(r)
  PROVE  \A n \in 0 .. Cardinality(DOMAIN r) : Lasts(r)[n] = EncodingTurn(r, Lasts(r), n)
  <1> DEFINE Is(f, n) == f = [i \in 0 .. n |-> EncodingTurn(r, f, i)]
             Bad == {n \in Nat : ~\E f : Is(f, n)}
             N == Reader!Cardinality(DOMAIN r)
  <1>1. Bad = {}
    <2>1. SUFFICES ASSUME Bad # {} PROVE FALSE
      OBVIOUS
    <2>2. PICK n \in Bad : \A m \in Bad : n <= m
      <3>1. Bad \in SUBSET Nat
        OBVIOUS
      <3> HIDE DEF Bad
      <3> QED
        BY <2>1, <3>1, LeastOf
    <2>3. n # 0
      <3>1. Is([i \in 0 .. 0 |-> <<>>], 0)
        BY DEF EncodingTurn
      <3> QED
        BY <2>2, <3>1
    <2>4. n - 1 \in Nat /\ n - 1 \notin Bad
      <3>1. n \in Nat
        BY <2>2
      <3> HIDE DEF Bad
      <3> QED
        BY <2>2, <2>3, <3>1
    <2>5. PICK f : Is(f, n - 1)
      BY <2>4
    <2> DEFINE g == [i \in 0 .. n |-> EncodingTurn(r, f, i)]
    <2>6. ASSUME NEW i \in 0 .. n PROVE EncodingTurn(r, g, i) = EncodingTurn(r, f, i)
      <3>1. CASE i = 0
        BY <3>1 DEF EncodingTurn
      <3>2. CASE i # 0
        <4>1. i - 1 \in 0 .. n /\ i - 1 \in 0 .. n - 1
          BY <3>2, <2>2
        <4>2. g[i - 1] = EncodingTurn(r, f, i - 1) /\ f[i - 1] = EncodingTurn(r, f, i - 1)
          BY <4>1, <2>5
        <4> HIDE DEF g
        <4> QED
          BY <4>2 DEF EncodingTurn
      <3> QED
        BY <3>1, <3>2
    <2> HIDE DEF g
    <2>7. Is(g, n)
      BY <2>6 DEF g
    <2> QED
      BY <2>2, <2>7
  <1>2. N \in Nat
    BY TreePaths, SameCardinality, FS_CardinalityType
  <1> HIDE DEF N
  <1>3. \E f : Is(f, N)
    BY <1>1, <1>2
  <1>4. Lasts(r) = CHOOSE f : Is(f, N)
    BY DEF Lasts, Reader!EncodingOfLast, EncodingTurn, Nth, N
  <1>5. Is(Lasts(r), N)
    <2> HIDE DEF Is
    <2> QED
      BY <1>3, <1>4
  <1> DEFINE P == Lasts(r)
  <1> HIDE DEF P
  <1>6. Is(P, N)
    BY <1>5 DEF P
  <1>7. \A n \in 0 .. N : P[n] = EncodingTurn(r, P, n)
    BY <1>6
  <1>8. N = Cardinality(DOMAIN r)
    BY SameCardinality DEF N
  <1> QED
    BY <1>7, <1>8 DEF P

\* What is sent after the object at p.
Ahead(r, p) == Lasts(r)[Coming(r, p)]

LEMMA AheadIs ==
  ASSUME NEW r, Tree(r), NEW p \in DOMAIN r
  PROVE  /\ Coming(r, p) = 0 => Ahead(r, p) = <<>>
         /\ Lasts(r)[Coming(r, p) + 1] = Reader!Tokens(r[p]) \o Ahead(r, p)
  <1>1. /\ Coming(r, p) \in 0 .. Cardinality(DOMAIN r)
        /\ Coming(r, p) + 1 \in 0 .. Cardinality(DOMAIN r)
        /\ Coming(r, p) + 1 # 0 /\ Coming(r, p) + 1 - 1 = Coming(r, p)
    BY AfterIs
  <1>2. PICK m : m = Coming(r, p) + 1
    OBVIOUS
  <1>3. Nth(r, m) = p
    BY <1>1, <1>2, NthIs
  <1>4. Lasts(r)[m] = EncodingTurn(r, Lasts(r), m)
    BY <1>1, <1>2, LastsAre
  <1>5. EncodingTurn(r, Lasts(r), m) = Reader!Tokens(r[p]) \o Lasts(r)[m - 1]
    BY <1>1, <1>2, <1>3 DEF EncodingTurn
  <1>6. m - 1 = Coming(r, p)
    BY <1>1, <1>2
  <1>7. Lasts(r)[Coming(r, p)] = EncodingTurn(r, Lasts(r), Coming(r, p))
    BY <1>1, LastsAre
  <1>8. Coming(r, p) = 0 => Ahead(r, p) = <<>>
    BY <1>7 DEF EncodingTurn, Ahead
  <1> QED
    BY <1>2, <1>4, <1>5, <1>6, <1>8 DEF Ahead

LEMMA AheadFollowed ==
  ASSUME NEW r, Tree(r), NEW p \in DOMAIN r, NEW n \in DOMAIN r, Follows(r, p, n)
  PROVE  Ahead(r, p) = Reader!Tokens(r[n]) \o Ahead(r, n)
  <1>1. Coming(r, p) = Coming(r, n) + 1
    BY Followed
  <1>2. Lasts(r)[Coming(r, n) + 1] = Reader!Tokens(r[n]) \o Ahead(r, n)
    BY AheadIs
  <1> QED
    BY <1>1, <1>2 DEF Ahead

LEMMA AheadTyped ==
  ASSUME NEW r, Tree(r)
  PROVE  \A p \in DOMAIN r : Ahead(r, p) \in Streams
  <1> DEFINE Bad == {n \in Nat : \E p \in DOMAIN r : Coming(r, p) = n /\ Ahead(r, p) \notin Streams}
  <1>1. Bad = {}
    <2>1. SUFFICES ASSUME Bad # {} PROVE FALSE
      OBVIOUS
    <2>2. PICK k \in Bad : \A m \in Bad : k <= m
      <3>1. Bad \in SUBSET Nat
        OBVIOUS
      <3> HIDE DEF Bad
      <3> QED
        BY <2>1, <3>1, LeastOf
    <2>3. PICK p \in DOMAIN r : Coming(r, p) = k /\ Ahead(r, p) \notin Streams
      BY <2>2
    <2>4. CASE Coming(r, p) = 0
      <3>1. <<>> \in Streams
        BY DEF Streams
      <3> QED
        BY <2>3, <2>4, <3>1, AheadIs
    <2>5. CASE \E n \in DOMAIN r : Follows(r, p, n)
      <3>1. PICK n \in DOMAIN r : Follows(r, p, n)
        BY <2>5
      <3>2. Coming(r, p) = Coming(r, n) + 1 /\ Coming(r, n) \in Nat
        BY <3>1, Followed, AfterIs
      <3>3. Coming(r, n) \notin Bad
        <4>1. Coming(r, n) < k /\ k \in Nat
          BY <2>3, <3>2
        <4> HIDE DEF Bad
        <4> QED
          BY <2>2, <3>2, <4>1
      <3>4. Ahead(r, n) \in Streams
        BY <3>2, <3>3
      <3>5. Reader!Tokens(r[n]) \in Streams
        BY TreePaths, TokensAre
      <3>6. Ahead(r, p) \in Streams
        <4>1. Ahead(r, p) = Reader!Tokens(r[n]) \o Ahead(r, n)
          BY <3>1, AheadFollowed
        <4> QED
          BY <3>4, <3>5, <4>1 DEF Streams
      <3> QED
        BY <2>3, <3>6
    <2> QED
      BY <2>4, <2>5, FollowedOrLast
  <1> QED
    BY <1>1, AfterIs

LEMMA EncodingIs ==
  ASSUME NEW r, Tree(r)
  PROVE  /\ Reader!Encoding(r) = Reader!Tokens(r[<<>>]) \o Ahead(r, <<>>)
         /\ Reader!Encoding(r) \in Streams /\ Reader!Encoding(r) # <<>>
  <1>1. <<>> \in DOMAIN r /\ Coming(r, <<>>) + 1 = Cardinality(DOMAIN r)
    BY RootFirst
  <1>2. Lasts(r)[Coming(r, <<>>) + 1] = Reader!Tokens(r[<<>>]) \o Ahead(r, <<>>)
    BY <1>1, AheadIs
  <1>3. Reader!Encoding(r) = Lasts(r)[Cardinality(DOMAIN r)]
    BY SameCardinality DEF Reader!Encoding, Lasts
  <1>4. Reader!Encoding(r) = Reader!Tokens(r[<<>>]) \o Ahead(r, <<>>)
    BY <1>1, <1>2, <1>3
  <1> DEFINE t == Reader!Tokens(r[<<>>])
             a == Ahead(r, <<>>)
  <1>5. t \in Streams /\ a \in Streams /\ Len(t) > 0 /\ Len(t) \in Nat
    BY <1>1, TokensAre, TreePaths, AheadTyped
  <1> HIDE DEF t, a
  <1>6. t \o a \in Streams /\ Len(t \o a) = Len(t) + Len(a) /\ Len(a) \in Nat
    BY <1>5 DEF Streams
  <1>7. t \o a # <<>>
    BY <1>5, <1>6
  <1> QED
    BY <1>4, <1>6, <1>7 DEF t, a

-----------------------------------------------------------------------------
(* The tasks on the way to an object                                        *)

None == Reader!None

Level(r, p, t, i) ==
  [type |-> IF i <= Len(p) THEN "*" ELSE t,
   elements |-> IF i <= Len(p) THEN r[Upto(p, i - 1)].val ELSE -1,
   idx |-> IF i = 1 THEN -1 ELSE p[i - 1]]

\* The stack of tasks when the object at p is read and its type is t.
StackAt(r, p, t) == [i \in 1 .. Len(p) + 1 |-> Level(r, p, t, i)]

LEMMA StackIs ==
  ASSUME NEW r, NEW p \in Paths, NEW t
  PROVE  /\ Len(StackAt(r, p, t)) = Len(p) + 1 /\ Len(p) \in Nat
         /\ DOMAIN StackAt(r, p, t) = 1 .. Len(p) + 1
         /\ \A i \in 1 .. Len(p) + 1 : StackAt(r, p, t)[i] = Level(r, p, t, i)
         /\ \A S : (\A i \in 1 .. Len(p) + 1 : Level(r, p, t, i) \in S) => StackAt(r, p, t) \in Seq(S)
  <1>1. Len(p) + 1 \in Nat /\ Len(p) \in Nat
    BY DEF Paths
  <1>2. /\ DOMAIN StackAt(r, p, t) = 1 .. Len(p) + 1
        /\ \A i \in 1 .. Len(p) + 1 : StackAt(r, p, t)[i] = Level(r, p, t, i)
    BY DEF StackAt
  <1>3. \A S : (\A i \in 1 .. Len(p) + 1 : Level(r, p, t, i) \in S) => StackAt(r, p, t) \in Seq(S)
    BY <1>1 DEF StackAt
  <1>4. Len(StackAt(r, p, t)) = Len(p) + 1
    <2> DEFINE S == {Level(r, p, t, i) : i \in 1 .. Len(p) + 1}
    <2>1. StackAt(r, p, t) \in Seq(S)
      BY <1>3
    <2>2. DOMAIN StackAt(r, p, t) = 1 .. Len(StackAt(r, p, t)) /\ Len(StackAt(r, p, t)) \in Nat
      BY <2>1
    <2> QED
      BY <1>1, <1>2, <2>2
  <1> QED
    BY <1>1, <1>2, <1>3, <1>4

LEMMA SameStack ==
  ASSUME NEW s, NEW n \in Nat, DOMAIN s = 1 .. n, s = [i \in 1 .. n |-> s[i]],
         NEW r, NEW p \in Paths, NEW t, n = Len(p) + 1,
         \A i \in 1 .. n : s[i] = Level(r, p, t, i)
  PROVE  s = StackAt(r, p, t)
  BY DEF StackAt

LEMMA TopOf ==
  ASSUME NEW r, NEW p \in Paths, NEW t, rstack = StackAt(r, p, t)
  PROVE  /\ Reader!Path = p /\ Reader!Cur.type = t /\ Len(rstack) = Len(p) + 1 /\ rstack # <<>>
  <1>1. Len(rstack) = Len(p) + 1 /\ Len(p) \in Nat
    BY StackIs
  <1>2. \A i \in 1 .. Len(p) + 1 : rstack[i] = Level(r, p, t, i)
    BY StackIs
  <1>3. Reader!Cur.type = t
    <2>1. Len(p) + 1 \in 1 .. Len(p) + 1
      BY <1>1
    <2>2. rstack[Len(p) + 1] = Level(r, p, t, Len(p) + 1)
      BY <1>2, <2>1
    <2>3. Level(r, p, t, Len(p) + 1).type = t
      BY <1>1 DEF Level
    <2> QED
      BY <1>1, <2>2, <2>3 DEF Reader!Cur, Reader!Last
  <1>4. \A i \in 1 .. Len(p) : rstack[i + 1].idx = p[i]
    <2> SUFFICES ASSUME NEW i \in 1 .. Len(p) PROVE rstack[i + 1].idx = p[i]
      OBVIOUS
    <2>1. PICK k : k = i + 1
      OBVIOUS
    <2>2. k \in 1 .. Len(p) + 1 /\ k # 1 /\ k - 1 = i
      BY <1>1, <2>1
    <2>3. rstack[k] = Level(r, p, t, k)
      BY <1>2, <2>2
    <2>4. Level(r, p, t, k).idx = p[k - 1]
      BY <2>2 DEF Level
    <2> QED
      BY <2>1, <2>2, <2>3, <2>4
  <1>5. Reader!Path = [i \in 1 .. Len(p) |-> p[i]]
    <2>1. Len(rstack) - 1 = Len(p)
      BY <1>1
    <2> QED
      BY <1>4, <2>1 DEF Reader!Path
  <1>6. p = [i \in 1 .. Len(p) |-> p[i]]
    BY DEF Paths
  <1> QED
    BY <1>1, <1>3, <1>5, <1>6

LEMMA RootStack == \A r : StackAt(r, <<>>, None) = <<Reader!Task(-1)>>
  <1> SUFFICES ASSUME NEW r PROVE StackAt(r, <<>>, None) = <<Reader!Task(-1)>>
    OBVIOUS
  <1>1. <<>> \in Paths /\ Len(<<>>) = 0
    BY DEF Paths
  <1>2. Level(r, <<>>, None, 1) = Reader!Task(-1)
    BY <1>1 DEF Level, Reader!Task, None
  <1>3. StackAt(r, <<>>, None) = [i \in 1 .. 1 |-> Level(r, <<>>, None, i)]
    <2>1. Len(<<>>) + 1 = 1
      BY <1>1
    <2> QED
      BY <2>1 DEF StackAt
  <1>4. [i \in 1 .. 1 |-> Level(r, <<>>, None, i)] = <<Level(r, <<>>, None, 1)>>
    OBVIOUS
  <1> QED
    BY <1>2, <1>3, <1>4

LEMMA StackFits ==
  ASSUME NEW r, Tree(r), NEW p \in DOMAIN r, NEW t, rstack = StackAt(r, p, t)
  PROVE  \A i \in 2 .. Len(rstack) : /\ rstack[i - 1].type = "*"
                                     /\ rstack[i].idx \in 0 .. rstack[i - 1].elements - 1
  <1>1. p \in Paths /\ Len(p) \in Nat
    BY TreePaths
  <1>2. Len(rstack) = Len(p) + 1 /\ \A i \in 1 .. Len(p) + 1 : rstack[i] = Level(r, p, t, i)
    BY <1>1, StackIs
  <1> SUFFICES ASSUME NEW i \in 2 .. Len(rstack)
               PROVE  /\ rstack[i - 1].type = "*"
                      /\ rstack[i].idx \in 0 .. rstack[i - 1].elements - 1
    OBVIOUS
  <1>3. PICK j : j = i - 1
    OBVIOUS
  <1>4. j \in 1 .. Len(p) /\ i \in 1 .. Len(p) + 1 /\ j \in 1 .. Len(p) + 1 /\ i # 1
    BY <1>1, <1>2, <1>3
  <1>5. rstack[j].type = "*" /\ rstack[j].elements = r[Upto(p, j - 1)].val /\ rstack[i].idx = p[j]
    <2>1. rstack[j] = Level(r, p, t, j) /\ rstack[i] = Level(r, p, t, i)
      BY <1>2, <1>4
    <2>2. Level(r, p, t, j).type = "*" /\ Level(r, p, t, j).elements = r[Upto(p, j - 1)].val
      BY <1>1, <1>4 DEF Level
    <2>3. Level(r, p, t, i).idx = p[i - 1]
      BY <1>1, <1>4 DEF Level
    <2> QED
      BY <1>3, <2>1, <2>2, <2>3
  <1>6. p[j] \in Nat /\ p[j] < r[Upto(p, j - 1)].val /\ r[Upto(p, j - 1)].val \in Nat
    BY <1>4, AboveIt
  <1>7. p[j] \in 0 .. r[Upto(p, j - 1)].val - 1
    BY <1>6
  <1> QED
    BY <1>3, <1>5, <1>7

\* A task's type is read.
TypedTop(s, t) == [s EXCEPT ![Len(s)].type = t]

LEMMA TypedIs ==
  ASSUME NEW r, NEW p \in Paths, NEW t
  PROVE  TypedTop(StackAt(r, p, None), t) = StackAt(r, p, t)
  <1> DEFINE s == StackAt(r, p, None)
             n == Len(p) + 1
             x == TypedTop(s, t)
  <1>1. Len(s) = n /\ DOMAIN s = 1 .. n /\ n \in Nat /\ n > 0
        /\ \A i \in 1 .. n : s[i] = Level(r, p, None, i)
    BY StackIs
  <1>2. DOMAIN x = 1 .. n /\ x = [i \in 1 .. n |-> x[i]]
    <2> HIDE DEF s, n
    <2> QED
      BY <1>1 DEF TypedTop
  <1>3. ASSUME NEW i \in 1 .. n PROVE x[i] = Level(r, p, t, i)
    <2>1. CASE i # n
      <3>1. x[i] = s[i]
        <4> HIDE DEF s, n
        <4> QED
          BY <1>1, <2>1 DEF TypedTop
      <3>2. i <= Len(p)
        BY <2>1, <1>1
      <3> QED
        BY <1>1, <3>1, <3>2 DEF Level
    <2>2. CASE i = n
      <3>1. x[i] = [s[i] EXCEPT !.type = t]
        <4> HIDE DEF s, n
        <4> QED
          BY <1>1, <2>2 DEF TypedTop
      <3>2. ~(i <= Len(p))
        BY <2>2, <1>1
      <3>3. s[i] = Level(r, p, None, i)
        BY <1>1
      <3> HIDE DEF s, x
      <3> QED
        BY <3>1, <3>2, <3>3 DEF Level
    <2> QED
      BY <2>1, <2>2
  <1> HIDE DEF x
  <1>4. x = StackAt(r, p, t)
    BY <1>1, <1>2, <1>3, SameStack, SMTT(30)
  <1> QED
    BY <1>4 DEF x

OpenIn(s) == {i \in 2 .. Len(s) : s[i].idx # s[i - 1].elements - 1}
Deepest(s) == CHOOSE i \in OpenIn(s) : \A j \in OpenIn(s) : j <= i
CutAt(s, d) == [SubSeq(s, 1, d) EXCEPT ![d] = Reader!Task(s[d].idx + 1)]

LEMMA MovedDef ==
  \A s : Reader!Moved(s) = IF OpenIn(s) = {} THEN <<>> ELSE CutAt(s, Deepest(s))
  BY DEF Reader!Moved, OpenIn, Deepest, CutAt

LEMMA OpenLevels ==
  ASSUME NEW r, Tree(r), NEW p \in DOMAIN r, NEW t
  PROVE  \A i : i \in OpenIn(StackAt(r, p, t)) <=> i \in 2 .. Len(p) + 1 /\ i - 1 \in Open(r, p)
  <1> DEFINE s == StackAt(r, p, t)
  <1>1. p \in Paths /\ Len(p) \in Nat
    BY TreePaths
  <1>2. Len(s) = Len(p) + 1 /\ \A i \in 1 .. Len(p) + 1 : s[i] = Level(r, p, t, i)
    BY <1>1, StackIs
  <1> HIDE DEF s
  <1>3. ASSUME NEW i \in 2 .. Len(p) + 1
        PROVE  s[i].idx # s[i - 1].elements - 1 <=> i - 1 \in Open(r, p)
    <2>1. PICK j : j = i - 1
      OBVIOUS
    <2>2. j \in 1 .. Len(p) /\ i \in 1 .. Len(p) + 1 /\ j \in 1 .. Len(p) + 1 /\ i # 1
      BY <1>1, <2>1
    <2>3. s[j] = Level(r, p, t, j) /\ s[i] = Level(r, p, t, i)
      BY <1>2, <2>2
    <2>4. Level(r, p, t, j).elements = r[Upto(p, j - 1)].val
      BY <2>2 DEF Level
    <2>5. Level(r, p, t, i).idx = p[i - 1]
      BY <2>2 DEF Level
    <2>6. p[j] \in Nat /\ p[j] < r[Upto(p, j - 1)].val /\ r[Upto(p, j - 1)].val \in Nat
      BY <2>2, AboveIt
    <2>7. p[j] # r[Upto(p, j - 1)].val - 1 <=> p[j] + 1 < r[Upto(p, j - 1)].val
      BY <2>6
    <2> QED
      BY <2>1, <2>2, <2>3, <2>4, <2>5, <2>7 DEF Open
  <1>4. \A i : i \in OpenIn(s) <=> i \in 2 .. Len(p) + 1 /\ s[i].idx # s[i - 1].elements - 1
    BY <1>2 DEF OpenIn
  <1>5. \A i : i \in OpenIn(s) <=> i \in 2 .. Len(p) + 1 /\ i - 1 \in Open(r, p)
    BY <1>3, <1>4
  <1> QED
    BY <1>5 DEF s

LEMMA CutIs ==
  ASSUME NEW r, Tree(r), NEW p \in DOMAIN r, NEW t, NEW d \in 1 .. Len(p)
  PROVE  CutAt(StackAt(r, p, t), d + 1) = StackAt(r, Onward(p, d), None)
  <1> DEFINE s == StackAt(r, p, t)
             m == Onward(p, d)
             x == CutAt(s, d + 1)
             TaskIn == {Level(r, p, t, i) : i \in 1 .. Len(p) + 1}
  <1>1. p \in Paths /\ Len(p) \in Nat /\ d + 1 \in 1 .. Len(p) + 1 /\ d \in Nat /\ d # 0
    BY TreePaths
  <1>2. Len(s) = Len(p) + 1 /\ \A i \in 1 .. Len(p) + 1 : s[i] = Level(r, p, t, i)
    BY <1>1, StackIs
  <1>3. s \in Seq(TaskIn)
    BY <1>1, StackIs
  <1>4. m \in Paths /\ Len(m) = d /\ m[d] = p[d] + 1 /\ \A j \in 1 .. d - 1 : m[j] = p[j]
    BY <1>1, OnwardIs
  <1> HIDE DEF s, m, TaskIn
  <1>5. SubSeq(s, 1, d + 1) = [i \in 1 .. d + 1 |-> s[i]]
    BY <1>1, <1>2, <1>3
  <1>6. /\ DOMAIN x = 1 .. d + 1
        /\ \A i \in 1 .. d + 1 : x[i] = IF i = d + 1 THEN Reader!Task(s[d + 1].idx + 1) ELSE s[i]
        /\ x = [i \in 1 .. d + 1 |-> x[i]]
    BY <1>1, <1>5 DEF CutAt
  <1> HIDE DEF x
  <1>7. ASSUME NEW i \in 1 .. d PROVE x[i] = Level(r, m, None, i)
    <2>1. i <= Len(p) /\ i <= Len(m) /\ i # d + 1 /\ i \in 1 .. Len(p) + 1 /\ i \in 1 .. d + 1
      BY <1>1, <1>4
    <2>2. x[i] = Level(r, p, t, i)
      BY <1>2, <1>6, <2>1
    <2>3. Upto(p, i - 1) = Upto(m, i - 1)
      <3>1. i - 1 \in Nat /\ i - 1 <= Len(p) /\ i - 1 <= Len(m)
        BY <1>1, <1>4, <2>1
      <3>2. \A j \in 1 .. i - 1 : p[j] = m[j]
        BY <1>1, <1>4
      <3> QED
        BY <1>1, <1>4, <3>1, <3>2, SameUpto
    <2>4. i # 1 => p[i - 1] = m[i - 1]
      <3>1. i # 1 => i - 1 \in 1 .. d - 1
        BY <1>1
      <3> QED
        BY <1>4, <3>1
    <2> QED
      BY <2>1, <2>2, <2>3, <2>4 DEF Level
  <1>8. x[d + 1] = Level(r, m, None, d + 1)
    <2>1. d + 1 \in 1 .. Len(p) + 1 /\ d + 1 # 1 /\ (d + 1) - 1 = d /\ d + 1 \in 1 .. d + 1
          /\ ~(d + 1 <= Len(m))
      BY <1>1, <1>4
    <2>2. x[d + 1] = Reader!Task(s[d + 1].idx + 1) /\ s[d + 1] = Level(r, p, t, d + 1)
      BY <1>2, <1>6, <2>1
    <2>3. s[d + 1].idx = p[d]
      BY <2>1, <2>2 DEF Level
    <2>4. x[d + 1] = Reader!Task(m[d])
      BY <2>2, <2>3, <1>4
    <2> QED
      BY <2>1, <2>4 DEF Level, Reader!Task, None
  <1>9. \A i \in 1 .. d + 1 : x[i] = Level(r, m, None, i)
    <2>1. \A i \in 1 .. d + 1 : i \in 1 .. d \/ i = d + 1
      BY <1>1
    <2> QED
      BY <2>1, <1>7, <1>8
  <1>10. x = StackAt(r, m, None)
    <2>1. PICK k : k = d + 1
      OBVIOUS
    <2>2. k \in Nat /\ k = Len(m) + 1
      BY <1>1, <1>4, <2>1
    <2>3. DOMAIN x = 1 .. k /\ x = [i \in 1 .. k |-> x[i]]
      BY <1>6, <2>1
    <2>4. \A i \in 1 .. k : x[i] = Level(r, m, None, i)
      BY <1>9, <2>1
    <2> QED
      BY <2>2, <2>3, <2>4 DEF StackAt
  <1> QED
    BY <1>10 DEF x, s, m

\* moveToNextTask goes to the object that follows one without elements.
LEMMA MovedOn ==
  ASSUME NEW r, Tree(r), NEW p \in DOMAIN r, NEW t, ~Branches(r[p])
  PROVE  \/ /\ Open(r, p) = {} /\ Reader!Moved(StackAt(r, p, t)) = <<>>
         \/ \E n \in DOMAIN r : /\ Follows(r, p, n) /\ Len(n) <= Len(p)
                                /\ Reader!Moved(StackAt(r, p, t)) = StackAt(r, n, None)
  <1> DEFINE s == StackAt(r, p, t)
  <1>1. p \in Paths /\ Len(p) \in Nat
    BY TreePaths
  <1>2. \A i : i \in OpenIn(s) <=> i \in 2 .. Len(p) + 1 /\ i - 1 \in Open(r, p)
    BY OpenLevels
  <1>3. Open(r, p) \subseteq 1 .. Len(p)
    BY DEF Open
  <1>4. CASE Open(r, p) = {}
    <2>1. OpenIn(s) = {}
      BY <1>2, <1>4
    <2> QED
      BY <1>4, <2>1, MovedDef
  <1>5. CASE Open(r, p) # {}
    <2>1. PICK d \in Open(r, p) : \A i \in Open(r, p) : i <= d
      BY <1>5, DeepestOpen
    <2>2. d \in 1 .. Len(p) /\ d + 1 - 1 = d /\ d + 1 \in 2 .. Len(p) + 1
      BY <1>1, <1>3, <2>1
    <2>3. d + 1 \in OpenIn(s)
      BY <1>2, <2>1, <2>2
    <2>4. ASSUME NEW j \in OpenIn(s) PROVE j <= d + 1
      <3>1. j \in 2 .. Len(p) + 1 /\ j - 1 \in Open(r, p)
        BY <1>2
      <3>2. j - 1 <= d
        BY <2>1, <3>1
      <3> QED
        BY <2>2, <3>1, <3>2
    <2> HIDE DEF s
    <2>5. Deepest(s) \in OpenIn(s) /\ \A j \in OpenIn(s) : j <= Deepest(s)
      BY <2>3, <2>4 DEF Deepest
    <2>6. Deepest(s) = d + 1
      <3>1. Deepest(s) \in 2 .. Len(p) + 1
        BY <1>2, <2>5
      <3>2. d + 1 <= Deepest(s) /\ Deepest(s) <= d + 1
        BY <2>3, <2>4, <2>5
      <3> QED
        BY <1>1, <2>2, <3>1, <3>2
    <2>7. Reader!Moved(s) = CutAt(s, d + 1)
      BY <2>3, <2>6, MovedDef
    <2>8. CutAt(s, d + 1) = StackAt(r, Onward(p, d), None)
      BY <2>2, CutIs DEF s
    <2>9. Follows(r, p, Onward(p, d))
      BY <2>1, NextElement
    <2>10. Len(Onward(p, d)) <= Len(p)
      <3>1. Len(Onward(p, d)) = d
        BY <1>1, <2>2, OnwardIs
      <3> QED
        BY <1>1, <2>2, <3>1
    <2>11. Onward(p, d) \in DOMAIN r
      BY <2>9 DEF Follows
    <2> QED
      BY <2>7, <2>8, <2>9, <2>10, <2>11 DEF s
  <1> QED
    BY <1>4, <1>5

\* An array becomes a task of its own.
Pushed(s, v) == Append([s EXCEPT ![Len(s)].elements = v], Reader!Task(0))

LEMMA PushedIs ==
  ASSUME NEW r, NEW p \in Paths
  PROVE  Pushed(StackAt(r, p, "*"), r[p].val) = StackAt(r, Append(p, 0), None)
  <1> DEFINE s == StackAt(r, p, "*")
             n == Len(p) + 1
             m == Append(p, 0)
             v == r[p].val
             y == [s EXCEPT ![Len(s)].elements = v]
             TaskIn == {Level(r, p, "*", i) : i \in 1 .. Len(p) + 1} \cup {Level(r, m, None, i) : i \in 1 .. Len(p) + 2}
  <1>1. Len(s) = n /\ DOMAIN s = 1 .. n /\ n \in Nat /\ n > 0 /\ Len(p) \in Nat
        /\ \A i \in 1 .. n : s[i] = Level(r, p, "*", i)
    BY StackIs
  <1>2. m \in Paths /\ Len(m) = n /\ m[n] = 0 /\ \A j \in 1 .. Len(p) : m[j] = p[j]
    BY DEF Paths
  <1>3. /\ DOMAIN y = 1 .. n /\ y = [i \in 1 .. n |-> y[i]]
        /\ \A i \in 1 .. n : y[i] = IF i = n THEN [s[i] EXCEPT !.elements = v] ELSE s[i]
    <2> HIDE DEF s, n, v
    <2> QED
      BY <1>1
  <1> HIDE DEF y, m, s
  <1>4. ASSUME NEW i \in 1 .. n PROVE y[i] = Level(r, m, None, i)
    <2>0. i # 1 => p[i - 1] = m[i - 1]
      <3>1. i # 1 => i - 1 \in 1 .. Len(p)
        BY <1>1
      <3> QED
        BY <1>2, <3>1
    <2>1. Upto(p, i - 1) = Upto(m, i - 1)
      <3>1. i - 1 \in Nat /\ i - 1 <= Len(p) /\ i - 1 <= Len(m)
        BY <1>1, <1>2
      <3>2. \A j \in 1 .. i - 1 : p[j] = m[j]
        BY <1>1, <1>2
      <3> QED
        BY <1>2, <3>1, <3>2, SameUpto
    <2>2. s[i] = Level(r, p, "*", i) /\ i <= Len(m)
      BY <1>1, <1>2
    <2>3. CASE i # n
      <3>1. y[i] = s[i] /\ i <= Len(p)
        BY <1>1, <1>3, <2>3
      <3> QED
        BY <2>0, <2>1, <2>2, <3>1 DEF Level
    <2>4. CASE i = n
      <3>1. y[i] = [s[i] EXCEPT !.elements = v] /\ ~(i <= Len(p))
        BY <1>1, <1>3, <2>4
      <3>2. Upto(p, i - 1) = p
        <4>1. i - 1 = Len(p)
          BY <1>1, <2>4
        <4> QED
          BY <4>1, UptoAll
      <3>3. Level(r, p, "*", i) = [type |-> "*", elements |-> -1, idx |-> IF i = 1 THEN -1 ELSE p[i - 1]]
        BY <3>1 DEF Level
      <3>4. Level(r, m, None, i) = [type |-> "*", elements |-> v, idx |-> IF i = 1 THEN -1 ELSE m[i - 1]]
        BY <2>1, <2>2, <3>2 DEF Level
      <3> HIDE DEF v
      <3> QED
        BY <2>0, <2>2, <3>1, <3>3, <3>4
    <2> QED
      BY <2>3, <2>4
  <1>5. Level(r, m, None, n + 1) = Reader!Task(0)
    BY <1>1, <1>2 DEF Level, Reader!Task, None
  <1>6. \A S : (\A i \in 1 .. n : y[i] \in S) => y \in Seq(S)
    BY <1>1, <1>3
  <1>7. y \in Seq(TaskIn) /\ Reader!Task(0) \in TaskIn
    <2>1. \A i \in 1 .. n : y[i] \in TaskIn
      BY <1>1, <1>4
    <2>2. n + 1 \in 1 .. Len(p) + 2
      BY <1>1
    <2>3. Reader!Task(0) \in TaskIn
      BY <1>5, <2>2
    <2> HIDE DEF TaskIn
    <2> QED
      BY <1>6, <2>1, <2>3
  <1> HIDE DEF TaskIn
  <1>8. Len(y) = n
    BY <1>1, <1>3, <1>7
  <1> DEFINE x == Append(y, Reader!Task(0))
  <1>9. /\ DOMAIN x = 1 .. n + 1 /\ x = [i \in 1 .. n + 1 |-> x[i]]
        /\ x[n + 1] = Reader!Task(0) /\ \A i \in 1 .. n : x[i] = y[i]
    <2> HIDE DEF n
    <2>1. x \in Seq(TaskIn) /\ Len(x) = n + 1
      BY <1>1, <1>7, <1>8
    <2>2. x[n + 1] = Reader!Task(0) /\ \A i \in 1 .. n : x[i] = y[i]
      BY <1>1, <1>7, <1>8
    <2> HIDE DEF x
    <2> QED
      BY <2>1, <2>2
  <1> HIDE DEF x
  <1>10. \A i \in 1 .. n + 1 : x[i] = Level(r, m, None, i)
    <2>1. \A i \in 1 .. n + 1 : i \in 1 .. n \/ i = n + 1
      BY <1>1
    <2> QED
      BY <2>1, <1>4, <1>5, <1>9
  <1>11. x = StackAt(r, m, None)
    <2>1. PICK k : k = n + 1
      OBVIOUS
    <2>2. k \in Nat /\ k = Len(m) + 1
      BY <1>1, <1>2, <2>1
    <2>3. DOMAIN x = 1 .. k /\ x = [i \in 1 .. k |-> x[i]]
      BY <1>9, <2>1
    <2>4. \A i \in 1 .. k : x[i] = Level(r, m, None, i)
      BY <1>10, <2>1
    <2> HIDE DEF n
    <2> QED
      BY <1>2, <2>2, <2>3, <2>4, SameStack
  <1> QED
    BY <1>11 DEF x, y, s, m, Pushed

-----------------------------------------------------------------------------
(* The bytes that are not read yet                                          *)

\* What is left of a stream behind position k of the buffer.
LeftOf(b, s, k) == SubSeq(b, k + 1, Len(b)) \o s
LeftFrom(k) == LeftOf(buf, stream, k)
Left == LeftFrom(pos)

Buffered == buf \in Streams /\ stream \in Streams /\ pos \in 0 .. Len(buf)

LEMMA JoinedIs ==
  ASSUME NEW s \in Streams, NEW t \in Streams
  PROVE  /\ s \o t \in Streams /\ Len(s \o t) = Len(s) + Len(t)
         /\ \A i \in 1 .. Len(s) + Len(t) : (s \o t)[i] = IF i <= Len(s) THEN s[i] ELSE t[i - Len(s)]
  BY DEF Streams

LEMMA LeftIs ==
  ASSUME NEW d \in Streams, NEW s \in Streams, NEW k \in 0 .. Len(d)
  PROVE  /\ LeftOf(d, s, k) \in Streams /\ Len(LeftOf(d, s, k)) = Len(d) - k + Len(s)
         /\ \A i \in 1 .. Len(LeftOf(d, s, k)) :
              LeftOf(d, s, k)[i] = IF i <= Len(d) - k THEN d[k + i] ELSE s[i - (Len(d) - k)]
  <1>1. Len(d) \in Nat /\ Len(s) \in Nat
    BY DEF Streams
  <1> DEFINE b == SubSeq(d, k + 1, Len(d))
  <1>2. b \in Streams /\ Len(b) = Len(d) - k
    <2>1. k + 1 \in 1 .. Len(d) + 1
      BY <1>1
    <2> QED
      BY <1>1, <2>1 DEF Streams
  <1>3. \A i \in 1 .. Len(b) : b[i] = d[k + i]
    BY <1>1, <1>2 DEF Streams
  <1> HIDE DEF b
  <1>4. /\ b \o s \in Streams /\ Len(b \o s) = Len(b) + Len(s)
        /\ \A i \in 1 .. Len(b) + Len(s) :
             (b \o s)[i] = IF i <= Len(b) THEN b[i] ELSE s[i - Len(b)]
    BY <1>2, JoinedIs
  <1>5. LeftOf(d, s, k) = b \o s
    BY DEF LeftOf, b
  <1>6. ASSUME NEW i \in 1 .. Len(LeftOf(d, s, k))
        PROVE  LeftOf(d, s, k)[i] = IF i <= Len(d) - k THEN d[k + i] ELSE s[i - (Len(d) - k)]
    <2>1. i \in 1 .. Len(b) + Len(s)
      BY <1>4, <1>5
    <2>2. LeftOf(d, s, k)[i] = IF i <= Len(b) THEN b[i] ELSE s[i - Len(b)]
      BY <1>4, <1>5, <2>1
    <2>3. i <= Len(b) => b[i] = d[k + i]
      BY <1>1, <1>2, <1>3, <2>1
    <2> QED
      BY <1>2, <2>2, <2>3
  <1> QED
    BY <1>2, <1>4, <1>5, <1>6

LEMMA LeftTyped ==
  ASSUME buf \in Streams, stream \in Streams, NEW k \in 0 .. Len(buf)
  PROVE  /\ LeftFrom(k) \in Streams /\ Len(LeftFrom(k)) = Len(buf) - k + Len(stream)
         /\ \A i \in 1 .. Len(LeftFrom(k)) :
              LeftFrom(k)[i] = IF i <= Len(buf) - k THEN buf[k + i] ELSE stream[i - (Len(buf) - k)]
  BY LeftIs DEF LeftFrom

\* One token is taken.
LEMMA TakeOne ==
  ASSUME buf \in Streams, stream \in Streams, NEW k \in 0 .. Len(buf), k + 1 <= Len(buf),
         NEW t \in Streams, NEW g \in Streams, LeftFrom(k) = t \o g, Len(t) > 0
  PROVE  /\ buf[k + 1] = t[1] /\ k + 1 \in 0 .. Len(buf)
         /\ LeftFrom(k + 1) = Tail(t) \o g
  <1>1. Len(buf) \in Nat /\ Len(stream) \in Nat /\ Len(t) \in Nat /\ Len(g) \in Nat /\ k \in Nat
    BY DEF Streams
  <1>2. k + 1 \in 0 .. Len(buf)
    BY <1>1
  <1> DEFINE u == LeftFrom(k)
             v == LeftFrom(k + 1)
             w == Tail(t) \o g
  <1>3. /\ u \in Streams /\ Len(u) = Len(buf) - k + Len(stream)
        /\ \A i \in 1 .. Len(u) : u[i] = IF i <= Len(buf) - k THEN buf[k + i] ELSE stream[i - (Len(buf) - k)]
    BY LeftTyped
  <1>4. /\ v \in Streams /\ Len(v) = Len(buf) - (k + 1) + Len(stream)
        /\ \A i \in 1 .. Len(v) : v[i] = IF i <= Len(buf) - (k + 1) THEN buf[(k + 1) + i]
                                          ELSE stream[i - (Len(buf) - (k + 1))]
    <2>1. PICK m : m = k + 1
      OBVIOUS
    <2>2. m \in 0 .. Len(buf)
      BY <1>2, <2>1
    <2>3. /\ LeftFrom(m) \in Streams /\ Len(LeftFrom(m)) = Len(buf) - m + Len(stream)
          /\ \A i \in 1 .. Len(LeftFrom(m)) :
               LeftFrom(m)[i] = IF i <= Len(buf) - m THEN buf[m + i] ELSE stream[i - (Len(buf) - m)]
      BY <2>2, LeftTyped
    <2> QED
      BY <2>1, <2>3
  <1>5. /\ t \o g \in Streams /\ Len(t \o g) = Len(t) + Len(g)
        /\ \A i \in 1 .. Len(t) + Len(g) : (t \o g)[i] = IF i <= Len(t) THEN t[i] ELSE g[i - Len(t)]
    BY DEF Streams
  <1>6. /\ Tail(t) \in Streams /\ Len(Tail(t)) = Len(t) - 1
        /\ \A i \in 1 .. Len(t) - 1 : Tail(t)[i] = t[i + 1]
    <2>1. t # <<>>
      BY <1>1
    <2> QED
      BY <1>1, <2>1 DEF Streams
  <1>7. /\ w \in Streams /\ Len(w) = Len(t) - 1 + Len(g)
        /\ \A i \in 1 .. Len(w) : w[i] = IF i <= Len(t) - 1 THEN t[i + 1] ELSE g[i - (Len(t) - 1)]
    <2> DEFINE y == Tail(t)
    <2>1. y \in Streams /\ Len(y) = Len(t) - 1 /\ \A i \in 1 .. Len(t) - 1 : y[i] = t[i + 1]
      BY <1>6
    <2> HIDE DEF y
    <2>2. /\ y \o g \in Streams /\ Len(y \o g) = Len(y) + Len(g)
          /\ \A i \in 1 .. Len(y) + Len(g) : (y \o g)[i] = IF i <= Len(y) THEN y[i] ELSE g[i - Len(y)]
      BY <2>1, JoinedIs
    <2>3. ASSUME NEW i \in 1 .. Len(y \o g)
          PROVE  (y \o g)[i] = IF i <= Len(t) - 1 THEN t[i + 1] ELSE g[i - (Len(t) - 1)]
      <3>1. i <= Len(t) - 1 => y[i] = t[i + 1]
        BY <1>1, <2>1, <2>2, SMTT(30)
      <3>2. i \in 1 .. Len(y) + Len(g)
        BY <2>2
      <3> QED
        BY <2>1, <2>2, <3>1, <3>2
    <2> QED
      BY <2>1, <2>2, <2>3 DEF y
  <1>8. u = t \o g
    OBVIOUS
  <1> HIDE DEF u, v, w
  <1>9. Len(u) = Len(t) + Len(g) /\ Len(v) = Len(w) /\ Len(v) \in Nat /\ Len(v) + 1 = Len(u)
    BY <1>1, <1>3, <1>4, <1>5, <1>7, <1>8
  <1>10. buf[k + 1] = t[1]
    <2>1. 1 \in 1 .. Len(u) /\ 1 <= Len(buf) - k /\ 1 <= Len(t) /\ 1 \in 1 .. Len(t) + Len(g)
      BY <1>1, <1>9
    <2>2. u[1] = buf[k + 1]
      BY <1>3, <2>1
    <2>3. u[1] = t[1]
      BY <1>5, <1>8, <2>1
    <2> QED
      BY <2>2, <2>3
  <1>11. ASSUME NEW i \in 1 .. Len(v) PROVE v[i] = w[i]
    <2>1. PICK j : j = i + 1
      OBVIOUS
    <2>2. j \in 1 .. Len(u) /\ i \in 1 .. Len(w) /\ j \in 1 .. Len(t) + Len(g)
      BY <1>9, <2>1
    <2>3. v[i] = u[j]
      <3>1. i <= Len(buf) - (k + 1) <=> j <= Len(buf) - k
        BY <1>1, <2>1, <1>9
      <3>2. (k + 1) + i = k + j /\ i - (Len(buf) - (k + 1)) = j - (Len(buf) - k)
        BY <1>1, <2>1, <1>9
      <3>3. u[j] = IF j <= Len(buf) - k THEN buf[k + j] ELSE stream[j - (Len(buf) - k)]
        BY <1>3, <2>2
      <3>4. v[i] = IF i <= Len(buf) - (k + 1) THEN buf[(k + 1) + i]
                   ELSE stream[i - (Len(buf) - (k + 1))]
        BY <1>4
      <3> QED
        BY <3>1, <3>2, <3>3, <3>4
    <2>4. w[i] = u[j]
      <3>1. i <= Len(t) - 1 <=> j <= Len(t)
        BY <1>1, <2>1, <1>9
      <3>2. i - (Len(t) - 1) = j - Len(t)
        BY <1>1, <2>1, <1>9
      <3>3. u[j] = IF j <= Len(t) THEN t[j] ELSE g[j - Len(t)]
        BY <1>5, <1>8, <2>2
      <3>4. w[i] = IF i <= Len(t) - 1 THEN t[i + 1] ELSE g[i - (Len(t) - 1)]
        BY <1>7, <2>2
      <3> QED
        BY <2>1, <3>1, <3>2, <3>3, <3>4
    <2> QED
      BY <2>3, <2>4
  <1>12. v = w
    BY <1>4, <1>7, <1>9, <1>11, SeqEqual DEF Streams
  <1> QED
    BY <1>2, <1>10, <1>12 DEF v, w

-----------------------------------------------------------------------------
(* Between two steps of the reader                                          *)

Part(r, S) == [q \in S |-> r[q]]

\* Does the parser take the object at q?
Takes(r, q) == /\ r[q].type \in Reader!Types
               /\ r[q].type = ":" => r[q].val \in LongLong
               /\ r[q].type = "*" => Len(q) + 1 < Depth

\* The reader is at the object at p of r, whose type it has not read ...
Untyped(r, p, g) == /\ rstack = StackAt(r, p, None)
                    /\ Left = Reader!Tokens(r[p]) \o (Ahead(r, p) \o g)

\* ... or has.
Typed(r, p, g) == /\ rstack = StackAt(r, p, r[p].type) /\ r[p].type \in Reader!Types
                  /\ Left = Tail(Reader!Tokens(r[p])) \o (Ahead(r, p) \o g)

\* It has all the objects of r that are sent before, and g comes after r.
Reached(r, p, g) == /\ reply = Part(r, Before(r, p)) /\ \A q \in Before(r, p) : Takes(r, q)
                    /\ Len(p) + 1 <= Depth
                    /\ Untyped(r, p, g) \/ Typed(r, p, g)

\* It has all of r.
Whole(r, g) == rstack = <<>> /\ reply = r /\ Reader!Legal(r) /\ Left = g

LEMMA RepliesAreTrees == \A r \in Replies : Tree(r)
  BY RepliesAssumption

LEMMA DepthIs == Depth \in Nat /\ Depth >= 1
  BY RepliesAssumption

LEMMA StoredIs ==
  ASSUME NEW r, NEW p, NEW S, reply = Part(r, S), Reader!Path = p
  PROVE  Reader!Stored(r[p]) = Part(r, S \cup {p})
  <1>1. DOMAIN reply = S /\ \A q \in S : reply[q] = r[q]
    BY DEF Part
  <1>2. Reader!Stored(r[p]) = [q \in S \cup {p} |-> IF q = p THEN r[p] ELSE reply[q]]
    BY <1>1 DEF Reader!Stored
  <1>3. \A q \in S \cup {p} : (IF q = p THEN r[p] ELSE reply[q]) = r[q]
    BY <1>1
  <1> QED
    BY <1>2, <1>3 DEF Part

LEMMA PartAll ==
  ASSUME NEW r, Tree(r)
  PROVE  Part(r, DOMAIN r) = r
  BY DEF Part, Tree

LEMMA PartNone == \A r : Part(r, {}) = <<>>
  <1> SUFFICES ASSUME NEW r PROVE Part(r, {}) = <<>>
    OBVIOUS
  <1>1. Part(r, {}) \in [1 .. 0 -> {0}]
    BY DEF Part
  <1>2. Part(r, {}) \in Seq({0}) /\ Len(Part(r, {})) = 0
    BY <1>1
  <1> QED
    BY <1>2

LEMMA TakenIsLegal ==
  ASSUME NEW r, Tree(r), \A p \in DOMAIN r : Takes(r, p)
  PROVE  Reader!Legal(r)
  BY DEF Reader!Legal, Reader!Levels, Takes

\* An object without elements is read: the reader moves to the one that follows.
LEMMA LeafTaken ==
  ASSUME NEW r, Tree(r), NEW p \in DOMAIN r, NEW g, ~Branches(r[p]),
         reply = Part(r, Before(r, p)), \A q \in Before(r, p) \cup {p} : Takes(r, q),
         Len(p) + 1 <= Depth, g \in Streams,
         rstack = StackAt(r, p, r[p].type),
         rstack' = Reader!Moved(rstack), reply' = Reader!Stored(r[p]),
         Left' = Ahead(r, p) \o g
  PROVE  Whole(r, g)' \/ \E n \in DOMAIN r : Reached(r, n, g)'
  <1>1. p \in Paths /\ Len(p) \in Nat
    BY TreePaths
  <1>2. Reader!Path = p
    BY <1>1, TopOf
  <1>3. reply' = Part(r, Before(r, p) \cup {p})
    BY <1>2, StoredIs
  <1>4. CASE Open(r, p) = {} /\ rstack' = <<>>
    <2>1. Coming(r, p) = 0 /\ DOMAIN r = Before(r, p) \cup {p}
      BY <1>4, LastObject, NoneFollows
    <2>2. reply' = r
      BY <1>3, <2>1, PartAll
    <2>3. Reader!Legal(r)
      BY <2>1, TakenIsLegal
    <2>4. Ahead(r, p) = <<>>
      BY <2>1, AheadIs
    <2>5. Left' = g
      BY <2>4 DEF Streams
    <2> QED
      BY <1>4, <2>2, <2>3, <2>5 DEF Whole
  <1>5. CASE \E n \in DOMAIN r : /\ Follows(r, p, n) /\ Len(n) <= Len(p)
                                 /\ rstack' = StackAt(r, n, None)
    <2>1. PICK n \in DOMAIN r : Follows(r, p, n) /\ Len(n) <= Len(p) /\ rstack' = StackAt(r, n, None)
      BY <1>5
    <2>2. Before(r, n) = Before(r, p) \cup {p}
      BY <2>1, Followed
    <2>3. reply' = Part(r, Before(r, n)) /\ \A q \in Before(r, n) : Takes(r, q)
      BY <1>3, <2>2
    <2>4. Left' = Reader!Tokens(r[n]) \o (Ahead(r, n) \o g)
      <3>1. Ahead(r, p) = Reader!Tokens(r[n]) \o Ahead(r, n)
        BY <2>1, AheadFollowed
      <3>2. Reader!Tokens(r[n]) \in Streams /\ Ahead(r, n) \in Streams
        BY TokensAre, TreePaths, AheadTyped
      <3> QED
        BY <3>1, <3>2, ConcatAssociative, SMTT(30) DEF Streams
    <2>5. Len(n) \in Nat /\ Len(n) + 1 <= Depth
      BY <1>1, <2>1, TreePaths, DepthIs
    <2> QED
      BY <2>1, <2>3, <2>4, <2>5 DEF Reached, Untyped
  <1> QED
    BY <1>4, <1>5, MovedOn

\* An array with elements is read: the reader goes down to the first.
LEMMA ArrayTaken ==
  ASSUME NEW r, Tree(r), NEW p \in DOMAIN r, NEW g, Branches(r[p]),
         reply = Part(r, Before(r, p)), \A q \in Before(r, p) \cup {p} : Takes(r, q),
         g \in Streams,
         rstack = StackAt(r, p, r[p].type),
         rstack' = Pushed(rstack, r[p].val), reply' = Reader!Stored(r[p]),
         Left' = Ahead(r, p) \o g
  PROVE  \E n \in DOMAIN r : Reached(r, n, g)'
  <1> DEFINE n == Append(p, 0)
  <1>1. p \in Paths /\ Len(p) \in Nat /\ r[p].type = "*"
    BY TreePaths DEF Branches
  <1>2. Reader!Path = p
    BY <1>1, TopOf
  <1>3. reply' = Part(r, Before(r, p) \cup {p})
    BY <1>2, StoredIs
  <1>4. Follows(r, p, n) /\ n \in DOMAIN r
    BY FirstElement DEF Follows
  <1>5. rstack' = StackAt(r, n, None)
    BY <1>1, PushedIs
  <1>6. Len(n) = Len(p) + 1
    BY <1>1 DEF Paths
  <1> HIDE DEF n
  <1>7. Before(r, n) = Before(r, p) \cup {p}
    BY <1>4, Followed
  <1>8. reply' = Part(r, Before(r, n)) /\ \A q \in Before(r, n) : Takes(r, q)
    BY <1>3, <1>7
  <1>9. Left' = Reader!Tokens(r[n]) \o (Ahead(r, n) \o g)
    <2>1. Ahead(r, p) = Reader!Tokens(r[n]) \o Ahead(r, n)
      BY <1>4, AheadFollowed
    <2>2. Reader!Tokens(r[n]) \in Streams /\ Ahead(r, n) \in Streams
      BY <1>4, TokensAre, TreePaths, AheadTyped
    <2> QED
      BY <2>1, <2>2, ConcatAssociative DEF Streams
  <1>10. Len(n) + 1 <= Depth
    <2>1. Len(p) + 1 < Depth
      BY <1>1 DEF Takes
    <2> QED
      BY <1>1, <1>6, <2>1, DepthIs
  <1> QED
    BY <1>4, <1>5, <1>8, <1>9, <1>10 DEF Reached, Untyped

LEMMA OneTaken ==
  ASSUME Buffered, pos + 1 <= Len(buf), NEW x \in TokenSet, NEW g \in Streams, Left = <<x>> \o g
  PROVE  Reader!Here = x /\ pos + 1 \in 0 .. Len(buf) /\ LeftFrom(pos + 1) = g
  <1>1. <<x>> \in Streams /\ Len(<<x>>) = 1 /\ <<x>>[1] = x /\ Tail(<<x>>) = <<>>
    BY DEF Streams
  <1>2. <<>> \o g = g
    BY DEF Streams
  <1> DEFINE t == <<x>>
  <1>3. t \in Streams /\ Len(t) > 0 /\ LeftFrom(pos) = t \o g
    BY <1>1 DEF Left
  <1>4. buf \in Streams /\ stream \in Streams /\ pos \in 0 .. Len(buf)
    BY DEF Buffered
  <1>5. buf[pos + 1] = t[1] /\ pos + 1 \in 0 .. Len(buf) /\ LeftFrom(pos + 1) = Tail(t) \o g
    <2> HIDE DEF t
    <2> QED
      BY <1>3, <1>4, TakeOne
  <1> QED
    BY <1>1, <1>2, <1>5 DEF Reader!Here

LEMMA TwoTaken ==
  ASSUME Buffered, pos + 2 <= Len(buf), NEW x \in TokenSet, NEW y \in TokenSet, NEW g \in Streams,
         Left = <<x, y>> \o g
  PROVE  /\ Reader!Here = x /\ buf[pos + 2] = y /\ pos + 2 \in 0 .. Len(buf)
         /\ LeftFrom(pos + 2) = g
  <1> DEFINE t == <<x, y>>
             u == <<y>>
  <1>1. t \in Streams /\ Len(t) > 0 /\ t[1] = x /\ Tail(t) = u
        /\ u \in Streams /\ Len(u) > 0 /\ u[1] = y /\ Tail(u) = <<>>
    BY DEF Streams
  <1>2. <<>> \o g = g
    BY DEF Streams
  <1>3. LeftFrom(pos) = t \o g
    BY DEF Left
  <1>4. buf \in Streams /\ stream \in Streams /\ pos \in 0 .. Len(buf) /\ Len(buf) \in Nat
    BY DEF Buffered, Streams
  <1> HIDE DEF t, u
  <1>5. pos + 1 <= Len(buf) /\ pos + 2 = (pos + 1) + 1
    BY <1>4
  <1>6. buf[pos + 1] = t[1] /\ pos + 1 \in 0 .. Len(buf) /\ LeftFrom(pos + 1) = Tail(t) \o g
    BY <1>1, <1>3, <1>4, <1>5, TakeOne
  <1>7. PICK k : k = pos + 1
    OBVIOUS
  <1>8. k \in 0 .. Len(buf) /\ k + 1 <= Len(buf) /\ LeftFrom(k) = u \o g
    BY <1>1, <1>5, <1>6, <1>7
  <1>9. buf[k + 1] = u[1] /\ k + 1 \in 0 .. Len(buf) /\ LeftFrom(k + 1) = Tail(u) \o g
    BY <1>1, <1>4, <1>8, TakeOne
  <1>10. k + 1 = pos + 2
    BY <1>4, <1>7
  <1> QED
    BY <1>1, <1>2, <1>6, <1>9, <1>10 DEF Reader!Here

\* What a step over an object leads to.
Spoiled == /\ rerr' = TRUE /\ buf' = <<>> /\ pos' = 0 /\ rstack' = <<>>
           /\ UNCHANGED <<rpc, stream, sentReplies, delivered, lastOK>>

ItemDone(r, g) ==
  \/ Spoiled
  \/ /\ Buffered' /\ (Whole(r, g)' \/ \E n \in DOMAIN r : Reached(r, n, g)')
     /\ UNCHANGED <<rerr, rpc, sentReplies, delivered, lastOK>>

LEMMA Refused == Reader!Refuse => Spoiled
  BY DEF Reader!Refuse, Reader!SetError, Spoiled

LEMMA Consumed ==
  ASSUME NEW n, NEW o, NEW s, Reader!Consume(n, o, s), ~Spoiled
  PROVE  /\ pos' = pos + n /\ reply' = Reader!Stored(o) /\ rstack' = s
         /\ UNCHANGED <<buf, rerr, rpc, stream, sentReplies, delivered, lastOK>>
  BY DEF Reader!Consume, Reader!SetError, Spoiled

LEMMA LeftKept ==
  ASSUME NEW k, pos' = k, UNCHANGED <<buf, stream>>
  PROVE  Left' = LeftFrom(k)
  BY DEF Left, LeftFrom, LeftOf

LEMMA TypeRead ==
  ASSUME NEW r, Tree(r), NEW p \in DOMAIN r, NEW g \in Streams, Buffered, Reached(r, p, g),
         Reader!ReadType
  PROVE  ItemDone(r, g)
  <1>1. p \in Paths /\ Len(p) \in Nat /\ r[p] \in Objects
    BY TreePaths
  <1>2. Reader!Cur.type = None /\ pos + 1 <= Len(buf)
    BY DEF Reader!ReadType, Reader!Available, None
  <1>3. Untyped(r, p, g)
    <2>1. ASSUME Typed(r, p, g) PROVE FALSE
      <3>1. Reader!Cur.type = r[p].type /\ r[p].type \in Reader!Types
        BY <1>1, <2>1, TopOf DEF Typed
      <3> QED
        BY <1>2, <3>1 DEF None, Reader!None, Reader!Types
    <2> QED
      BY <2>1 DEF Reached
  <1> DEFINE t == Reader!Tokens(r[p])
             h == Ahead(r, p) \o g
  <1>4. t \in Streams /\ Len(t) > 0 /\ t[1] = Reader!Token("type", r[p].type)
    BY <1>1, TokensAre
  <1>5. h \in Streams
    BY AheadTyped, JoinedIs
  <1>6. Left = t \o h
    BY <1>3 DEF Untyped
  <1> HIDE DEF t, h
  <1>7. Reader!Here = Reader!Token("type", r[p].type) /\ pos + 1 \in 0 .. Len(buf)
        /\ LeftFrom(pos + 1) = Tail(t) \o h
    BY <1>2, <1>4, <1>5, <1>6, TakeOne DEF Buffered, Left, Reader!Here
  <1>8. Reader!Here.v = r[p].type
    BY <1>7 DEF Reader!Token
  <1>9. CASE r[p].type \in Reader!Types
    <2>1. /\ pos' = pos + 1 /\ rstack' = [rstack EXCEPT ![Len(rstack)].type = r[p].type]
          /\ UNCHANGED <<buf, reply, rerr, rpc, stream, sentReplies, delivered, lastOK>>
      BY <1>8, <1>9 DEF Reader!ReadType
    <2>2. rstack' = StackAt(r, p, r[p].type)
      <3>1. rstack' = TypedTop(StackAt(r, p, None), r[p].type)
        BY <1>3, <2>1 DEF TypedTop, Untyped
      <3> QED
        BY <1>1, <3>1, TypedIs
    <2>3. Left' = Tail(t) \o h
      <3>1. Left' = LeftFrom(pos + 1)
        BY <2>1, LeftKept
      <3> QED
        BY <1>7, <3>1
    <2>4. Typed(r, p, g)'
      BY <1>9, <2>2, <2>3 DEF Typed, t, h
    <2>5. Reached(r, p, g)'
      BY <2>1, <2>4 DEF Reached
    <2>6. Buffered'
      BY <1>7, <2>1 DEF Buffered
    <2> QED
      BY <2>1, <2>5, <2>6 DEF ItemDone
  <1>10. CASE r[p].type \notin Reader!Types
    BY <1>8, <1>10, Refused DEF Reader!ReadType, ItemDone
  <1> QED
    BY <1>9, <1>10

\* The reader has the type of the object at p.
LEMMA TypedNow ==
  ASSUME NEW r, Tree(r), NEW p \in DOMAIN r, NEW g, Reached(r, p, g), Reader!Cur.type # None
  PROVE  /\ Typed(r, p, g) /\ Reader!Cur.type = r[p].type /\ Reader!Path = p
         /\ Len(rstack) = Len(p) + 1
  <1>1. p \in Paths
    BY TreePaths
  <1>2. Typed(r, p, g)
    <2>1. ASSUME Untyped(r, p, g) PROVE FALSE
      <3>1. Reader!Cur.type = None
        BY <1>1, <2>1, TopOf DEF Untyped
      <3> QED
        BY <3>1
    <2> QED
      BY <2>1 DEF Reached
  <1> QED
    BY <1>1, <1>2, TopOf DEF Typed

LEMMA ObjectIs ==
  ASSUME NEW o \in Objects, Reader!Cur.type = o.type
  PROVE  Reader!Object(o.val, o.nil) = o
  BY DEF Reader!Object, Objects

\* An object without elements is consumed.
LEMMA LeafDone ==
  ASSUME NEW r, Tree(r), NEW p \in DOMAIN r, NEW g \in Streams, Reached(r, p, g),
         Reader!Cur.type # None, ~Branches(r[p]), Takes(r, p), Buffered, NEW k \in 0 .. Len(buf),
         Reader!Consume(k - pos, r[p], Reader!Moved(rstack)), pos + (k - pos) = k,
         LeftFrom(k) = Ahead(r, p) \o g
  PROVE  ItemDone(r, g)
  <1> SUFFICES ASSUME ~Spoiled PROVE ItemDone(r, g)
    BY DEF ItemDone
  <1>1. /\ pos' = k /\ reply' = Reader!Stored(r[p]) /\ rstack' = Reader!Moved(rstack)
        /\ UNCHANGED <<buf, rerr, rpc, stream, sentReplies, delivered, lastOK>>
    BY Consumed
  <1>2. Typed(r, p, g)
    BY TypedNow
  <1>3. Left' = Ahead(r, p) \o g
    BY <1>1, LeftKept
  <1>4. /\ reply = Part(r, Before(r, p)) /\ \A q \in Before(r, p) \cup {p} : Takes(r, q)
        /\ Len(p) + 1 <= Depth
    BY DEF Reached
  <1>5. rstack = StackAt(r, p, r[p].type)
    BY <1>2 DEF Typed
  <1>6. Whole(r, g)' \/ \E n \in DOMAIN r : Reached(r, n, g)'
    BY <1>1, <1>3, <1>4, <1>5, LeafTaken
  <1>7. Buffered'
    BY <1>1 DEF Buffered
  <1> QED
    BY <1>1, <1>6, <1>7 DEF ItemDone

LEMMA ArrayDone ==
  ASSUME NEW r, Tree(r), NEW p \in DOMAIN r, NEW g \in Streams, Reached(r, p, g),
         Reader!Cur.type # None, Branches(r[p]), Takes(r, p), Buffered, NEW k \in 0 .. Len(buf),
         Reader!Consume(k - pos, r[p], Pushed(rstack, r[p].val)), pos + (k - pos) = k,
         LeftFrom(k) = Ahead(r, p) \o g
  PROVE  ItemDone(r, g)
  <1> SUFFICES ASSUME ~Spoiled PROVE ItemDone(r, g)
    BY DEF ItemDone
  <1>1. /\ pos' = k /\ reply' = Reader!Stored(r[p]) /\ rstack' = Pushed(rstack, r[p].val)
        /\ UNCHANGED <<buf, rerr, rpc, stream, sentReplies, delivered, lastOK>>
    BY Consumed
  <1>2. Typed(r, p, g)
    BY TypedNow
  <1>3. Left' = Ahead(r, p) \o g
    BY <1>1, LeftKept
  <1>4. /\ reply = Part(r, Before(r, p)) /\ \A q \in Before(r, p) \cup {p} : Takes(r, q)
    BY DEF Reached
  <1>5. rstack = StackAt(r, p, r[p].type)
    BY <1>2 DEF Typed
  <1>6. \E n \in DOMAIN r : Reached(r, n, g)'
    BY <1>1, <1>3, <1>4, <1>5, ArrayTaken
  <1>7. Buffered'
    BY <1>1 DEF Buffered
  <1> QED
    BY <1>1, <1>6, <1>7 DEF ItemDone

\* The header of an object whose type has been read, and its body.
LEMMA HeaderIs ==
  ASSUME NEW r, Tree(r), NEW p \in DOMAIN r, NEW g \in Streams, Typed(r, p, g)
  PROVE  /\ Ahead(r, p) \o g \in Streams /\ r[p] \in Objects
         /\ r[p].nil => Left = <<Reader!Token("line", -1)>> \o (Ahead(r, p) \o g)
         /\ ~r[p].nil /\ r[p].type = "$"
              => Left = <<Reader!Token("line", 1), Reader!Token("body", r[p].val)>> \o (Ahead(r, p) \o g)
         /\ ~r[p].nil /\ r[p].type # "$"
              => Left = <<Reader!Token("line", r[p].val)>> \o (Ahead(r, p) \o g)
         /\ Reader!Token("line", -1) \in TokenSet /\ Reader!Token("line", 1) \in TokenSet
         /\ Reader!Token("line", r[p].val) \in TokenSet /\ Reader!Token("body", r[p].val) \in TokenSet
  <1>1. r[p] \in Objects /\ r[p].val \in Int
    BY TreePaths DEF Objects
  <1>2. Ahead(r, p) \o g \in Streams
    BY AheadTyped, JoinedIs
  <1>3. Reader!Token("line", -1) \in TokenSet /\ Reader!Token("line", 1) \in TokenSet
    BY TokenIn
  <1>4. Reader!Token("line", r[p].val) \in TokenSet /\ Reader!Token("body", r[p].val) \in TokenSet
    BY <1>1, TokenIn
  <1>5. Left = Tail(Reader!Tokens(r[p])) \o (Ahead(r, p) \o g)
    BY DEF Typed
  <1>6. Tail(Reader!Tokens(r[p])) =
              IF r[p].nil THEN <<Reader!Token("line", -1)>>
              ELSE IF r[p].type = "$"
              THEN <<Reader!Token("line", 1), Reader!Token("body", r[p].val)>>
              ELSE <<Reader!Token("line", r[p].val)>>
    BY <1>1, TokensAre
  <1> QED
    BY <1>1, <1>2, <1>3, <1>4, <1>5, <1>6

LEMMA LineRead ==
  ASSUME NEW r, Tree(r), NEW p \in DOMAIN r, NEW g \in Streams, Buffered, Reached(r, p, g),
         Reader!LineItem
  PROVE  ItemDone(r, g)
  <1> SUFFICES ASSUME ~Spoiled PROVE ItemDone(r, g)
    BY DEF ItemDone
  <1>1. Reader!Cur.type \in {"+", "-", ":"} /\ pos + 1 <= Len(buf)
        /\ (Reader!Cur.type = ":" => Reader!Here.v \in LongLong)
        /\ Reader!Consume(1, Reader!Object(Reader!Here.v, FALSE), Reader!Moved(rstack))
    BY Refused DEF Reader!LineItem, Reader!Available
  <1>2. Reader!Cur.type # None
    BY <1>1 DEF None, Reader!None
  <1>3. Typed(r, p, g) /\ Reader!Cur.type = r[p].type
    BY <1>2, TypedNow
  <1>4. r[p] \in Objects /\ ~r[p].nil /\ r[p].type # "$" /\ r[p].type # "*"
    <2>1. r[p] \in Objects /\ r[p].nil \in BOOLEAN
      BY TreePaths DEF Objects
    <2>2. r[p].type # "$" /\ r[p].type # "*"
      BY <1>1, <1>3
    <2>3. r[p].nil => r[p].type \in {"$", "*"}
      BY DEF Tree
    <2> QED
      BY <2>1, <2>2, <2>3
  <1>5. Left = <<Reader!Token("line", r[p].val)>> \o (Ahead(r, p) \o g)
        /\ Ahead(r, p) \o g \in Streams /\ Reader!Token("line", r[p].val) \in TokenSet
    BY <1>3, <1>4, HeaderIs
  <1>6. Reader!Here = Reader!Token("line", r[p].val) /\ pos + 1 \in 0 .. Len(buf)
        /\ LeftFrom(pos + 1) = Ahead(r, p) \o g
    BY <1>1, <1>5, OneTaken
  <1>7. Reader!Object(Reader!Here.v, FALSE) = r[p]
    <2>1. Reader!Here.v = r[p].val
      BY <1>6 DEF Reader!Token
    <2>2. r[p].nil = FALSE
      BY <1>4 DEF Objects
    <2>3. Reader!Object(r[p].val, r[p].nil) = r[p]
      BY <1>3, <1>4, ObjectIs
    <2> QED
      BY <2>1, <2>2, <2>3
  <1>8. ~Branches(r[p]) /\ Takes(r, p)
    <2>1. Reader!Here.v = r[p].val
      BY <1>6 DEF Reader!Token
    <2> QED
      BY <1>1, <1>3, <1>4, <2>1 DEF Branches, Takes, Reader!Types
  <1>9. PICK k : k = pos + 1
    OBVIOUS
  <1>10. k - pos = 1 /\ pos + (k - pos) = k /\ k \in 0 .. Len(buf)
    BY <1>6, <1>9 DEF Buffered
  <1>11. Reader!Consume(k - pos, r[p], Reader!Moved(rstack)) /\ LeftFrom(k) = Ahead(r, p) \o g
    BY <1>1, <1>6, <1>7, <1>9, <1>10
  <1> QED
    BY <1>2, <1>8, <1>10, <1>11, LeafDone

LEMMA BulkRead ==
  ASSUME NEW r, Tree(r), NEW p \in DOMAIN r, NEW g \in Streams, Buffered, Reached(r, p, g),
         Reader!BulkItem
  PROVE  ItemDone(r, g)
  <1> SUFFICES ASSUME ~Spoiled PROVE ItemDone(r, g)
    BY DEF ItemDone
  <1>0. ~Reader!BadLength(Reader!Here.v)
    BY Refused DEF Reader!BulkItem
  <1>1. Reader!Cur.type = "$" /\ pos + 1 <= Len(buf)
    BY DEF Reader!BulkItem, Reader!Available
  <1>2. Reader!Cur.type # None
    BY <1>1 DEF None, Reader!None
  <1>3. Typed(r, p, g) /\ Reader!Cur.type = r[p].type
    BY <1>2, TypedNow
  <1>4. r[p] \in Objects /\ r[p].nil \in BOOLEAN /\ r[p].type = "$" /\ (r[p].nil => r[p].val = 0)
    <2>1. r[p] \in Objects /\ r[p].nil \in BOOLEAN
      BY TreePaths DEF Objects
    <2>2. r[p].nil => r[p].val = 0
      BY DEF Tree
    <2> QED
      BY <1>1, <1>3, <2>1, <2>2
  <1>5. ~Branches(r[p]) /\ Takes(r, p)
    BY <1>4 DEF Branches, Takes, Reader!Types
  <1>6. pos \in Nat
    BY DEF Buffered
  <1>7. CASE r[p].nil
    <2>1. Left = <<Reader!Token("line", -1)>> \o (Ahead(r, p) \o g)
          /\ Ahead(r, p) \o g \in Streams /\ Reader!Token("line", -1) \in TokenSet
      BY <1>3, <1>7, HeaderIs
    <2>2. Reader!Here = Reader!Token("line", -1) /\ pos + 1 \in 0 .. Len(buf)
          /\ LeftFrom(pos + 1) = Ahead(r, p) \o g
      BY <1>1, <2>1, OneTaken
    <2>3. Reader!Here.v = -1
      BY <2>2 DEF Reader!Token
    <2>4. Reader!Object(0, TRUE) = r[p]
      <3>1. Reader!Object(r[p].val, r[p].nil) = r[p]
        BY <1>3, <1>4, ObjectIs
      <3> QED
        BY <1>4, <1>7, <3>1
    <2>5. Reader!Consume(1, r[p], Reader!Moved(rstack))
      <3>1. ~Reader!BadLength(Reader!Here.v) /\ Reader!Here.v = -1
        BY <1>0, <2>3
      <3>2. Reader!Consume(1, Reader!Object(0, TRUE), Reader!Moved(rstack))
        BY <3>1, Zenon DEF Reader!BulkItem
      <3> QED
        BY <2>4, <3>2
    <2>6. PICK k : k = pos + 1
      OBVIOUS
    <2>7. k - pos = 1 /\ pos + (k - pos) = k /\ k \in 0 .. Len(buf)
      BY <1>6, <2>2, <2>6
    <2>8. Reader!Consume(k - pos, r[p], Reader!Moved(rstack)) /\ LeftFrom(k) = Ahead(r, p) \o g
      BY <2>2, <2>5, <2>6, <2>7
    <2> QED
      BY <1>2, <1>5, <2>7, <2>8, LeafDone
  <1>8. CASE ~r[p].nil
    <2>1. Left = <<Reader!Token("line", 1), Reader!Token("body", r[p].val)>> \o (Ahead(r, p) \o g)
          /\ Ahead(r, p) \o g \in Streams /\ Reader!Token("line", 1) \in TokenSet
          /\ Reader!Token("body", r[p].val) \in TokenSet
      BY <1>3, <1>4, <1>8, HeaderIs
    <2>2. Reader!Here = Reader!Token("line", 1)
      <3> DEFINE t == <<Reader!Token("line", 1), Reader!Token("body", r[p].val)>>
      <3>1. t \in Streams /\ Len(t) > 0 /\ t[1] = Reader!Token("line", 1)
        BY <2>1 DEF Streams
      <3>2. Left = t \o (Ahead(r, p) \o g)
        BY <2>1
      <3> HIDE DEF t
      <3>3. buf[pos + 1] = t[1]
        BY <1>1, <2>1, <3>1, <3>2, TakeOne DEF Buffered, Left
      <3> QED
        BY <3>1, <3>3 DEF Reader!Here
    <2>3. Reader!Here.v = 1
      BY <2>2 DEF Reader!Token
    <2>4. Reader!Needed(Reader!Here.v) = 2
      BY <1>0, <2>3 DEF Reader!Needed
    <2>5. pos + 2 <= Len(buf)
      BY <2>4 DEF Reader!BulkItem, Reader!Available
    <2>6. buf[pos + 2] = Reader!Token("body", r[p].val) /\ pos + 2 \in 0 .. Len(buf)
          /\ LeftFrom(pos + 2) = Ahead(r, p) \o g
      BY <2>1, <2>5, TwoTaken
    <2>7. buf[pos + 2].v = r[p].val
      BY <2>6 DEF Reader!Token
    <2>8. Reader!Object(buf[pos + 2].v, FALSE) = r[p]
      <3>1. Reader!Object(r[p].val, r[p].nil) = r[p]
        BY <1>3, <1>4, ObjectIs
      <3>2. r[p].nil = FALSE
        BY <1>4, <1>8
      <3> QED
        BY <2>7, <3>1, <3>2
    <2>9. Reader!Consume(2, r[p], Reader!Moved(rstack))
      <3>1. ~Reader!BadLength(Reader!Here.v) /\ Reader!Here.v # -1
        BY <1>0, <2>3
      <3>2. Reader!Consume(Reader!Needed(Reader!Here.v),
                           Reader!Object(buf[pos + Reader!Needed(Reader!Here.v)].v, FALSE),
                           Reader!Moved(rstack))
        BY <3>1, Zenon DEF Reader!BulkItem
      <3> QED
        BY <2>4, <2>8, <3>2
    <2>10. PICK k : k = pos + 2
      OBVIOUS
    <2>11. k - pos = 2 /\ pos + (k - pos) = k /\ k \in 0 .. Len(buf)
      BY <1>6, <2>6, <2>10
    <2>12. Reader!Consume(k - pos, r[p], Reader!Moved(rstack)) /\ LeftFrom(k) = Ahead(r, p) \o g
      BY <2>6, <2>9, <2>10, <2>11
    <2> QED
      BY <1>2, <1>5, <2>11, <2>12, LeafDone
  <1> QED
    BY <1>7, <1>8

LEMMA MultiBulkRead ==
  ASSUME NEW r, Tree(r), NEW p \in DOMAIN r, NEW g \in Streams, Buffered, Reached(r, p, g),
         Reader!MultiBulkItem
  PROVE  ItemDone(r, g)
  <1>1. Reader!Cur.type = "*"
    BY DEF Reader!MultiBulkItem
  <1>2. Reader!Cur.type # None
    BY <1>1 DEF None, Reader!None
  <1>3. Typed(r, p, g) /\ Reader!Cur.type = r[p].type /\ Len(rstack) = Len(p) + 1
    BY <1>2, TypedNow
  <1>4. CASE Reader!TooDeep \/ Reader!BadLength(Reader!Here.v)
    BY <1>4, Refused DEF Reader!MultiBulkItem, ItemDone
  <1>5. CASE ~Reader!TooDeep /\ ~Reader!BadLength(Reader!Here.v)
    <2>1. pos + 1 <= Len(buf) /\ pos \in Nat
      BY <1>5 DEF Reader!MultiBulkItem, Reader!Available, Buffered
    <2>2. r[p] \in Objects /\ r[p].nil \in BOOLEAN /\ r[p].type = "*"
          /\ (r[p].nil => r[p].val = 0) /\ r[p].val \in Nat
      <3>1. r[p] \in Objects /\ r[p].nil \in BOOLEAN /\ r[p].val \in Int
        BY TreePaths DEF Objects
      <3>2. (r[p].nil => r[p].val = 0) /\ (r[p].type = "*" => r[p].val >= 0)
        BY DEF Tree
      <3> QED
        BY <1>1, <1>3, <3>1, <3>2
    <2>3. Takes(r, p)
      <3>1. Len(p) \in Nat /\ Len(p) + 1 <= Depth
        BY TreePaths DEF Reached
      <3>2. Len(p) + 1 # Depth
        BY <1>3, <1>5 DEF Reader!TooDeep
      <3>3. Len(p) + 1 < Depth
        BY <3>1, <3>2, DepthIs
      <3> QED
        BY <2>2, <3>3 DEF Takes, Reader!Types
    <2>4. Reader!Object(r[p].val, r[p].nil) = r[p]
      BY <1>3, <2>2, ObjectIs
    <2>5. PICK k : k = pos + 1
      OBVIOUS
    <2>6. CASE r[p].nil
      <3>1. Left = <<Reader!Token("line", -1)>> \o (Ahead(r, p) \o g)
            /\ Ahead(r, p) \o g \in Streams /\ Reader!Token("line", -1) \in TokenSet
        BY <1>3, <2>6, HeaderIs
      <3>2. Reader!Here = Reader!Token("line", -1) /\ pos + 1 \in 0 .. Len(buf)
            /\ LeftFrom(pos + 1) = Ahead(r, p) \o g
        BY <2>1, <3>1, OneTaken
      <3>3. Reader!Here.v = -1
        BY <3>2 DEF Reader!Token
      <3>4. Reader!Object(0, TRUE) = r[p]
        BY <2>2, <2>4, <2>6
      <3>5. Reader!Consume(1, r[p], Reader!Moved(rstack))
        <4>1. Reader!Here.v = -1
          BY <3>3
        <4>2. Reader!Consume(1, Reader!Object(0, TRUE), Reader!Moved(rstack))
          BY <1>5, <4>1, Zenon DEF Reader!MultiBulkItem
        <4> QED
          BY <3>4, <4>2
      <3>6. k - pos = 1 /\ pos + (k - pos) = k /\ k \in 0 .. Len(buf)
        BY <2>1, <2>5, <3>2
      <3>7. Reader!Consume(k - pos, r[p], Reader!Moved(rstack)) /\ LeftFrom(k) = Ahead(r, p) \o g
        BY <2>5, <3>2, <3>5, <3>6
      <3>8. ~Branches(r[p])
        BY <2>6 DEF Branches
      <3> QED
        BY <1>2, <2>3, <3>6, <3>7, <3>8, LeafDone
    <2>7. CASE ~r[p].nil
      <3>1. Left = <<Reader!Token("line", r[p].val)>> \o (Ahead(r, p) \o g)
            /\ Ahead(r, p) \o g \in Streams /\ Reader!Token("line", r[p].val) \in TokenSet
        BY <1>3, <2>2, <2>7, HeaderIs
      <3>2. Reader!Here = Reader!Token("line", r[p].val) /\ pos + 1 \in 0 .. Len(buf)
            /\ LeftFrom(pos + 1) = Ahead(r, p) \o g
        BY <2>1, <3>1, OneTaken
      <3>3. Reader!Here.v = r[p].val
        BY <3>2 DEF Reader!Token
      <3>4. Reader!Object(r[p].val, FALSE) = r[p]
        <4>1. r[p].nil = FALSE
          BY <2>2, <2>7
        <4> QED
          BY <2>4, <4>1
      <3>5. k - pos = 1 /\ pos + (k - pos) = k /\ k \in 0 .. Len(buf) /\ LeftFrom(k) = Ahead(r, p) \o g
        BY <2>1, <2>5, <3>2
      <3>6. ~Reader!BadLength(r[p].val) /\ r[p].val # -1
        BY <1>5, <2>2, <3>3
      <3>7. CASE r[p].val = 0
        <4>1. Reader!Consume(1, r[p], Reader!Moved(rstack))
          BY <1>5, <3>3, <3>4, <3>6, <3>7 DEF Reader!MultiBulkItem
        <4>2. Reader!Consume(k - pos, r[p], Reader!Moved(rstack))
          BY <3>5, <4>1
        <4>3. ~Branches(r[p])
          BY <3>7 DEF Branches
        <4> QED
          BY <1>2, <2>3, <3>5, <4>2, <4>3, LeafDone
      <3>8. CASE r[p].val # 0
        <4>1. Reader!Consume(1, r[p], Pushed(rstack, r[p].val))
          BY <1>5, <3>3, <3>4, <3>6, <3>8 DEF Reader!MultiBulkItem, Pushed
        <4>2. Reader!Consume(k - pos, r[p], Pushed(rstack, r[p].val))
          BY <3>5, <4>1
        <4>3. Branches(r[p])
          BY <2>2, <2>7, <3>8 DEF Branches
        <4> QED
          BY <1>2, <2>3, <3>5, <4>2, <4>3, ArrayDone
      <3> QED
        BY <3>7, <3>8
    <2> QED
      BY <2>6, <2>7
  <1> QED
    BY <1>4, <1>5

-----------------------------------------------------------------------------
(* The invariant of the reader                                              *)

Given == Len(delivered)

\* F[i] is what is sent from the i-th reply on.
Coded(F) == /\ F \in [1 .. Len(sentReplies) + 1 -> Streams]
            /\ F[Len(sentReplies) + 1] = <<>>
            /\ \A i \in 1 .. Len(sentReplies) : F[i] = Reader!Encoding(sentReplies[i]) \o F[i + 1]

\* Between two replies,
Fresh(F) == /\ rstack \in {<<>>, <<Reader!Task(-1)>>} /\ reply = <<>> /\ Left = F[Given + 1]
            /\ rpc = "items" => rstack # <<>>

\* within one,
Within(F) == /\ Given < Len(sentReplies)
             /\ \E p \in DOMAIN sentReplies[Given + 1] :
                  Reached(sentReplies[Given + 1], p, F[Given + 2])

\* at the end of one.
Done(F) == Given < Len(sentReplies) /\ rpc = "items" /\ Whole(sentReplies[Given + 1], F[Given + 2])

InOrder == /\ sentReplies \in Seq(Replies) /\ delivered \in Seq(Replies)
           /\ Len(delivered) <= Len(sentReplies)
           /\ \A i \in 1 .. Len(delivered) : /\ delivered[i] = sentReplies[i]
                                             /\ Reader!Legal(delivered[i])

ReaderInv ==
  /\ Buffered /\ InOrder
  /\ rpc = "items" => ~lastOK
  /\ lastOK /\ stream = <<>> => delivered = sentReplies
  /\ IF rerr THEN buf = <<>> /\ rstack = <<>> /\ ~lastOK
     ELSE \E F : Coded(F) /\ (Fresh(F) \/ Within(F) \/ Done(F))

LEMMA JoinedThree ==
  ASSUME NEW s \in Streams, NEW t \in Streams, NEW u \in Streams
  PROVE  (s \o t) \o u = s \o (t \o u)
  BY ConcatAssociative DEF Streams

LEMMA ReaderStart == Reader!Init => ReaderInv
  <1> SUFFICES ASSUME Reader!Init PROVE ReaderInv
    OBVIOUS
  <1>1. /\ buf = <<>> /\ pos = 0 /\ rstack = <<>> /\ reply = <<>> /\ rerr = FALSE /\ rpc = "idle"
        /\ stream = <<>> /\ sentReplies = <<>> /\ delivered = <<>>
    BY DEF Reader!Init
  <1>2. Buffered /\ InOrder
    BY <1>1 DEF Buffered, InOrder, Streams
  <1> DEFINE F == [i \in 1 .. 1 |-> <<>>]
  <1>3. Coded(F)
    BY <1>1 DEF Coded, Streams
  <1>4. Left = <<>>
    <2>1. <<>> \in Streams /\ Len(<<>>) = 0
      BY DEF Streams
    <2>2. Left \in Streams /\ Len(Left) = 0 - 0 + 0
      BY <1>1, <2>1, LeftTyped DEF Left
    <2> QED
      BY <2>2 DEF Streams
  <1>5. Fresh(F)
    BY <1>1, <1>4 DEF Fresh, Given
  <1> HIDE DEF F
  <1> QED
    BY <1>1, <1>2, <1>3, <1>5 DEF ReaderInv

\* The reply that is being read.
LEMMA NowRead ==
  ASSUME InOrder, Given < Len(sentReplies), NEW F, Coded(F)
  PROVE  /\ sentReplies[Given + 1] \in Replies /\ Tree(sentReplies[Given + 1])
         /\ F[Given + 1] = Reader!Encoding(sentReplies[Given + 1]) \o F[Given + 2]
         /\ F[Given + 2] \in Streams
         /\ F[Given + 1] # <<>>
  <1> DEFINE r == sentReplies[Given + 1]
  <1>1. Given \in Nat /\ Len(sentReplies) \in Nat /\ Given + 1 \in 1 .. Len(sentReplies)
        /\ Given + 2 \in 1 .. Len(sentReplies) + 1 /\ (Given + 1) + 1 = Given + 2
    BY DEF InOrder, Given
  <1>2. r \in Replies
    BY <1>1 DEF InOrder
  <1>3. Tree(r)
    BY <1>2, RepliesAreTrees
  <1>4. F[Given + 1] = Reader!Encoding(r) \o F[(Given + 1) + 1]
    BY <1>1 DEF Coded
  <1>5. F[Given + 2] \in Streams
    BY <1>1 DEF Coded
  <1>6. Reader!Encoding(r) \in Streams /\ Reader!Encoding(r) # <<>>
    BY <1>3, EncodingIs
  <1>7. Reader!Encoding(r) \o F[Given + 2] # <<>>
    <2> DEFINE e == Reader!Encoding(r)
               g == F[Given + 2]
    <2>1. e \in Streams /\ e # <<>> /\ g \in Streams
      BY <1>5, <1>6
    <2> HIDE DEF e, g
    <2>2. Len(e) > 0 /\ Len(e) \in Nat /\ Len(g) \in Nat /\ Len(e \o g) = Len(e) + Len(g)
      BY <2>1 DEF Streams
    <2>3. e \o g # <<>>
      BY <2>2
    <2> QED
      BY <2>3 DEF e, g
  <1> QED
    BY <1>1, <1>2, <1>3, <1>4, <1>5, <1>7

\* The reader comes to a reply that has begun to arrive.
LEMMA RootReached ==
  ASSUME InOrder, NEW F, Coded(F), Fresh(F), rstack # <<>>, Left # <<>>
  PROVE  Within(F)
  <1>1. Given \in Nat /\ Len(sentReplies) \in Nat /\ Given <= Len(sentReplies)
    BY DEF InOrder, Given
  <1>2. Given < Len(sentReplies)
    <2>1. Given = Len(sentReplies) => F[Given + 1] = <<>>
      BY DEF Coded
    <2>2. Given # Len(sentReplies)
      BY <2>1 DEF Fresh
    <2> QED
      BY <1>1, <2>2
  <1> DEFINE r == sentReplies[Given + 1]
             g == F[Given + 2]
  <1>3. Tree(r) /\ F[Given + 1] = Reader!Encoding(r) \o g /\ g \in Streams
    BY <1>2, NowRead
  <1>4. Left = F[Given + 1] /\ reply = <<>> /\ rstack = <<Reader!Task(-1)>>
    BY DEF Fresh
  <1> HIDE DEF r, g
  <1>5. <<>> \in DOMAIN r /\ Before(r, <<>>) = {}
    BY <1>3, RootFirst
  <1>6. reply = Part(r, Before(r, <<>>))
    BY <1>4, <1>5, PartNone
  <1>7. rstack = StackAt(r, <<>>, None)
    BY <1>4, RootStack
  <1>8. Left = Reader!Tokens(r[<<>>]) \o (Ahead(r, <<>>) \o g)
    <2>1. Reader!Encoding(r) = Reader!Tokens(r[<<>>]) \o Ahead(r, <<>>)
      BY <1>3, EncodingIs
    <2>2. Reader!Tokens(r[<<>>]) \in Streams /\ Ahead(r, <<>>) \in Streams
      BY <1>3, <1>5, TokensAre, TreePaths, AheadTyped
    <2>3. (Reader!Tokens(r[<<>>]) \o Ahead(r, <<>>)) \o g
            = Reader!Tokens(r[<<>>]) \o (Ahead(r, <<>>) \o g)
      BY <1>3, <2>2, JoinedThree
    <2> QED
      BY <1>3, <1>4, <2>1, <2>3
  <1>9. Len(<<>>) + 1 <= Depth
    BY DepthIs
  <1>10. Reached(r, <<>>, g)
    BY <1>5, <1>6, <1>7, <1>8, <1>9 DEF Reached, Untyped
  <1> QED
    BY <1>2, <1>5, <1>10 DEF Within, r, g

LEMMA SomethingLeft ==
  ASSUME Buffered, pos + 1 <= Len(buf)
  PROVE  Left # <<>>
  <1>1. buf \in Streams /\ stream \in Streams /\ pos \in 0 .. Len(buf)
    BY DEF Buffered
  <1>2. Len(LeftFrom(pos)) = Len(buf) - pos + Len(stream)
    BY <1>1, LeftTyped
  <1>3. Len(stream) \in Nat /\ Len(buf) \in Nat /\ pos \in Nat
    BY <1>1 DEF Streams
  <1>4. Len(Left) > 0
    BY <1>2, <1>3 DEF Left
  <1> QED
    BY <1>4

\* The reader works on an object.
LEMMA ItemsWithin ==
  ASSUME InOrder, Buffered, NEW F, Coded(F), Fresh(F) \/ Within(F) \/ Done(F), Reader!InItems,
         Reader!Cur.type # None \/ pos + 1 <= Len(buf)
  PROVE  Within(F)
  <1>1. rstack # <<>>
    BY DEF Reader!InItems
  <1>2. ~Done(F)
    BY <1>1 DEF Done, Whole
  <1>3. ASSUME Fresh(F) PROVE Within(F)
    <2>1. rstack = <<Reader!Task(-1)>>
      BY <1>1, <1>3 DEF Fresh
    <2>2. Reader!Cur.type = None
      <3>1. rstack[Len(rstack)] = Reader!Task(-1)
        BY <2>1
      <3> QED
        BY <3>1 DEF Reader!Cur, Reader!Last, Reader!Task, None
    <2>3. Left # <<>>
      BY <2>2, SomethingLeft
    <2> QED
      BY <1>1, <1>3, <2>3, RootReached
  <1> QED
    BY <1>2, <1>3

LEMMA SpoiledKeeps ==
  ASSUME Buffered, InOrder, rerr' = TRUE, buf' = <<>>, pos' = 0, rstack' = <<>>, ~lastOK',
         UNCHANGED <<stream, sentReplies, delivered>>
  PROVE  ReaderInv'
  <1>1. Buffered'
    BY DEF Buffered, Streams
  <1>2. InOrder'
    BY DEF InOrder
  <1> QED
    BY <1>1, <1>2 DEF ReaderInv

LEMMA ItemKeeps ==
  ASSUME ReaderInv,
         Reader!ReadType \/ Reader!LineItem \/ Reader!BulkItem \/ Reader!MultiBulkItem
  PROVE  ReaderInv'
  <1>1. Reader!InItems /\ rstack # <<>> /\ rpc = "items" /\ ~lastOK
    BY DEF Reader!ReadType, Reader!LineItem, Reader!BulkItem, Reader!MultiBulkItem, Reader!InItems,
           ReaderInv
  <1>2. Reader!Cur.type # None \/ pos + 1 <= Len(buf)
    BY DEF Reader!ReadType, Reader!LineItem, Reader!BulkItem, Reader!MultiBulkItem,
           Reader!Available, None, Reader!None
  <1>3. Buffered /\ InOrder /\ ~rerr
    BY <1>1 DEF ReaderInv
  <1>4. PICK F : Coded(F) /\ (Fresh(F) \/ Within(F) \/ Done(F))
    BY <1>3 DEF ReaderInv
  <1>5. Within(F)
    BY <1>1, <1>2, <1>3, <1>4, ItemsWithin
  <1>0. PICK r, g : r = sentReplies[Given + 1] /\ g = F[Given + 2]
    OBVIOUS
  <1>6. Given < Len(sentReplies) /\ Tree(r) /\ g \in Streams
    BY <1>0, <1>3, <1>4, <1>5, NowRead DEF Within
  <1>7. PICK p \in DOMAIN r : Reached(r, p, g)
    BY <1>0, <1>5 DEF Within
  <1>8. ItemDone(r, g)
    BY <1>3, <1>6, <1>7, TypeRead, LineRead, BulkRead, MultiBulkRead
  <1>9. CASE Spoiled
    BY <1>1, <1>3, <1>9, SpoiledKeeps DEF Spoiled
  <1>10. CASE /\ Buffered' /\ (Whole(r, g)' \/ \E n \in DOMAIN r : Reached(r, n, g)')
              /\ UNCHANGED <<rerr, rpc, sentReplies, delivered, lastOK>>
    <2>1. InOrder' /\ Coded(F)'
      BY <1>3, <1>4, <1>10 DEF InOrder, Coded
    <2>2. (Within(F) \/ Done(F))'
      <3>1. Given' = Given /\ rpc' = "items" /\ sentReplies' = sentReplies
        BY <1>1, <1>10 DEF Given
      <3> QED
        BY <1>0, <1>6, <1>10, <3>1 DEF Within, Done
    <2> QED
      BY <1>1, <1>3, <1>10, <2>1, <2>2 DEF ReaderInv
  <1> QED
    BY <1>8, <1>9, <1>10 DEF ItemDone

\* What the server sends next comes behind.
LEMMA SendKeeps ==
  ASSUME ReaderInv, NEW x \in Replies, Reader!Send(x)
  PROVE  ReaderInv'
  <1>1. /\ sentReplies' = Append(sentReplies, x) /\ stream' = stream \o Reader!Encoding(x)
        /\ UNCHANGED <<buf, pos, rstack, reply, rerr, rpc, delivered, lastOK>>
    BY DEF Reader!Send, Reader!reader
  <1>2. Buffered /\ InOrder
    BY DEF ReaderInv
  <1>0. PICK e : e = Reader!Encoding(x)
    OBVIOUS
  <1> DEFINE L == Len(sentReplies)
  <1>3. e \in Streams /\ e # <<>>
    BY <1>0, RepliesAreTrees, EncodingIs
  <1>4. buf \in Streams /\ stream \in Streams /\ pos \in 0 .. Len(buf) /\ L \in Nat
        /\ Len(delivered) \in Nat /\ Len(delivered) <= L
    BY <1>2 DEF Buffered, InOrder
  <1>5. stream' = stream \o e /\ stream \o e \in Streams /\ stream \o e # <<>>
    <2>1. stream \o e \in Streams /\ Len(stream \o e) = Len(stream) + Len(e)
      BY <1>3, <1>4, JoinedIs
    <2>2. Len(stream) \in Nat /\ Len(e) \in Nat /\ Len(e) > 0
      BY <1>3, <1>4 DEF Streams
    <2>3. stream \o e # <<>>
      BY <2>1, <2>2
    <2> QED
      BY <1>0, <1>1, <2>1, <2>3
  <1>6. Buffered'
    BY <1>1, <1>4, <1>5 DEF Buffered
  <1>7. /\ Len(sentReplies') = L + 1 /\ sentReplies' \in Seq(Replies)
        /\ sentReplies'[L + 1] = x /\ \A i \in 1 .. L : sentReplies'[i] = sentReplies[i]
    BY <1>1, <1>2 DEF InOrder
  <1>8. InOrder'
    BY <1>1, <1>2, <1>4, <1>7 DEF InOrder
  <1>9. CASE rerr
    BY <1>1, <1>5, <1>6, <1>8, <1>9 DEF ReaderInv
  <1>10. CASE ~rerr
    <2>1. PICK F : Coded(F) /\ (Fresh(F) \/ Within(F) \/ Done(F))
      BY <1>10 DEF ReaderInv
    <2>0. PICK G : G = [i \in 1 .. L + 2 |-> IF i = L + 2 THEN <<>> ELSE F[i] \o e]
      OBVIOUS
    <2>2. F \in [1 .. L + 1 -> Streams] /\ F[L + 1] = <<>>
          /\ \A i \in 1 .. L : F[i] = Reader!Encoding(sentReplies[i]) \o F[i + 1]
      BY <2>1 DEF Coded
    <2>3. \A i \in 1 .. L + 1 : F[i] \in Streams /\ F[i] \o e \in Streams
      BY <1>3, <2>2, JoinedIs
    <2>4. <<>> \in Streams
      BY DEF Streams
    <2>5. G \in [1 .. L + 2 -> Streams] /\ G[L + 2] = <<>> /\ \A i \in 1 .. L + 1 : G[i] = F[i] \o e
      <3>1. \A i \in 1 .. L + 2 : i # L + 2 => i \in 1 .. L + 1
        BY <1>4
      <3>2. L + 2 \in 1 .. L + 2 /\ \A i \in 1 .. L + 1 : i \in 1 .. L + 2 /\ i # L + 2
        BY <1>4
      <3> HIDE DEF L
      <3> QED
        BY <2>0, <2>3, <2>4, <3>1, <3>2
    <2>6. ASSUME NEW i \in 1 .. L PROVE G[i] = Reader!Encoding(sentReplies[i]) \o G[i + 1]
      <3>1. i \in 1 .. L + 1 /\ i + 1 \in 1 .. L + 1
        BY <1>4
      <3>2. F[i] = Reader!Encoding(sentReplies[i]) \o F[i + 1] /\ F[i + 1] \in Streams
        BY <2>2, <2>3, <3>1
      <3>3. Reader!Encoding(sentReplies[i]) \in Streams
        <4>1. sentReplies[i] \in Replies
          BY <1>2 DEF InOrder
        <4> QED
          BY <4>1, RepliesAreTrees, EncodingIs
      <3>4. (Reader!Encoding(sentReplies[i]) \o F[i + 1]) \o e
              = Reader!Encoding(sentReplies[i]) \o (F[i + 1] \o e)
        BY <1>3, <3>2, <3>3, JoinedThree
      <3> QED
        BY <2>5, <3>1, <3>2, <3>4
    <2>7. G[L + 1] = Reader!Encoding(x) \o G[L + 2]
      <3>1. L + 1 \in 1 .. L + 1
        BY <1>4
      <3>2. G[L + 1] = <<>> \o e
        BY <2>2, <2>5, <3>1
      <3>3. <<>> \o e = e /\ e \o <<>> = e
        BY <1>3 DEF Streams
      <3> QED
        BY <1>0, <2>5, <3>2, <3>3
    <2>8. Coded(G)'
      <3>1. ASSUME NEW i \in 1 .. L + 1
            PROVE  G[i] = Reader!Encoding(sentReplies'[i]) \o G[i + 1]
        <4>1. CASE i \in 1 .. L
          BY <1>7, <2>6, <4>1
        <4>2. CASE i = L + 1
          <5>1. i + 1 = L + 2
            BY <1>4, <4>2
          <5> QED
            BY <1>7, <2>7, <4>2, <5>1
        <4>3. i \in 1 .. L \/ i = L + 1
          BY <1>4
        <4> QED
          BY <4>1, <4>2, <4>3
      <3>2. Len(sentReplies') = L + 1 /\ (L + 1) + 1 = L + 2
        BY <1>4, <1>7
      <3>3. G \in [1 .. Len(sentReplies') + 1 -> Streams] /\ G[Len(sentReplies') + 1] = <<>>
        BY <2>5, <3>2
      <3>4. \A i \in 1 .. Len(sentReplies') : G[i] = Reader!Encoding(sentReplies'[i]) \o G[i + 1]
        BY <3>1, <3>2
      <3> QED
        BY <3>3, <3>4 DEF Coded
    <2>9. Left' = Left \o e /\ Left \in Streams
      <3> DEFINE b == SubSeq(buf, pos + 1, Len(buf))
      <3>1. Left = b \o stream /\ Left' = b \o (stream \o e)
        BY <1>1, <1>5 DEF Left, LeftFrom, LeftOf
      <3>2. b \in Streams
        BY <1>4 DEF Streams
      <3> HIDE DEF b
      <3>3. (b \o stream) \o e = b \o (stream \o e)
        BY <1>3, <1>4, <3>2, JoinedThree
      <3>4. b \o stream \in Streams
        BY <1>4, <3>2, JoinedIs
      <3> QED
        BY <3>1, <3>3, <3>4
    <2>10. Given' = Given /\ Given \in Nat /\ Given <= L
      BY <1>1, <1>4 DEF Given
    <2>11. CASE Fresh(F)
      <3>1. Given + 1 \in 1 .. L + 1
        BY <1>4, <2>10
      <3>2. Left' = G[Given + 1]
        <4>1. Left = F[Given + 1]
          BY <2>11 DEF Fresh
        <4>2. G[Given + 1] = F[Given + 1] \o e
          BY <2>5, <3>1
        <4> QED
          BY <2>9, <4>1, <4>2
      <3>3. Fresh(G)'
        BY <1>1, <2>10, <2>11, <3>2 DEF Fresh
      <3> QED
        BY <1>1, <1>5, <1>6, <1>8, <1>10, <2>8, <3>3 DEF ReaderInv
    <2>12. PICK r, g : r = sentReplies[Given + 1] /\ g = F[Given + 2]
      OBVIOUS
    <2>13. ASSUME Given < L
           PROVE  /\ Tree(r) /\ g \in Streams
                  /\ sentReplies'[Given' + 1] = r /\ G[Given' + 2] = g \o e
                  /\ Given' < Len(sentReplies')
      <3>1. Given + 1 \in 1 .. L /\ Given + 2 \in 1 .. L + 1 /\ Given < L + 1
        BY <1>4, <2>10, <2>13
      <3>2. Tree(r) /\ g \in Streams
        BY <1>2, <2>1, <2>12, <2>13, NowRead
      <3> QED
        BY <1>7, <2>5, <2>10, <2>12, <3>1, <3>2
    <2>14. CASE Done(F)
      <3>1. Given < L /\ rpc = "items" /\ Whole(r, g)
        BY <2>12, <2>14 DEF Done
      <3>2. Whole(r, g \o e)'
        BY <1>1, <2>9, <3>1 DEF Whole
      <3>3. Done(G)'
        BY <1>1, <2>13, <3>1, <3>2 DEF Done
      <3> QED
        BY <1>1, <1>5, <1>6, <1>8, <1>10, <2>8, <3>3 DEF ReaderInv
    <2>15. CASE Within(F)
      <3>1. Given < L /\ \E p \in DOMAIN r : Reached(r, p, g)
        BY <2>12, <2>15 DEF Within
      <3>2. PICK p \in DOMAIN r : Reached(r, p, g)
        BY <3>1
      <3>3. Tree(r) /\ g \in Streams
        BY <2>13, <3>1
      <3>4. Ahead(r, p) \in Streams /\ Reader!Tokens(r[p]) \in Streams
            /\ Tail(Reader!Tokens(r[p])) \in Streams
        <4>1. Reader!Tokens(r[p]) \in Streams /\ Len(Reader!Tokens(r[p])) > 0
          BY <3>3, TokensAre, TreePaths
        <4>2. Tail(Reader!Tokens(r[p])) \in Streams
          <5> DEFINE t == Reader!Tokens(r[p])
          <5>1. t \in Streams /\ Len(t) > 0
            BY <4>1
          <5> HIDE DEF t
          <5>2. Tail(t) \in Streams
            BY <5>1 DEF Streams
          <5> QED
            BY <5>2 DEF t
        <4> QED
          BY <3>3, <4>1, <4>2, AheadTyped
      <3>5. ASSUME NEW t \in Streams, Left = t \o (Ahead(r, p) \o g)
            PROVE  Left' = t \o (Ahead(r, p) \o (g \o e))
        <4>1. Ahead(r, p) \o g \in Streams
          BY <3>3, <3>4, JoinedIs
        <4>2. (t \o (Ahead(r, p) \o g)) \o e = t \o ((Ahead(r, p) \o g) \o e)
          BY <1>3, <4>1, JoinedThree
        <4>3. (Ahead(r, p) \o g) \o e = Ahead(r, p) \o (g \o e)
          <5>1. e \in Streams /\ g \in Streams /\ Ahead(r, p) \in Streams
            BY <1>3, <3>3, <3>4
          <5> QED
            BY ONLY <5>1, JoinedThree
        <4>4. Left' = (t \o (Ahead(r, p) \o g)) \o e
          BY <2>9, <3>5
        <4> QED
          BY <4>2, <4>3, <4>4
      <3>6. Untyped(r, p, g) => Untyped(r, p, g \o e)'
        BY <1>1, <3>4, <3>5 DEF Untyped
      <3>7. Typed(r, p, g) => Typed(r, p, g \o e)'
        BY <1>1, <3>4, <3>5 DEF Typed
      <3>8. Reached(r, p, g \o e)'
        BY <1>1, <3>2, <3>6, <3>7 DEF Reached
      <3>9. Within(G)'
        BY <2>13, <3>1, <3>8 DEF Within
      <3> QED
        BY <1>1, <1>5, <1>6, <1>8, <1>10, <2>8, <3>9 DEF ReaderInv
    <2> QED
      BY <2>1, <2>11, <2>14, <2>15
  <1> QED
    BY <1>9, <1>10

LEMMA SuffixIs ==
  ASSUME NEW s \in Streams, NEW k \in 0 .. Len(s)
  PROVE  /\ SubSeq(s, k + 1, Len(s)) \in Streams /\ Len(SubSeq(s, k + 1, Len(s))) = Len(s) - k
         /\ \A i \in 1 .. Len(s) - k : SubSeq(s, k + 1, Len(s))[i] = s[k + i]
  <1>1. Len(s) \in Nat /\ k + 1 \in 1 .. Len(s) + 1
    BY DEF Streams
  <1> QED
    BY <1>1 DEF Streams

\* Nothing but the bytes that are left moves.
LEMMA MomentKept ==
  ASSUME NEW F, Coded(F), Fresh(F) \/ Within(F) \/ Done(F), Left' = Left,
         rpc' = rpc \/ (rpc = "items" /\ rpc' = "idle" /\ rstack # <<>>),
         UNCHANGED <<rstack, reply, sentReplies, delivered>>
  PROVE  Coded(F)' /\ (Fresh(F) \/ Within(F) \/ Done(F))'
  <1>1. Coded(F)'
    BY DEF Coded
  <1>2. Given' = Given
    BY DEF Given
  <1>3. ASSUME Fresh(F) PROVE Fresh(F)'
    BY <1>2, <1>3 DEF Fresh
  <1>4. ASSUME Within(F) PROVE Within(F)'
    <2>1. PICK r, g : r = sentReplies[Given + 1] /\ g = F[Given + 2]
      OBVIOUS
    <2>2. PICK p \in DOMAIN r : Reached(r, p, g)
      BY <1>4, <2>1 DEF Within
    <2>3. Reached(r, p, g)'
      BY <2>2 DEF Reached, Untyped, Typed
    <2> QED
      BY <1>2, <1>4, <2>1, <2>3 DEF Within
  <1>5. ASSUME Done(F) PROVE Done(F)'
    <2>1. PICK r, g : r = sentReplies[Given + 1] /\ g = F[Given + 2]
      OBVIOUS
    <2>2. Whole(r, g)
      BY <1>5, <2>1 DEF Done
    <2>3. Whole(r, g)' /\ rpc' = rpc
      BY <2>2 DEF Whole
    <2> QED
      BY <1>2, <1>5, <2>1, <2>3 DEF Done
  <1> QED
    BY <1>1, <1>3, <1>4, <1>5

LEMMA FeedKeeps ==
  ASSUME ReaderInv, Reader!Feed
  PROVE  ReaderInv'
  <1> SUFFICES ASSUME ~Reader!SetError(TRUE) PROVE ReaderInv'
    BY SpoiledKeeps DEF Reader!Feed, Reader!SetError, ReaderInv
  <1>1. PICK k \in 1 .. Len(stream) : /\ buf' = buf \o SubSeq(stream, 1, k)
                                      /\ stream' = SubSeq(stream, k + 1, Len(stream))
    BY DEF Reader!Feed
  <1>2. /\ rpc = "idle" /\ ~rerr /\ lastOK' = FALSE
        /\ UNCHANGED <<pos, rstack, reply, rerr, rpc, sentReplies, delivered>>
    BY DEF Reader!Feed
  <1>3. buf \in Streams /\ stream \in Streams /\ pos \in 0 .. Len(buf) /\ Len(buf) \in Nat
        /\ Len(stream) \in Nat /\ InOrder
    BY DEF ReaderInv, Buffered, Streams
  <1>4. PICK a, b, c : a = SubSeq(stream, 1, k) /\ b = SubSeq(stream, k + 1, Len(stream))
                       /\ c = SubSeq(buf, pos + 1, Len(buf))
    OBVIOUS
  <1>5. a \in Streams /\ Len(a) = k /\ b \in Streams /\ a \o b = stream
    <2>1. k \in 0 .. Len(stream) /\ stream \in Seq(TokenSet)
      BY <1>3 DEF Streams
    <2>2. SubSeq(stream, 1, k) \in Seq(TokenSet) /\ Len(SubSeq(stream, 1, k)) = k
          /\ \A i \in 1 .. k : SubSeq(stream, 1, k)[i] = stream[i]
      BY <2>1
    <2>3. SubSeq(stream, k + 1, Len(stream)) \in Seq(TokenSet)
          /\ Len(SubSeq(stream, k + 1, Len(stream))) = Len(stream) - k
          /\ \A i \in 1 .. Len(stream) - k : SubSeq(stream, k + 1, Len(stream))[i] = stream[k + i]
      BY <1>3, <2>1
    <2>4. a \in Streams /\ b \in Streams /\ Len(a) = k /\ Len(b) = Len(stream) - k
          /\ (\A i \in 1 .. k : a[i] = stream[i])
          /\ \A i \in 1 .. Len(stream) - k : b[i] = stream[k + i]
      BY <1>4, <2>2, <2>3 DEF Streams
    <2>5. /\ a \o b \in Streams /\ Len(a \o b) = Len(a) + Len(b)
          /\ \A i \in 1 .. Len(a) + Len(b) : (a \o b)[i] = IF i <= Len(a) THEN a[i] ELSE b[i - Len(a)]
      BY <2>4, JoinedIs
    <2>6. Len(a \o b) = Len(stream)
      BY <1>3, <2>4, <2>5
    <2>7. ASSUME NEW i \in 1 .. Len(stream) PROVE (a \o b)[i] = stream[i]
      <3>1. i \in 1 .. Len(a) + Len(b)
        BY <1>3, <2>4
      <3>2. CASE i <= k
        BY <2>4, <2>5, <3>1, <3>2
      <3>3. CASE i > k
        <4>1. i - k \in 1 .. Len(stream) - k /\ k + (i - k) = i
          BY <1>3, <3>3
        <4>2. (a \o b)[i] = b[i - k]
          BY <2>4, <2>5, <3>1, <3>3
        <4>3. b[i - k] = stream[k + (i - k)]
          BY <2>4, <4>1
        <4> QED
          BY <4>1, <4>2, <4>3
      <3> QED
        <4>1. i \in Nat /\ k \in Nat
          BY <1>3
        <4>2. i <= k \/ i > k
          BY <4>1
        <4> QED
          BY <3>2, <3>3, <4>2
    <2>8. a \o b = stream
      <3> DEFINE ab == a \o b
      <3>1. ab \in Seq(TokenSet) /\ stream \in Seq(TokenSet) /\ Len(ab) = Len(stream)
            /\ \A i \in 1 .. Len(ab) : ab[i] = stream[i]
        BY <1>3, <2>5, <2>6, <2>7 DEF Streams
      <3> HIDE DEF ab
      <3>2. ab = stream
        BY <3>1, SeqEqual
      <3> QED
        BY <3>2 DEF ab
    <2> QED
      BY <2>4, <2>8
  <1>6. c \in Streams /\ Len(c) = Len(buf) - pos
    <2>1. pos + 1 \in 1 .. Len(buf) + 1
      BY <1>3
    <2> QED
      BY <1>3, <1>4, <2>1 DEF Streams
  <1>7. buf' \in Streams /\ Len(buf') = Len(buf) + k /\ stream' \in Streams
        /\ \A i \in 1 .. Len(buf) + k : buf'[i] = IF i <= Len(buf) THEN buf[i] ELSE a[i - Len(buf)]
    BY <1>1, <1>3, <1>4, <1>5, JoinedIs
  <1>8. Buffered'
    <2>1. pos \in 0 .. Len(buf')
      BY <1>3, <1>7
    <2> QED
      BY <1>2, <1>7, <2>1 DEF Buffered
  <1>9. SubSeq(buf', pos + 1, Len(buf')) = c \o a
    <2>1. PICK d : d = SubSeq(buf', pos + 1, Len(buf'))
      OBVIOUS
    <2>2. pos + 1 \in 1 .. Len(buf') + 1 /\ Len(buf') \in Nat
      BY <1>3, <1>7
    <2>3. d \in Streams /\ Len(d) = Len(buf) + k - pos
          /\ \A i \in 1 .. Len(buf) + k - pos : d[i] = buf'[pos + i]
      <3>1. buf' \in Streams /\ pos \in 0 .. Len(buf') /\ Len(buf') - pos = Len(buf) + k - pos
        BY <1>3, <1>7, <2>2
      <3>2. /\ d \in Streams /\ Len(d) = Len(buf') - pos
            /\ \A i \in 1 .. Len(buf') - pos : d[i] = buf'[pos + i]
        BY <2>1, <3>1, SuffixIs
      <3> QED
        BY <3>1, <3>2
    <2>4. \A i \in 1 .. Len(buf) - pos : c[i] = buf[pos + i]
      BY <1>3, <1>4, <1>6 DEF Streams
    <2>5. /\ c \o a \in Streams /\ Len(c \o a) = Len(c) + Len(a)
          /\ \A i \in 1 .. Len(c) + Len(a) : (c \o a)[i] = IF i <= Len(c) THEN c[i] ELSE a[i - Len(c)]
      BY <1>5, <1>6, JoinedIs
    <2>6. Len(c \o a) = Len(d)
      BY <1>3, <1>5, <1>6, <2>3, <2>5
    <2>7. ASSUME NEW i \in 1 .. Len(d) PROVE (c \o a)[i] = d[i]
      <3>1. i \in 1 .. Len(c) + Len(a) /\ i \in 1 .. Len(buf) + k - pos
            /\ pos + i \in 1 .. Len(buf) + k
        BY <1>3, <1>5, <1>6, <2>3
      <3>2. PICK j : j = pos + i
        OBVIOUS
      <3>3. buf'[j] = IF j <= Len(buf) THEN buf[j] ELSE a[j - Len(buf)]
        BY <1>7, <3>1, <3>2
      <3>4. d[i] = buf'[j]
        BY <2>3, <3>1, <3>2
      <3>5. CASE i <= Len(buf) - pos
        <4>1. j <= Len(buf) /\ i <= Len(c) /\ i \in 1 .. Len(buf) - pos
          BY <1>3, <1>6, <3>2, <3>5
        <4>2. c[i] = buf[j]
          BY <2>4, <3>2, <4>1
        <4>3. (c \o a)[i] = c[i]
          BY <2>5, <3>1, <4>1
        <4> QED
          BY <3>3, <3>4, <4>1, <4>2, <4>3
      <3>6. CASE ~(i <= Len(buf) - pos)
        <4>1. ~(j <= Len(buf)) /\ ~(i <= Len(c)) /\ i - Len(c) = j - Len(buf)
          BY <1>3, <1>6, <3>2, <3>6
        <4>2. (c \o a)[i] = a[i - Len(c)]
          BY <2>5, <3>1, <4>1
        <4> QED
          BY <3>3, <3>4, <4>1, <4>2
      <3> QED
        BY <3>5, <3>6
    <2>8. PICK y : y = c \o a
      OBVIOUS
    <2>9. y \in Seq(TokenSet) /\ d \in Seq(TokenSet) /\ Len(y) = Len(d) /\ \A i \in 1 .. Len(y) : y[i] = d[i]
      BY <2>3, <2>5, <2>6, <2>7, <2>8 DEF Streams
    <2>10. y = d
      BY <2>9, SeqEqual
    <2> QED
      BY <2>1, <2>8, <2>10
  <1>10. Left' = Left
    <2>1. Left' = SubSeq(buf', pos + 1, Len(buf')) \o b
      BY <1>1, <1>2, <1>4 DEF Left, LeftFrom, LeftOf
    <2>2. Left = c \o (a \o b)
      BY <1>4, <1>5 DEF Left, LeftFrom, LeftOf
    <2>3. (c \o a) \o b = c \o (a \o b)
      BY <1>5, <1>6, JoinedThree
    <2> QED
      BY <1>9, <2>1, <2>2, <2>3
  <1>11. PICK F : Coded(F) /\ (Fresh(F) \/ Within(F) \/ Done(F))
    BY <1>2 DEF ReaderInv
  <1>12. Coded(F)' /\ (Fresh(F) \/ Within(F) \/ Done(F))'
    BY <1>2, <1>10, <1>11, MomentKept
  <1>13. InOrder'
    BY <1>2, <1>3 DEF InOrder
  <1> QED
    BY <1>2, <1>8, <1>12, <1>13 DEF ReaderInv

LEMMA ReplyReturnedKeeps ==
  ASSUME ReaderInv, Reader!GetReply
  PROVE  ReaderInv'
  <1>1. /\ rpc = "idle" /\ ~rerr /\ ~lastOK /\ rpc' = "items"
        /\ rstack' = IF rstack = <<>> THEN <<Reader!Task(-1)>> ELSE rstack
        /\ UNCHANGED <<buf, pos, reply, rerr, stream, sentReplies, delivered, lastOK>>
    BY DEF Reader!GetReply
  <1>2. PICK F : Coded(F) /\ (Fresh(F) \/ Within(F) \/ Done(F))
    BY <1>1 DEF ReaderInv
  <1>3. Coded(F)' /\ Given' = Given /\ Left' = Left /\ Buffered' /\ InOrder'
    BY <1>1, <1>2 DEF Coded, Given, Left, LeftFrom, LeftOf, Buffered, InOrder, ReaderInv
  <1>4. ASSUME Fresh(F) PROVE Fresh(F)'
    <2>1. rstack' = <<Reader!Task(-1)>> /\ rstack' # <<>>
      BY <1>1, <1>4 DEF Fresh
    <2> QED
      BY <1>1, <1>3, <1>4, <2>1 DEF Fresh
  <1>5. ASSUME Within(F) PROVE Within(F)'
    <2>1. PICK r, g : r = sentReplies[Given + 1] /\ g = F[Given + 2]
      OBVIOUS
    <2>2. PICK p \in DOMAIN r : Reached(r, p, g)
      BY <1>5, <2>1 DEF Within
    <2>3. Tree(r)
      BY <1>2, <1>5, <2>1, NowRead DEF Within, ReaderInv
    <2>4. rstack # <<>>
      <3>1. p \in Paths
        BY <2>3, TreePaths
      <3> QED
        BY <2>2, <3>1, TopOf DEF Reached, Untyped, Typed
    <2>5. rstack' = rstack
      BY <1>1, <2>4
    <2>6. Reached(r, p, g)'
      BY <1>1, <1>3, <2>2, <2>5 DEF Reached, Untyped, Typed
    <2> QED
      BY <1>1, <1>3, <1>5, <2>1, <2>6 DEF Within
  <1>6. ~Done(F)
    BY <1>1 DEF Done
  <1> QED
    BY <1>1, <1>2, <1>3, <1>4, <1>5, <1>6 DEF ReaderInv

\* Consumed bytes are dropped or not.
LEMMA DiscardKeeps ==
  ASSUME Buffered, UNCHANGED stream,
         UNCHANGED <<buf, pos>> \/ (buf' = Reader!Discarded /\ pos' = 0)
  PROVE  Buffered' /\ Left' = Left
  <1>1. CASE UNCHANGED <<buf, pos>>
    BY <1>1 DEF Buffered, Left, LeftFrom, LeftOf
  <1>2. CASE buf' = Reader!Discarded /\ pos' = 0
    <2>1. PICK b : b = SubSeq(buf, pos + 1, Len(buf))
      OBVIOUS
    <2>2. b \in Streams /\ buf' = b
      BY <1>2, <2>1, SuffixIs DEF Buffered, Reader!Discarded
    <2>3. SubSeq(b, 0 + 1, Len(b)) = b
      <3>1. 0 \in 0 .. Len(b) /\ Len(b) \in Nat
        BY <2>2 DEF Streams
      <3>2. PICK d, k : d = SubSeq(b, k + 1, Len(b)) /\ k = 0
        OBVIOUS
      <3>3. d \in Streams /\ Len(d) = Len(b) - k /\ \A i \in 1 .. Len(b) - k : d[i] = b[k + i]
        BY <2>2, <3>1, <3>2, SuffixIs
      <3>4. Len(d) = Len(b) /\ \A i \in 1 .. Len(d) : d[i] = b[i]
        BY <3>1, <3>2, <3>3
      <3>5. d \in Seq(TokenSet) /\ b \in Seq(TokenSet)
        BY <2>2, <3>3 DEF Streams
      <3>6. d = b
        BY <3>4, <3>5, SeqEqual
      <3> QED
        BY <3>2, <3>6
    <2>4. Left' = b \o stream
      BY <1>2, <2>2, <2>3 DEF Left, LeftFrom, LeftOf
    <2>5. Left = b \o stream
      BY <2>1 DEF Left, LeftFrom, LeftOf
    <2>6. Buffered'
      <3>1. 0 \in 0 .. Len(b)
        BY <2>2 DEF Streams
      <3> QED
        BY <1>2, <2>2, <3>1 DEF Buffered
    <2> QED
      BY <2>4, <2>5, <2>6
  <1> QED
    BY <1>1, <1>2

\* With all bytes in its buffer, the reader can go on with the object it is at.
LEMMA NeverStuckWithin ==
  ASSUME Buffered, stream = <<>>, NEW r, Tree(r), NEW p \in DOMAIN r, NEW g \in Streams,
         Reached(r, p, g)
  PROVE  ~Reader!Stuck
  <1>1. p \in Paths /\ r[p] \in Objects
    BY TreePaths
  <1>2. /\ Len(Left) = Len(buf) - pos /\ Len(buf) \in Nat /\ pos \in Nat
        /\ buf \in Streams /\ stream \in Streams /\ pos \in 0 .. Len(buf)
    <2>1. Len(Left) = Len(buf) - pos + Len(stream) /\ Len(stream) = 0
      BY LeftTyped DEF Buffered, Left
    <2> QED
      BY <2>1 DEF Buffered, Streams
  <1>3. ASSUME NEW t \in Streams, NEW h \in Streams, Left = t \o h
        PROVE  pos + Len(t) <= Len(buf)
    <2>1. Len(t \o h) = Len(t) + Len(h) /\ Len(t) \in Nat /\ Len(h) \in Nat
      BY <1>3 DEF Streams
    <2> QED
      BY <1>2, <1>3, <2>1
  <1>4. CASE Untyped(r, p, g)
    <2>1. Reader!Cur.type = None
      BY <1>1, <1>4, TopOf DEF Untyped
    <2>2. Reader!Tokens(r[p]) \in Streams /\ Len(Reader!Tokens(r[p])) > 0
          /\ Len(Reader!Tokens(r[p])) \in Nat
      BY <1>1, TokensAre
    <2>3. Ahead(r, p) \o g \in Streams
      BY AheadTyped, JoinedIs
    <2>4. pos + Len(Reader!Tokens(r[p])) <= Len(buf)
      BY <1>3, <1>4, <2>2, <2>3 DEF Untyped
    <2>5. pos + 1 <= Len(buf)
      BY <1>2, <2>2, <2>4
    <2>6. Reader!Cur.type = Reader!None /\ Reader!None \notin {"$", "*"}
      BY <2>1 DEF Reader!None, None
    <2> QED
      BY ONLY <2>5, <2>6 DEF Reader!Stuck, Reader!Available
  <1>5. CASE Typed(r, p, g)
    <2>1. Reader!Cur.type = r[p].type /\ r[p].type \in Reader!Types
      BY <1>1, <1>5, TopOf DEF Typed
    <2>2. Reader!Cur.type # Reader!None
      BY <2>1 DEF Reader!None, Reader!Types
    <2>3. r[p].nil \in BOOLEAN
      BY <1>1 DEF Objects
    <2>4. Ahead(r, p) \o g \in Streams
      BY AheadTyped, JoinedIs
    <2>5. ASSUME NEW x \in TokenSet, Left = <<x>> \o (Ahead(r, p) \o g)
          PROVE  pos + 1 <= Len(buf) /\ Reader!Here = x
      <3>1. <<x>> \in Streams /\ Len(<<x>>) = 1
        BY DEF Streams
      <3>2. pos + Len(<<x>>) <= Len(buf)
        BY <1>3, <2>4, <2>5, <3>1
      <3>3. pos + 1 <= Len(buf)
        BY <3>1, <3>2
      <3> QED
        BY <2>4, <2>5, <3>3, OneTaken
    <2>6. CASE r[p].type # "$"
      <3>1. pos + 1 <= Len(buf)
        <4>1. CASE r[p].nil
          BY <1>5, <2>5, <4>1, HeaderIs
        <4>2. CASE ~r[p].nil
          BY <1>5, <2>5, <2>6, <4>2, HeaderIs
        <4> QED
          BY <4>1, <4>2
      <3> QED
        BY <2>1, <2>2, <2>6, <3>1 DEF Reader!Stuck, Reader!Available
    <2>7. CASE r[p].type = "$" /\ r[p].nil
      <3>1. pos + 1 <= Len(buf) /\ Reader!Here = Reader!Token("line", -1)
        BY <1>5, <2>5, <2>7, HeaderIs
      <3>2. Reader!Needed(Reader!Here.v) = 1
        BY <3>1 DEF Reader!Token, Reader!Needed
      <3> QED
        BY <2>1, <2>2, <2>7, <3>1, <3>2 DEF Reader!Stuck, Reader!Available
    <2>8. CASE r[p].type = "$" /\ ~r[p].nil
      <3> DEFINE x == Reader!Token("line", 1)
                 y == Reader!Token("body", r[p].val)
      <3>1. x \in TokenSet /\ y \in TokenSet /\ Left = <<x, y>> \o (Ahead(r, p) \o g)
        BY <1>5, <2>8, HeaderIs
      <3>2. x.v = 1
        BY DEF Reader!Token
      <3> HIDE DEF x, y
      <3>3. <<x, y>> \in Streams /\ Len(<<x, y>>) = 2
        BY <3>1 DEF Streams
      <3>4. pos + Len(<<x, y>>) <= Len(buf)
        BY <1>3, <2>4, <3>1, <3>3
      <3>5. pos + 2 <= Len(buf) /\ pos + 1 <= Len(buf)
        BY <1>2, <3>3, <3>4
      <3>6. Reader!Here = x
        BY <2>4, <3>1, <3>5, TwoTaken
      <3>7. Reader!Needed(Reader!Here.v) \in {1, 2}
        BY DEF Reader!Needed
      <3> QED
        BY <2>1, <2>2, <2>8, <3>5, <3>7 DEF Reader!Stuck, Reader!Available
    <2> QED
      BY <2>3, <2>6, <2>7, <2>8
  <1> QED
    BY <1>4, <1>5 DEF Reached

\* A reader that waits with all bytes in its buffer has returned every reply.
LEMMA WaitsForNothing ==
  ASSUME Buffered, InOrder, stream = <<>>, NEW F, Coded(F), Fresh(F) \/ Within(F),
         Reader!Stuck, rstack # <<>>
  PROVE  delivered = sentReplies
  <1>1. Given \in Nat /\ Len(sentReplies) \in Nat /\ Given <= Len(sentReplies)
    BY DEF InOrder, Given
  <1>2. ASSUME Within(F) PROVE FALSE
    <2>1. PICK r, g : r = sentReplies[Given + 1] /\ g = F[Given + 2]
      OBVIOUS
    <2>2. PICK p \in DOMAIN r : Reached(r, p, g)
      BY <1>2, <2>1 DEF Within
    <2>3. Tree(r) /\ g \in Streams
      BY <1>2, <2>1, NowRead DEF Within
    <2> QED
      BY <2>2, <2>3, NeverStuckWithin
  <1>3. ASSUME Given < Len(sentReplies) PROVE FALSE
    <2>1. Fresh(F)
      BY <1>2
    <2>2. F[Given + 1] # <<>>
      BY <1>3, NowRead
    <2> QED
      BY <1>2, <2>1, <2>2, RootReached DEF Fresh
  <1>4. Len(delivered) = Len(sentReplies)
    BY <1>1, <1>3 DEF Given
  <1>5. delivered \in Seq(Replies) /\ sentReplies \in Seq(Replies)
        /\ \A i \in 1 .. Len(delivered) : delivered[i] = sentReplies[i]
    BY DEF InOrder
  <1> QED
    BY <1>4, <1>5, SeqEqual

LEMMA GetReplyEndsKeeps ==
  ASSUME ReaderInv, Reader!GetReplyEnds
  PROVE  ReaderInv'
  <1>1. /\ rpc = "items" /\ (rstack # <<>> => Reader!Stuck) /\ rpc' = "idle" /\ ~lastOK
        /\ UNCHANGED <<rstack, rerr, stream, sentReplies>>
        /\ UNCHANGED <<buf, pos>> \/ (~rerr /\ buf' = Reader!Discarded /\ pos' = 0)
    BY DEF Reader!GetReplyEnds, ReaderInv
  <1>2. Buffered /\ InOrder
    BY DEF ReaderInv
  <1>3. Buffered' /\ Left' = Left
    BY <1>1, <1>2, DiscardKeeps
  <1>4. CASE rerr
    <2>1. UNCHANGED <<buf, pos, delivered, reply>> /\ lastOK' = FALSE
      BY <1>4 DEF Reader!GetReplyEnds
    <2>2. InOrder'
      BY <1>1, <1>2, <2>1 DEF InOrder
    <2> QED
      BY <1>1, <1>3, <1>4, <2>1, <2>2 DEF ReaderInv
  <1>5. CASE ~rerr /\ rstack # <<>>
    <2>1. UNCHANGED <<delivered, reply>> /\ lastOK' = TRUE
      BY <1>5 DEF Reader!GetReplyEnds
    <2>2. PICK F : Coded(F) /\ (Fresh(F) \/ Within(F) \/ Done(F))
      BY <1>5 DEF ReaderInv
    <2>3. Coded(F)' /\ (Fresh(F) \/ Within(F) \/ Done(F))'
      BY <1>1, <1>3, <1>5, <2>1, <2>2, MomentKept
    <2>4. ~Done(F)
      BY <1>5 DEF Done, Whole
    <2>5. stream = <<>> => delivered = sentReplies
      BY <1>1, <1>2, <1>5, <2>2, <2>4, WaitsForNothing
    <2>6. InOrder'
      BY <1>1, <1>2, <2>1 DEF InOrder
    <2> QED
      BY <1>1, <1>3, <1>5, <2>1, <2>3, <2>5, <2>6 DEF ReaderInv
  <1>6. CASE ~rerr /\ rstack = <<>>
    <2>1. delivered' = Append(delivered, reply) /\ reply' = <<>> /\ lastOK' = FALSE
      BY <1>6 DEF Reader!GetReplyEnds
    <2>2. PICK F : Coded(F) /\ (Fresh(F) \/ Within(F) \/ Done(F))
      BY <1>6 DEF ReaderInv
    <2>3. PICK r, g : r = sentReplies[Given + 1] /\ g = F[Given + 2]
      OBVIOUS
    <2>4. ~Fresh(F)
      BY <1>1, <1>6 DEF Fresh
    <2>5. ASSUME Within(F) PROVE FALSE
      <3>1. PICK p \in DOMAIN r : Reached(r, p, g)
        BY <2>3, <2>5 DEF Within
      <3>2. Tree(r)
        BY <1>2, <2>2, <2>3, <2>5, NowRead DEF Within
      <3>3. p \in Paths
        BY <3>2, TreePaths
      <3> QED
        BY <1>6, <3>1, <3>3, TopOf DEF Reached, Untyped, Typed
    <2>6. Given < Len(sentReplies) /\ Whole(r, g)
      BY <2>2, <2>3, <2>4, <2>5 DEF Done
    <2>7. r \in Replies
      BY <1>2, <2>2, <2>3, <2>6, NowRead
    <2>8. Given \in Nat /\ Len(sentReplies) \in Nat /\ Len(delivered) = Given
      BY <1>2 DEF InOrder, Given
    <2>9. delivered' = Append(delivered, r) /\ Reader!Legal(r) /\ Left = g
      BY <2>1, <2>6 DEF Whole
    <2>10. /\ delivered' \in Seq(Replies) /\ Len(delivered') = Given + 1
           /\ delivered'[Given + 1] = r /\ \A i \in 1 .. Given : delivered'[i] = delivered[i]
      BY <1>2, <2>7, <2>8, <2>9 DEF InOrder
    <2>11. InOrder'
      <3>1. Given + 1 <= Len(sentReplies)
        BY <2>6, <2>8
      <3>2. ASSUME NEW i \in 1 .. Given + 1
            PROVE  delivered'[i] = sentReplies[i] /\ Reader!Legal(delivered'[i])
        <4>1. CASE i = Given + 1
          BY <2>3, <2>9, <2>10, <4>1
        <4>2. CASE i \in 1 .. Given
          BY <1>2, <2>8, <2>10, <4>2 DEF InOrder
        <4> QED
          BY <2>8, <4>1, <4>2
      <3> QED
        BY <1>1, <1>2, <2>10, <3>1, <3>2 DEF InOrder
    <2>12. Coded(F)'
      BY <1>1, <2>2 DEF Coded
    <2>13. Fresh(F)'
      <3>1. Given' + 1 = Given + 2
        BY <2>8, <2>10 DEF Given
      <3>2. Left' = F[Given' + 1]
        BY <1>3, <2>3, <2>9, <3>1
      <3> QED
        BY <1>1, <1>6, <2>1, <3>2 DEF Fresh
    <2> QED
      BY <1>1, <1>3, <1>6, <2>1, <2>11, <2>12, <2>13 DEF ReaderInv
  <1> QED
    BY <1>4, <1>5, <1>6

LEMMA ReaderKeeps ==
  ASSUME ReaderInv, Reader!Next
  PROVE  ReaderInv'
  <1>1. ASSUME NEW r \in Replies, Reader!Send(r) PROVE ReaderInv'
    BY <1>1, SendKeeps
  <1> QED
    BY <1>1, FeedKeeps, ReplyReturnedKeeps, GetReplyEndsKeeps, ItemKeeps DEF Reader!Next

LEMMA ReaderInvSpec == PartsSpec => []ReaderInv
  <1>1. PartsInit => ReaderInv
    BY ReaderStart DEF PartsInit
  <1>2. ReaderInv /\ [AsyncStep \/ SyncStep \/ ReaderStep \/ DictStep \/ StringStep]_allVars => ReaderInv'
    <2> SUFFICES ASSUME ReaderInv,
                        [AsyncStep \/ SyncStep \/ ReaderStep \/ DictStep \/ StringStep]_allVars
                 PROVE  ReaderInv'
      OBVIOUS
    <2>1. CASE ReaderStep
      BY <2>1, ReaderKeeps DEF ReaderStep
    <2>2. CASE UNCHANGED readerVars
      <3>1. /\ buf' = buf /\ pos' = pos /\ rstack' = rstack /\ reply' = reply /\ rerr' = rerr
            /\ rpc' = rpc /\ stream' = stream /\ sentReplies' = sentReplies
            /\ delivered' = delivered /\ lastOK' = lastOK
        BY <2>2 DEF readerVars
      <3>2. Buffered' /\ InOrder'
        BY <3>1 DEF ReaderInv, Buffered, InOrder
      <3>3. ASSUME ~rerr PROVE \E F : Coded(F)' /\ (Fresh(F) \/ Within(F) \/ Done(F))'
        <4>1. PICK F : Coded(F) /\ (Fresh(F) \/ Within(F) \/ Done(F))
          BY <3>3 DEF ReaderInv
        <4>2. Left' = Left
          BY <3>1 DEF Left, LeftFrom, LeftOf
        <4>3. Coded(F)' /\ (Fresh(F) \/ Within(F) \/ Done(F))'
          BY <3>1, <4>1, <4>2, MomentKept
        <4> QED
          BY <4>3
      <3> QED
        BY <3>1, <3>2, <3>3 DEF ReaderInv
    <2>3. ReaderStep \/ UNCHANGED readerVars
      BY DEF AsyncStep, SyncStep, DictStep, StringStep, allVars
    <2> QED
      BY <2>1, <2>2, <2>3
  <1> QED
    BY <1>1, <1>2, PTL DEF PartsSpec

LEMMA ReaderTyped == ReaderInv => Reader!TypeOK
  <1> SUFFICES ASSUME ReaderInv PROVE Reader!TypeOK
    OBVIOUS
  <1>1. pos \in 0 .. Len(buf)
    BY DEF ReaderInv, Buffered
  <1>2. rerr => buf = <<>> /\ rstack = <<>>
    BY DEF ReaderInv
  <1>3. CASE rstack = <<>>
    <2>1. Len(rstack) <= Depth /\ \A i \in 2 .. Len(rstack) : FALSE
      BY <1>3, DepthIs
    <2> QED
      BY <1>1, <1>2, <2>1 DEF Reader!TypeOK
  <1>4. CASE rstack = <<Reader!Task(-1)>>
    <2>1. Len(rstack) <= Depth /\ \A i \in 2 .. Len(rstack) : FALSE
      BY <1>4, DepthIs
    <2> QED
      BY <1>1, <1>2, <2>1 DEF Reader!TypeOK
  <1>5. ASSUME rstack # <<>>, rstack # <<Reader!Task(-1)>> PROVE Reader!TypeOK
    <2>1. ~rerr
      BY <1>2, <1>5
    <2>2. PICK F : Coded(F) /\ (Fresh(F) \/ Within(F) \/ Done(F))
      BY <2>1 DEF ReaderInv
    <2>3. Within(F)
      BY <1>5, <2>2 DEF Fresh, Done, Whole
    <2>4. PICK r : r = sentReplies[Given + 1]
      OBVIOUS
    <2>5. PICK g : g = F[Given + 2]
      OBVIOUS
    <2>6. PICK p \in DOMAIN r : Reached(r, p, g)
      BY <2>3, <2>4, <2>5 DEF Within
    <2>7. Tree(r)
      BY <2>2, <2>3, <2>4, NowRead DEF Within, ReaderInv
    <2>8. p \in Paths
      BY <2>7, TreePaths
    <2>9. PICK t : rstack = StackAt(r, p, t)
      BY <2>6 DEF Reached, Untyped, Typed
    <2>10. Len(rstack) <= Depth
      BY <2>6, <2>8, <2>9, StackIs DEF Reached
    <2>11. \A i \in 2 .. Len(rstack) : /\ rstack[i - 1].type = "*"
                                       /\ rstack[i].idx \in 0 .. rstack[i - 1].elements - 1
      BY <2>7, <2>9, StackFits
    <2> QED
      BY <1>1, <1>2, <2>10, <2>11 DEF Reader!TypeOK
  <1> QED
    BY <1>3, <1>4, <1>5

LEMMA ReaderInOrder == ReaderInv => Reader!RepliesInOrder /\ Reader!NothingHeldBack
  <1> SUFFICES ASSUME ReaderInv PROVE Reader!RepliesInOrder /\ Reader!NothingHeldBack
    OBVIOUS
  <1>1. InOrder
    BY DEF ReaderInv
  <1>2. /\ delivered \in Seq(Replies) /\ sentReplies \in Seq(Replies)
        /\ Len(delivered) \in Nat /\ Len(sentReplies) \in Nat /\ Len(delivered) <= Len(sentReplies)
        /\ \A i \in 1 .. Len(delivered) : delivered[i] = sentReplies[i] /\ Reader!Legal(delivered[i])
    BY <1>1 DEF InOrder
  <1>3. SubSeq(delivered, 1, Len(delivered)) = SubSeq(sentReplies, 1, Len(delivered))
    <2>1. SubSeq(delivered, 1, Len(delivered)) = [i \in 1 .. Len(delivered) |-> delivered[i]]
      BY <1>2
    <2>2. SubSeq(sentReplies, 1, Len(delivered)) = [i \in 1 .. Len(delivered) |-> sentReplies[i]]
      BY <1>2
    <2> QED
      BY <1>2, <2>1, <2>2
  <1>4. Reader!RepliesInOrder
    <2>1. Reader!IsPrefix(delivered, sentReplies)
      BY <1>2, <1>3 DEF Reader!IsPrefix
    <2>2. \A i \in DOMAIN delivered : Reader!Legal(delivered[i])
      BY <1>2
    <2> QED
      BY <2>1, <2>2 DEF Reader!RepliesInOrder
  <1>5. Reader!NothingHeldBack
    BY DEF Reader!NothingHeldBack, ReaderInv
  <1> QED
    BY <1>4, <1>5

-----------------------------------------------------------------------------
(* The strings                                                              *)

Bytes == Chars \cup {Strings!NUL}
TYPE_5 == Strings!SDS_TYPE_5

\* A string whose memory is n bytes and a NUL or more, and whose header can say n.
Holds(s, n) == /\ n + 1 <= s.room /\ n < TypeRange[s.type]
               /\ s.type # TYPE_5 => n <= s.alloc

Block(s) ==
  /\ s \in [type : 1 .. Len(TypeRange), len : Nat, alloc : Nat, mem : Seq(Bytes), room : Nat]
  /\ s.type # TYPE_5 => s.alloc + 1 <= s.room /\ s.alloc < TypeRange[s.type]

\* A string as its calls leave it: the memory holds its bytes, with a NUL behind them.
Sound(s) == /\ Block(s) /\ Holds(s, s.len)
            /\ Len(s.mem) = s.len + 1 /\ s.mem[s.len + 1] = Strings!NUL

\* No longer than the bound, which the calls of Next keep.
StringInv == \/ str.mem = <<>> /\ str.len = 0
             \/ Sound(str) /\ str.len <= MaxLen

Max5 == 2 * MaxLen + 1

LEMMA Ranges ==
  /\ Len(TypeRange) \in Nat /\ DOMAIN TypeRange = 1 .. Len(TypeRange)
  /\ 1 \in 1 .. Len(TypeRange) /\ 2 \in 1 .. Len(TypeRange)
  /\ \A t \in 1 .. Len(TypeRange) : TypeRange[t] \in Nat \ {0}
  /\ TYPE_5 = 1 /\ Strings!SDS_TYPE_8 = 2
  BY StringsAssumption DEF TYPE_5, Strings!SDS_TYPE_5, Strings!SDS_TYPE_8

LEMMA HoldsLess ==
  ASSUME NEW s, Block(s), NEW n \in Nat, NEW k \in Nat, Holds(s, n), k <= n
  PROVE  Holds(s, k)
  <1>1. s.room \in Nat /\ s.alloc \in Nat /\ TypeRange[s.type] \in Nat
    BY Ranges DEF Block
  <1> QED
    BY <1>1 DEF Holds

LEMMA Modulus ==
  ASSUME NEW a \in Nat, NEW b \in Nat \ {0}, a < b
  PROVE  a % b = a
  OBVIOUS

LEMMA RequiredType ==
  ASSUME NEW n \in Nat, n < TypeRange[Len(TypeRange)]
  PROVE  /\ Strings!sdsReqType(n) \in 1 .. Len(TypeRange)
         /\ n < TypeRange[Strings!sdsReqType(n)]
  <1> DEFINE Fit == {t \in Strings!Types :
                       n < IF t = Strings!SDS_TYPE_5 THEN TypeRange[t] ELSE TypeRange[t] - 1}
             S == Fit \cup {Len(TypeRange)}
  <1>1. S \subseteq 1 .. Len(TypeRange) /\ S # {} /\ S \in SUBSET Nat
    BY Ranges DEF Strings!Types
  <1>2. \A t \in S : n < TypeRange[t]
    <2> TAKE t \in S
    <2>1. CASE t \in Fit
      <3>1. n < IF t = Strings!SDS_TYPE_5 THEN TypeRange[t] ELSE TypeRange[t] - 1
        BY <2>1
      <3>2. TypeRange[t] \in Nat
        BY <1>1, Ranges
      <3> QED
        BY <3>1, <3>2
    <2> QED
      BY <2>1
  <1>3. Strings!sdsReqType(n) = Strings!Min(S)
    BY DEF Strings!sdsReqType
  <1>4. \E x \in S : \A y \in S : x <= y
    BY <1>1, LeastOf
  <1>5. Strings!Min(S) \in S
    BY <1>4 DEF Strings!Min
  <1> QED
    BY <1>1, <1>2, <1>3, <1>5

LEMMA PutSound ==
  ASSUME NEW s, Block(s), NEW text \in Seq(Bytes), Holds(s, Len(text))
  PROVE  Sound(Strings!Put(s, text)) /\ Strings!Put(s, text).len = Len(text)
  <1> DEFINE n == Len(text)
             m == text \o <<Strings!NUL>>
             p == [s EXCEPT !.mem = m, !.len = n]
  <1>1. n \in Nat /\ n < TypeRange[s.type] /\ TypeRange[s.type] \in Nat
    BY Ranges DEF Block, Holds
  <1>2. n % TypeRange[s.type] = n
    BY <1>1, Modulus
  <1>3. Strings!Put(s, text) = p
    BY <1>2 DEF Strings!Put, Strings!sdssetlen, Block
  <1>4. m \in Seq(Bytes) /\ Len(m) = n + 1 /\ m[n + 1] = Strings!NUL
    BY DEF Bytes
  <1> HIDE DEF m
  <1>5. /\ p \in [type : 1 .. Len(TypeRange), len : Nat, alloc : Nat, mem : Seq(Bytes), room : Nat]
        /\ p.len = n /\ p.mem = m /\ p.type = s.type /\ p.alloc = s.alloc /\ p.room = s.room
    BY <1>1, <1>4 DEF Block
  <1> HIDE DEF p
  <1> QED
    BY <1>1, <1>3, <1>4, <1>5 DEF Sound, Block, Holds

LEMMA NewSound ==
  ASSUME NEW t \in Seq(Bytes), Len(t) <= MaxLen
  PROVE  Sound(Strings!sdsnewlen(t)) /\ Strings!sdsnewlen(t).len = Len(t)
  <1> DEFINE n == Len(t)
             ty == IF t = <<>> THEN Strings!SDS_TYPE_8 ELSE Strings!sdsReqType(n)
             s == [type |-> ty, len |-> 0, alloc |-> 0, mem |-> <<>>, room |-> n + 1]
             b == Strings!sdssetalloc(s, n)
  <1>1. n \in Nat /\ n < TypeRange[Len(TypeRange)]
    BY StringsAssumption, Ranges
  <1>2. ty \in 1 .. Len(TypeRange) /\ n < TypeRange[ty]
    BY <1>1, Ranges, RequiredType
  <1> HIDE DEF ty
  <1>3. n % TypeRange[ty] = n
    BY <1>1, <1>2, Ranges, Modulus
  <1>4. b = [type |-> ty, len |-> 0, alloc |-> IF ty = TYPE_5 THEN 0 ELSE n, mem |-> <<>>,
             room |-> n + 1]
    BY <1>3 DEF Strings!sdssetalloc, TYPE_5
  <1>5. Block(b) /\ Holds(b, n)
    <2>1. /\ b.type = ty /\ b.room = n + 1 /\ b.alloc \in Nat /\ (ty # TYPE_5 => b.alloc = n)
          /\ b \in [type : 1 .. Len(TypeRange), len : Nat, alloc : Nat, mem : Seq(Bytes), room : Nat]
      <3> DEFINE al == IF ty = TYPE_5 THEN 0 ELSE n
      <3>1. <<>> \in Seq(Bytes) /\ al \in Nat /\ n + 1 \in Nat /\ (ty # TYPE_5 => al = n)
        BY <1>1
      <3>2. b = [type |-> ty, len |-> 0, alloc |-> al, mem |-> <<>>, room |-> n + 1]
        BY <1>4
      <3> HIDE DEF al, b
      <3> QED
        BY <1>2, <3>1, <3>2
    <2> HIDE DEF b
    <2> QED
      BY <1>1, <1>2, <2>1 DEF Block, Holds
  <1>6. Strings!sdsnewlen(t) = Strings!Put(b, t)
    BY DEF Strings!sdsnewlen, ty
  <1> QED
    BY <1>5, <1>6, PutSound

\* A string is moved to a larger room, or to one that is as small as it can be.
LEMMA MovedSound ==
  ASSUME NEW s, Sound(s), NEW t \in 1 .. Len(TypeRange), NEW n \in Nat, n < TypeRange[t],
         s.len <= n
  PROVE  /\ Sound(Strings!Moved(s, t, n)) /\ Holds(Strings!Moved(s, t, n), n)
         /\ Strings!Moved(s, t, n).len = s.len /\ Strings!Moved(s, t, n).mem = s.mem
  <1> DEFINE m == [type |-> t, len |-> s.len, alloc |-> IF t = TYPE_5 THEN s.alloc ELSE n,
                   mem |-> s.mem, room |-> n + 1]
  <1>1. s.len \in Nat /\ TypeRange[t] \in Nat \ {0}
    BY Ranges DEF Sound, Block
  <1>2. s.len % TypeRange[t] = s.len /\ n % TypeRange[t] = n
    BY <1>1, Modulus
  <1>3. s \in [type : 1 .. Len(TypeRange), len : Nat, alloc : Nat, mem : Seq(Bytes), room : Nat]
    BY DEF Sound, Block
  <1>4. Strings!Moved(s, t, n) = m
    <2> DEFINE a == [s EXCEPT !.type = t, !.room = n + 1]
               b == Strings!sdssetlen(a, s.len)
    <2>1. a = [type |-> t, len |-> s.len, alloc |-> s.alloc, mem |-> s.mem, room |-> n + 1]
      <3>1. s = [type |-> s.type, len |-> s.len, alloc |-> s.alloc, mem |-> s.mem, room |-> s.room]
        BY <1>3
      <3>2. ASSUME NEW ty, NEW l, NEW al, NEW me, NEW ro,
                   s = [type |-> ty, len |-> l, alloc |-> al, mem |-> me, room |-> ro]
            PROVE  a = [type |-> t, len |-> l, alloc |-> al, mem |-> me, room |-> n + 1]
        <4>1. [s EXCEPT !.type = t] = [type |-> t, len |-> l, alloc |-> al, mem |-> me, room |-> ro]
          BY ONLY <3>2
        <4>2. a = [[s EXCEPT !.type = t] EXCEPT !.room = n + 1]
          BY ONLY <3>2
        <4>3. \A v : [[type |-> t, len |-> l, alloc |-> al, mem |-> me, room |-> ro] EXCEPT !.room = v]
                      = [type |-> t, len |-> l, alloc |-> al, mem |-> me, room |-> v]
          BY ONLY TRUE
        <4>4. a = [[type |-> t, len |-> l, alloc |-> al, mem |-> me, room |-> ro] EXCEPT !.room = n + 1]
          BY ONLY <4>1, <4>2
        <4> QED
          BY ONLY <4>3, <4>4
      <3> QED
        BY <3>1, <3>2
    <2> HIDE DEF a
    <2>2. b = a
      BY <1>2, <2>1 DEF Strings!sdssetlen
    <2> HIDE DEF b
    <2>3. Strings!sdssetalloc(b, n) = m
      BY <1>2, <2>1, <2>2 DEF Strings!sdssetalloc, TYPE_5
    <2> QED
      BY <2>3 DEF Strings!Moved, a, b
  <1>5. /\ m \in [type : 1 .. Len(TypeRange), len : Nat, alloc : Nat, mem : Seq(Bytes), room : Nat]
        /\ m.len = s.len /\ m.mem = s.mem /\ m.type = t /\ m.room = n + 1
        /\ m.type # TYPE_5 => m.alloc = n
    BY <1>3
  <1> HIDE DEF m
  <1>6. Holds(m, n) /\ Holds(m, s.len)
    BY <1>1, <1>5 DEF Holds
  <1>7. Sound(m)
    BY <1>1, <1>5, <1>6 DEF Sound, Block
  <1> QED
    BY <1>4, <1>5, <1>6, <1>7

LEMMA RoomMade ==
  ASSUME NEW s, Sound(s), NEW n \in Nat, s.len + n <= Max5
  PROVE  /\ Sound(Strings!sdsMakeRoomFor(s, n)) /\ Holds(Strings!sdsMakeRoomFor(s, n), s.len + n)
         /\ Strings!sdsMakeRoomFor(s, n).len = s.len /\ Strings!sdsMakeRoomFor(s, n).mem = s.mem
  <1>1. /\ s.len \in Nat /\ s.alloc \in Nat /\ s.room \in Nat /\ s.type \in 1 .. Len(TypeRange)
        /\ s.len + 1 <= s.room
        /\ s.len < TypeRange[s.type] /\ TypeRange[s.type] \in Nat
        /\ s.type # TYPE_5 => s.alloc + 1 <= s.room /\ s.alloc < TypeRange[s.type]
    BY Ranges DEF Sound, Block, Holds
  <1>2. CASE Strings!sdsavail(s) >= n
    <2>1. Strings!sdsMakeRoomFor(s, n) = s
      BY <1>2 DEF Strings!sdsMakeRoomFor
    <2>2. CASE s.type = TYPE_5
      <3>1. Strings!sdsavail(s) = 0
        BY <1>1, <2>2 DEF Strings!sdsavail, Strings!sdsalloc, TYPE_5
      <3>2. n = 0 /\ s.len + n = s.len
        BY <1>1, <1>2, <3>1
      <3> QED
        BY <2>1, <3>2 DEF Sound
    <2>3. CASE s.type # TYPE_5
      <3>1. Strings!sdsavail(s) = s.alloc - s.len
        BY <2>3 DEF Strings!sdsavail, Strings!sdsalloc, TYPE_5
      <3>2. s.len + n <= s.alloc
        BY <1>1, <1>2, <3>1
      <3> QED
        BY <1>1, <2>1, <2>3, <3>2, SMTT(30) DEF Holds
    <2> QED
      BY <2>2, <2>3
  <1>3. CASE ~(Strings!sdsavail(s) >= n)
    <2> DEFINE k == Strings!Preallocated(s.len + n)
               r == Strings!sdsReqType(k)
               t == Strings!Max({r, Strings!SDS_TYPE_8})
    <2>1. s.len + n <= k /\ k \in Nat /\ k < TypeRange[Len(TypeRange)]
      <3>1. /\ s.len + n \in Nat /\ s.len + n + SDS_MAX_PREALLOC < TypeRange[Len(TypeRange)]
            /\ TypeRange[Len(TypeRange)] \in Nat /\ SDS_MAX_PREALLOC \in Nat
        <4>1. s.len + n \in Nat /\ s.len + n <= 2 * MaxLen + 1
          BY <1>1 DEF Max5
        <4>2. /\ TypeRange[Len(TypeRange)] \in Nat /\ SDS_MAX_PREALLOC \in Nat /\ MaxLen \in Nat
              /\ 2 * MaxLen + 1 + SDS_MAX_PREALLOC < TypeRange[Len(TypeRange)]
          BY StringsAssumption, Ranges
        <4> QED
          BY ONLY <4>1, <4>2
      <3>2. k = IF s.len + n < SDS_MAX_PREALLOC THEN 2 * (s.len + n) ELSE s.len + n + SDS_MAX_PREALLOC
        BY DEF Strings!Preallocated
      <3> QED
        BY <3>1, <3>2
    <2> HIDE DEF k
    <2>2. r \in 1 .. Len(TypeRange) /\ k < TypeRange[r]
      BY <2>1, RequiredType
    <2> HIDE DEF r
    <2>3. t = IF r = 1 THEN 2 ELSE r
      <3>2. CASE r = 1
        <4>1. \A x : (x \in {r, 2} /\ \A y \in {r, 2} : x >= y) <=> x = 2
          BY <3>2
        <4> QED
          BY <3>2, <4>1, Ranges DEF Strings!Max
      <3>3. CASE r # 1
        <4>1. r >= 2
          BY <2>2, <3>3
        <4>2. \A x : (x \in {r, 2} /\ \A y \in {r, 2} : x >= y) <=> x = r
          BY <2>2, <4>1
        <4> QED
          BY <3>3, <4>2, Ranges DEF Strings!Max
      <3> QED
        BY <3>2, <3>3
    <2>4. t \in 1 .. Len(TypeRange) /\ k < TypeRange[t]
      <3>1. CASE r = 1
        <4>1. t = 2 /\ k < TypeRange[1] /\ TypeRange[1] <= TypeRange[2]
          BY <2>2, <2>3, <3>1, StringsAssumption
        <4> QED
          BY <2>1, <4>1, Ranges
      <3>2. CASE r # 1
        BY <2>2, <2>3, <3>2
      <3> QED
        BY <3>1, <3>2
    <2>5. Strings!sdsMakeRoomFor(s, n) = Strings!Moved(s, t, k)
      BY <1>3 DEF Strings!sdsMakeRoomFor, k, r
    <2> HIDE DEF t
    <2>6. s.len <= k
      BY <1>1, <2>1
    <2>7. /\ Sound(Strings!Moved(s, t, k)) /\ Holds(Strings!Moved(s, t, k), k)
          /\ Strings!Moved(s, t, k).len = s.len /\ Strings!Moved(s, t, k).mem = s.mem
      BY <2>1, <2>4, <2>6, MovedSound
    <2>8. Block(Strings!Moved(s, t, k)) /\ s.len + n <= k
      BY <1>1, <2>1, <2>7 DEF Sound
    <2>9. Holds(Strings!Moved(s, t, k), s.len + n)
      <3>1. PICK m, j : m = Strings!Moved(s, t, k) /\ j = s.len + n
        OBVIOUS
      <3>2. /\ Block(m) /\ Holds(m, k) /\ j <= k /\ j \in Nat /\ k \in Nat
        BY <1>1, <2>1, <2>7, <2>8, <3>1
      <3> QED
        BY ONLY <3>1, <3>2, HoldsLess
    <2> QED
      BY <2>5, <2>7, <2>9
  <1> QED
    BY <1>2, <1>3

\* The bytes of a string, and any part of them.
LEMMA TextOf ==
  ASSUME NEW s, Sound(s)
  PROVE  /\ Strings!Text(s) \in Seq(Bytes) /\ Len(Strings!Text(s)) = s.len
         /\ s.mem \in Seq(Bytes) /\ s.len \in Nat /\ Len(s.mem) = s.len + 1
         /\ Block(s) /\ Holds(s, s.len)
  <1>1. s.mem \in Seq(Bytes) /\ s.len \in Nat /\ Len(s.mem) = s.len + 1
    BY DEF Sound, Block
  <1>2. SubSeq(s.mem, 1, s.len) \in Seq(Bytes) /\ Len(SubSeq(s.mem, 1, s.len)) = s.len
    BY <1>1
  <1> QED
    BY <1>1, <1>2 DEF Strings!Text, Sound

\* The string is given a text that its memory holds and that is no longer than n.
LEMMA PutShort ==
  ASSUME NEW s, Sound(s), NEW n \in Nat, Holds(s, n), NEW text \in Seq(Bytes), Len(text) <= n
  PROVE  Sound(Strings!Put(s, text)) /\ Strings!Put(s, text).len = Len(text)
  <1>1. Block(s)
    BY DEF Sound
  <1>2. Holds(s, Len(text))
    BY <1>1, HoldsLess
  <1> QED
    BY <1>1, <1>2, PutSound

-----------------------------------------------------------------------------
(* The calls                                                                *)

LEMMA Longer ==
  ASSUME NEW s, Sound(s), NEW t \in Seq(Bytes)
  PROVE  Strings!Text(s) \o t \in Seq(Bytes) /\ Len(Strings!Text(s) \o t) = s.len + Len(t)
  <1> DEFINE u == Strings!Text(s)
  <1>1. u \in Seq(Bytes) /\ Len(u) = s.len
    BY TextOf
  <1> HIDE DEF u
  <1>2. u \o t \in Seq(Bytes) /\ Len(u \o t) = Len(u) + Len(t)
    BY <1>1
  <1> QED
    BY <1>1, <1>2 DEF u

\* Room is made for n more bytes, and t, which is no longer, is put there.
LEMMA Grown ==
  ASSUME NEW s, Sound(s), NEW n \in Nat, s.len + n <= Max5, NEW t \in Seq(Bytes), Len(t) <= n
  PROVE  /\ Sound(Strings!Put(Strings!sdsMakeRoomFor(s, n), Strings!Text(s) \o t))
         /\ Strings!Put(Strings!sdsMakeRoomFor(s, n), Strings!Text(s) \o t).len = s.len + Len(t)
  <1> DEFINE r == Strings!sdsMakeRoomFor(s, n)
             u == Strings!Text(s) \o t
  <1>1. Sound(r) /\ Holds(r, s.len + n)
    BY RoomMade
  <1>2. u \in Seq(Bytes) /\ Len(u) = s.len + Len(t) /\ s.len \in Nat
    BY Longer, TextOf
  <1>3. s.len + n \in Nat /\ Len(u) <= s.len + n
    BY <1>2
  <1> HIDE DEF r, u
  <1> QED
    BY <1>1, <1>2, <1>3, PutShort DEF r, u

LEMMA CatPieceSound ==
  ASSUME NEW s, Sound(s), NEW t \in Seq(Bytes), s.len + Len(t) <= MaxLen
  PROVE  /\ Sound(Strings!CatPiece(s, t)) /\ Strings!CatPiece(s, t).len = s.len + Len(t)
  <1> DEFINE one == IF Strings!sdsavail(s) = 0 THEN Strings!sdsMakeRoomFor(s, 1) ELSE s
             all == IF Strings!sdsavail(one) < Len(t) THEN Strings!sdsMakeRoomFor(one, Len(t)) ELSE one
             u == Strings!Text(s) \o t
  <1>1. s.len \in Nat /\ Len(t) \in Nat /\ s.len + 1 <= Max5 /\ s.len + Len(t) <= Max5
    BY TextOf, StringsAssumption, SMTT(30) DEF Max5
  <1>2. Sound(one) /\ one.len = s.len /\ one.mem = s.mem
    <2>1. CASE Strings!sdsavail(s) = 0
      <3>1. 1 \in Nat
        OBVIOUS
      <3> QED
        BY <1>1, <2>1, <3>1, RoomMade
    <2> QED
      BY <2>1
  <1> HIDE DEF one
  <1> DEFINE Ready == Sound(all) /\ Holds(all, s.len + Len(t))
  <1>3. ASSUME Strings!sdsavail(one) < Len(t) PROVE Ready
    <2>1. /\ Sound(Strings!sdsMakeRoomFor(one, Len(t)))
          /\ Holds(Strings!sdsMakeRoomFor(one, Len(t)), one.len + Len(t))
      BY <1>1, <1>2, RoomMade
    <2> QED
      BY <1>2, <1>3, <2>1
  <1>4. ASSUME ~(Strings!sdsavail(one) < Len(t)) PROVE Ready
    <2>1. Holds(one, s.len + Len(t))
      <3>1. /\ one.alloc \in Nat /\ one.room \in Nat /\ TypeRange[one.type] \in Nat
            /\ one.type # TYPE_5 => one.alloc + 1 <= one.room /\ one.alloc < TypeRange[one.type]
        BY <1>2, Ranges DEF Sound, Block
      <3>2. CASE one.type = TYPE_5
        <4>1. Strings!sdsavail(one) = 0
          BY <1>1, <1>2, <3>2 DEF Strings!sdsavail, Strings!sdsalloc, TYPE_5
        <4>2. s.len + Len(t) = one.len
          BY <1>1, <1>2, <1>4, <4>1
        <4> QED
          BY <1>2, <4>2 DEF Sound
      <3>3. CASE one.type # TYPE_5
        <4>1. Strings!sdsavail(one) = one.alloc - s.len
          BY <1>2, <3>3 DEF Strings!sdsavail, Strings!sdsalloc, TYPE_5
        <4>2. s.len + Len(t) <= one.alloc
          BY <1>1, <1>4, <3>1, <4>1
        <4> QED
          BY <1>1, <3>1, <3>3, <4>2 DEF Holds
      <3> QED
        BY <3>2, <3>3
    <2> QED
      BY <1>2, <1>4, <2>1
  <1>5. Ready
    BY <1>3, <1>4
  <1>6. u \in Seq(Bytes) /\ Len(u) = s.len + Len(t) /\ s.len + Len(t) \in Nat
    BY <1>1, Longer
  <1>7. Strings!CatPiece(s, t) = Strings!Put(all, u)
    BY DEF Strings!CatPiece, one
  <1> HIDE DEF all, u
  <1>8. Len(u) <= s.len + Len(t)
    BY <1>1, <1>6
  <1> QED
    BY <1>5, <1>6, <1>7, <1>8, PutShort

\* A part of the string is all that is left of it.
LEMMA CutSound ==
  ASSUME NEW s, Sound(s), NEW i \in Nat \ {0}, NEW j \in 0 .. s.len
  PROVE  /\ Sound(Strings!Put(s, SubSeq(s.mem, i, j)))
         /\ Strings!Put(s, SubSeq(s.mem, i, j)).len <= s.len
  <1>1. s.mem \in Seq(Bytes) /\ s.len \in Nat /\ Len(s.mem) = s.len + 1 /\ Holds(s, s.len)
    BY TextOf
  <1> DEFINE u == SubSeq(s.mem, i, j)
  <1>2. u \in Seq(Bytes) /\ Len(u) <= s.len
    <2>1. CASE i <= j
      <3>1. u \in Seq(Bytes) /\ Len(u) = j - i + 1
        BY <1>1, <2>1
      <3> QED
        BY <1>1, <2>1, <3>1
    <2>2. CASE ~(i <= j)
      <3>1. u = <<>>
        BY <1>1, <2>2
      <3> QED
        BY <1>1, <3>1
    <2> QED
      BY <2>1, <2>2
  <1> HIDE DEF u
  <1> QED
    BY <1>1, <1>2, PutShort DEF u

LEMMA EmptySound ==
  ASSUME NEW s, Sound(s)
  PROVE  Sound(Strings!Put(s, <<>>)) /\ Strings!Put(s, <<>>).len = 0
  <1>1. s.len \in Nat /\ Holds(s, s.len) /\ <<>> \in Seq(Bytes) /\ Len(<<>>) = 0 /\ 0 <= s.len
    BY TextOf
  <1> QED
    BY <1>1, PutShort

LEMMA TextsAre ==
  ASSUME NEW n \in Nat, NEW t \in Strings!Texts(n)
  PROVE  t \in Seq(Bytes) /\ Len(t) \in 0 .. n
  <1>1. PICK k \in 0 .. n : t \in [1 .. k -> Chars]
    BY DEF Strings!Texts
  <1>2. t \in Seq(Chars) /\ Len(t) = k
    BY <1>1
  <1>3. t \in Seq(Bytes)
    BY <1>2 DEF Bytes
  <1> QED
    BY <1>2, <1>3

LEMMA GrowKeeps ==
  ASSUME Sound(str), str.len <= MaxLen, Strings!Grow
  PROVE  Sound(str') /\ str'.len <= MaxLen
  <1>1. str.len \in Nat /\ MaxLen \in Nat /\ MaxLen - str.len \in Nat
    BY TextOf, StringsAssumption
  <1>2. PICK t \in Strings!Texts(MaxLen - str.len) :
             \/ str' = Strings!sdscatlen(str, t)
             \/ str' = Strings!sdsgrowzero(str, str.len + Len(t))
             \/ \E n \in Len(t) .. MaxLen : n > 0 /\ str' = Strings!ReadInto(str, n, t)
             \/ \E k \in DOMAIN t :
                   str' = Strings!sdscatfmt(str, SubSeq(t, 1, k), SubSeq(t, k + 1, Len(t)))
    BY DEF Strings!Grow
  <1>3. t \in Seq(Bytes) /\ Len(t) \in Nat /\ str.len + Len(t) <= MaxLen
    BY <1>1, TextsAre
  <1>4. ASSUME NEW n \in Nat, n <= MaxLen PROVE str.len + n <= Max5
    BY <1>1, <1>4 DEF Max5
  <1>5. Len(t) <= MaxLen
    BY <1>1, <1>3
  <1>6. CASE str' = Strings!sdscatlen(str, t)
    BY <1>3, <1>4, <1>5, <1>6, Grown DEF Strings!sdscatlen
  <1>7. CASE str' = Strings!sdsgrowzero(str, str.len + Len(t))
    <2>1. CASE Len(t) = 0
      BY <1>1, <1>7, <2>1 DEF Strings!sdsgrowzero
    <2>2. CASE Len(t) # 0
      <3> DEFINE n == (str.len + Len(t)) - str.len
                 z == [i \in 1 .. n |-> Strings!NUL]
      <3>1. n = Len(t) /\ ~(str.len + Len(t) <= str.len)
        BY <1>1, <1>3, <2>2
      <3>2. z \in Seq(Bytes) /\ Len(z) = Len(t)
        BY <1>3, <3>1 DEF Bytes
      <3>3. str' = Strings!Put(Strings!sdsMakeRoomFor(str, n), Strings!Text(str) \o z)
        BY <1>7, <3>1 DEF Strings!sdsgrowzero
      <3> HIDE DEF z, n
      <3>4. str' = Strings!Put(Strings!sdsMakeRoomFor(str, Len(t)), Strings!Text(str) \o z)
        BY <3>1, <3>3
      <3>5. Len(z) <= Len(t)
        BY <1>3, <3>2
      <3> QED
        BY <1>3, <1>4, <1>5, <3>2, <3>4, <3>5, Grown
    <2> QED
      BY <2>1, <2>2
  <1>8. ASSUME NEW n \in Len(t) .. MaxLen, str' = Strings!ReadInto(str, n, t)
        PROVE  Sound(str') /\ str'.len <= MaxLen
    <2>1. n \in Nat /\ Len(t) <= n /\ n <= MaxLen
      BY <1>1, <1>3
    <2> QED
      BY <1>3, <1>4, <1>8, <2>1, Grown DEF Strings!ReadInto
  <1>9. ASSUME NEW k \in DOMAIN t,
               str' = Strings!sdscatfmt(str, SubSeq(t, 1, k), SubSeq(t, k + 1, Len(t)))
        PROVE  Sound(str') /\ str'.len <= MaxLen
    <2> DEFINE u == SubSeq(t, 1, k)
               v == SubSeq(t, k + 1, Len(t))
               c == Strings!CatPiece(str, u)
    <2>1. u \in Seq(Bytes) /\ v \in Seq(Bytes) /\ Len(u) = k /\ Len(v) = Len(t) - k /\ k \in 1 .. Len(t)
      BY <1>3
    <2>2. str' = Strings!CatPiece(c, v)
      BY <1>9 DEF Strings!sdscatfmt
    <2> HIDE DEF u, v
    <2>3. str.len + Len(u) <= MaxLen
      BY <1>1, <1>3, <2>1
    <2>4. Sound(c) /\ c.len = str.len + Len(u)
      BY <2>1, <2>3, CatPieceSound
    <2> HIDE DEF c
    <2>5. c.len + Len(v) <= MaxLen
      BY <1>1, <1>3, <2>1, <2>4
    <2>6. Sound(Strings!CatPiece(c, v)) /\ Strings!CatPiece(c, v).len = c.len + Len(v)
      BY <2>1, <2>4, <2>5, CatPieceSound
    <2> QED
      BY <2>2, <2>5, <2>6
  <1> QED
    BY <1>2, <1>6, <1>7, <1>8, <1>9

LEMMA CopyKeeps ==
  ASSUME NEW s, Sound(s), s.len <= MaxLen, NEW t \in Seq(Bytes), Len(t) <= MaxLen
  PROVE  Sound(Strings!sdscpylen(s, t)) /\ Strings!sdscpylen(s, t).len = Len(t)
  <1>1. s.len \in Nat /\ Len(t) \in Nat /\ MaxLen \in Nat /\ Block(s) /\ Holds(s, s.len)
    BY TextOf, StringsAssumption
  <1>2. CASE Strings!sdsalloc(s) < Len(t)
    <2> DEFINE n == Len(t) - s.len
    <2>1. s.len <= Strings!sdsalloc(s) /\ Strings!sdsalloc(s) \in Nat
      BY <1>1 DEF Strings!sdsalloc, Holds, Block, TYPE_5
    <2>2. n \in Nat /\ s.len + n = Len(t) /\ s.len + n <= Max5
      BY <1>1, <1>2, <2>1 DEF Max5
    <2> HIDE DEF n
    <2>3. /\ Sound(Strings!sdsMakeRoomFor(s, n)) /\ Holds(Strings!sdsMakeRoomFor(s, n), s.len + n)
      BY <2>2, RoomMade
    <2>4. Strings!sdscpylen(s, t) = Strings!Put(Strings!sdsMakeRoomFor(s, n), t)
      BY <1>2 DEF Strings!sdscpylen, n
    <2>5. Block(Strings!sdsMakeRoomFor(s, n)) /\ Holds(Strings!sdsMakeRoomFor(s, n), Len(t))
      BY <2>2, <2>3 DEF Sound
    <2> QED
      BY <2>4, <2>5, PutSound
  <1>3. CASE ~(Strings!sdsalloc(s) < Len(t))
    <2>1. Strings!sdscpylen(s, t) = Strings!Put(s, t)
      BY <1>3 DEF Strings!sdscpylen
    <2>2. Holds(s, Len(t))
      <3>1. CASE s.type = TYPE_5
        <4>1. Strings!sdsalloc(s) = s.len
          BY <3>1 DEF Strings!sdsalloc, TYPE_5
        <4>2. Len(t) <= s.len
          BY <1>1, <1>3, <4>1
        <4> QED
          BY <1>1, <4>2, HoldsLess
      <3>2. CASE s.type # TYPE_5
        <4>1. Strings!sdsalloc(s) = s.alloc /\ s.alloc \in Nat /\ s.room \in Nat
          BY <1>1, <3>2 DEF Strings!sdsalloc, TYPE_5, Block
        <4>2. /\ s.alloc + 1 <= s.room /\ s.alloc < TypeRange[s.type] /\ Len(t) <= s.alloc
              /\ TypeRange[s.type] \in Nat
          BY <1>1, <1>3, <3>2, <4>1, Ranges DEF Block
        <4> QED
          BY <1>1, <4>1, <4>2 DEF Holds
      <3> QED
        BY <3>1, <3>2
    <2> QED
      BY <1>1, <2>1, <2>2, PutSound
  <1> QED
    BY <1>2, <1>3

\* All but the characters at its ends are kept: where they are.
LEMMA Ends ==
  ASSUME NEW n \in Nat, NEW T \in SUBSET (1 .. n), T # {}
  PROVE  /\ Strings!Min(T) \in T /\ Strings!Max(T) \in T
         /\ \A x \in T : Strings!Min(T) <= x /\ x <= Strings!Max(T)
  <1>1. T \in SUBSET Nat /\ T \in SUBSET (0 .. n)
    OBVIOUS
  <1>2. \E x \in T : \A y \in T : x <= y
    BY <1>1, LeastOf
  <1>3. \E x \in T : \A y \in T : x >= y
    BY <1>1, GreatestOf
  <1>4. Strings!Min(T) \in T /\ \A x \in T : Strings!Min(T) <= x
    BY <1>2 DEF Strings!Min
  <1>5. Strings!Max(T) \in T /\ \A x \in T : Strings!Max(T) >= x
    BY <1>3 DEF Strings!Max
  <1>6. \A x \in T : Strings!Max(T) >= x => x <= Strings!Max(T)
    BY <1>5
  <1> QED
    BY <1>4, <1>5, <1>6

LEMMA RangeKeeps ==
  ASSUME NEW s, Sound(s), NEW start \in Int, NEW end \in Int
  PROVE  /\ Sound(Strings!sdsrange(s, start, end))
         /\ Strings!sdsrange(s, start, end).len <= s.len
  <1>1. s.len \in Nat /\ Block(s) /\ Holds(s, s.len)
    BY TextOf
  <1> DEFINE a == Strings!FromStart(start, s.len)
             b == Strings!FromStart(end, s.len)
             newlen == IF a > b \/ a >= s.len THEN 0 ELSE Strings!Min({b, s.len - 1}) - a + 1
  <1>2. ASSUME NEW i \in Int PROVE Strings!FromStart(i, s.len) \in Nat
    <2>1. CASE i < 0
      <3>1. Strings!FromStart(i, s.len) = Strings!Max({s.len + i, 0})
        BY <2>1 DEF Strings!FromStart
      <3>2. \E x \in {s.len + i, 0} : \A y \in {s.len + i, 0} : x >= y
        BY <1>1
      <3>3. /\ Strings!Max({s.len + i, 0}) \in {s.len + i, 0}
            /\ Strings!Max({s.len + i, 0}) >= 0
        BY <3>2 DEF Strings!Max
      <3> QED
        BY <1>1, <3>1, <3>3
    <2>2. CASE ~(i < 0)
      BY <2>2 DEF Strings!FromStart
    <2> QED
      BY <2>1, <2>2
  <1>3. a \in Nat /\ b \in Nat
    BY <1>2
  <1>4. CASE s.len = 0
    BY <1>1, <1>4 DEF Strings!sdsrange
  <1>5. CASE s.len # 0
    <2>1. Strings!sdsrange(s, start, end) = Strings!Put(s, SubSeq(s.mem, a + 1, a + newlen))
      BY <1>5 DEF Strings!sdsrange
    <2> HIDE DEF a, b
    <2>2. CASE a > b \/ a >= s.len
      <3>1. SubSeq(s.mem, a + 1, a + newlen) = <<>>
        <4>1. newlen = 0
          BY <2>2
        <4>2. SubSeq(s.mem, a + 1, a + 0) = <<>>
          BY <1>3, TextOf
        <4> HIDE DEF newlen
        <4> QED
          BY <4>1, <4>2
      <3> HIDE DEF newlen
      <3>2. Strings!sdsrange(s, start, end) = Strings!Put(s, <<>>)
        BY <2>1, <3>1
      <3>3. Sound(Strings!Put(s, <<>>)) /\ Strings!Put(s, <<>>).len = 0
        BY <1>1, EmptySound
      <3> QED
        BY <1>1, <3>2, <3>3
    <2>3. CASE ~(a > b \/ a >= s.len)
      <3>1. Strings!Min({b, s.len - 1}) \in {b, s.len - 1} /\ Strings!Min({b, s.len - 1}) <= s.len - 1
        <4>1. \E x \in {b, s.len - 1} : \A y \in {b, s.len - 1} : x <= y
          BY <1>1, <1>3
        <4> QED
          BY <4>1 DEF Strings!Min
      <3>2. a + newlen \in 0 .. s.len /\ a + 1 \in Nat \ {0}
        BY <1>1, <1>3, <2>3, <3>1
      <3> HIDE DEF newlen
      <3> QED
        BY <2>1, <3>2, CutSound
    <2> QED
      BY <2>2, <2>3
  <1> QED
    BY <1>4, <1>5

LEMMA ChangeKeeps ==
  ASSUME Sound(str), str.len <= MaxLen, Strings!Change
  PROVE  Sound(str') /\ str'.len <= MaxLen
  <1>1. /\ str.len \in Nat /\ MaxLen \in Nat /\ str.mem \in Seq(Bytes) /\ Len(str.mem) = str.len + 1
        /\ Block(str) /\ Holds(str, str.len)
    BY TextOf, StringsAssumption
  <1>2. ASSUME NEW s, Sound(s), s.len <= str.len PROVE Sound(s) /\ s.len <= MaxLen
    <2>1. s.len \in Nat
      BY <1>2, TextOf
    <2> QED
      BY <1>1, <1>2, <2>1
  <1>3. ASSUME NEW t \in Strings!Texts(MaxLen), str' = Strings!sdscpylen(str, t)
        PROVE  Sound(str') /\ str'.len <= MaxLen
    <2>1. t \in Seq(Bytes) /\ Len(t) <= MaxLen
      BY <1>1, TextsAre
    <2> QED
      BY <1>3, <2>1, CopyKeeps
  <1>4. ASSUME NEW k \in 1 .. str.len, str' = Strings!sdsIncrLen(str, -k)
        PROVE  Sound(str') /\ str'.len <= MaxLen
    <2>1. str.len + (-k) \in 0 .. str.len /\ 1 \in Nat \ {0}
      BY <1>1
    <2>2. str' = Strings!Put(str, SubSeq(str.mem, 1, str.len + (-k)))
      BY <1>4 DEF Strings!sdsIncrLen
    <2> QED
      BY <1>2, <2>1, <2>2, CutSound
  <1>5. ASSUME str' = Strings!sdsRemoveFreeSpace(str)
        PROVE  Sound(str') /\ str'.len <= MaxLen
    <2>1. str.len < TypeRange[Len(TypeRange)]
      BY <1>1, StringsAssumption, Ranges
    <2>2. /\ Strings!sdsReqType(str.len) \in 1 .. Len(TypeRange)
          /\ str.len < TypeRange[Strings!sdsReqType(str.len)]
      BY <1>1, <2>1, RequiredType
    <2>3. str' = Strings!Moved(str, Strings!sdsReqType(str.len), str.len) /\ str.len <= str.len
      BY <1>1, <1>5 DEF Strings!sdsRemoveFreeSpace
    <2> QED
      BY <1>1, <2>2, <2>3, MovedSound
  <1>6. ASSUME str' = Strings!sdsclear(str)
        PROVE  Sound(str') /\ str'.len <= MaxLen
    BY <1>1, <1>6, EmptySound DEF Strings!sdsclear
  <1>7. ASSUME str' = Strings!sdsupdatelen(str)
        PROVE  Sound(str') /\ str'.len <= MaxLen
    <2> DEFINE I == {i \in 1 .. Len(str.mem) : str.mem[i] = Strings!NUL}
    <2>1. str.len + 1 \in I /\ I \in SUBSET (1 .. str.len + 1) /\ I # {}
      BY <1>1 DEF Sound
    <2>2. Strings!Min(I) \in I /\ Strings!Min(I) \in 1 .. str.len + 1
      <3>1. str.len + 1 \in Nat
        BY <1>1 DEF Sound
      <3> DEFINE n == str.len + 1
      <3> HIDE DEF n, I
      <3>2. I \in SUBSET (1 .. n) /\ I # {} /\ n \in Nat
        BY <2>1, <3>1 DEF n
      <3>3. Strings!Min(I) \in I
        BY <3>2, Ends
      <3> QED
        BY <2>1, <3>3
    <2>3. str' = Strings!Put(str, SubSeq(str.mem, 1, Strings!Min(I) - 1))
      BY <1>7, <2>1 DEF Strings!sdsupdatelen, Strings!SelectInSeq
    <2>4. Strings!Min(I) - 1 \in 0 .. str.len /\ 1 \in Nat \ {0}
      BY <1>1, <2>2
    <2> HIDE DEF I
    <2> QED
      BY <1>2, <2>3, <2>4, CutSound
  <1>8. ASSUME NEW cset \in SUBSET Chars, str' = Strings!sdstrim(str, cset)
        PROVE  Sound(str') /\ str'.len <= MaxLen
    <2> DEFINE kept == {i \in 1 .. str.len : str.mem[i] \notin cset \cup {Strings!NUL}}
    <2>1. str' = Strings!Put(str, IF kept = {} THEN <<>>
                                  ELSE SubSeq(str.mem, Strings!Min(kept), Strings!Max(kept)))
      BY <1>8 DEF Strings!sdstrim
    <2>2. kept \in SUBSET (1 .. str.len)
      OBVIOUS
    <2> HIDE DEF kept
    <2>3. CASE kept = {}
      BY <1>1, <2>1, <2>3, EmptySound
    <2>4. CASE kept # {}
      <3>1. Strings!Min(kept) \in 1 .. str.len /\ Strings!Max(kept) \in 1 .. str.len
        BY <1>1, <2>2, <2>4, Ends
      <3>2. Strings!Min(kept) \in Nat \ {0} /\ Strings!Max(kept) \in 0 .. str.len
        BY <1>1, <3>1
      <3>3. str' = Strings!Put(str, SubSeq(str.mem, Strings!Min(kept), Strings!Max(kept)))
        BY <2>1, <2>4
      <3> QED
        BY <1>2, <3>2, <3>3, CutSound
    <2> QED
      BY <2>3, <2>4
  <1>9. ASSUME NEW i \in Strings!Indices, NEW j \in Strings!Indices,
               str' = Strings!sdsrange(str, i, j)
        PROVE  Sound(str') /\ str'.len <= MaxLen
    <2>1. i \in Int /\ j \in Int
      BY <1>1 DEF Strings!Indices
    <2>2. /\ Sound(Strings!sdsrange(str, i, j))
          /\ Strings!sdsrange(str, i, j).len <= str.len
      BY <2>1, RangeKeeps
    <2> QED
      BY <1>2, <1>9, <2>2
  <1> QED
    BY <1>3, <1>4, <1>5, <1>6, <1>7, <1>8, <1>9 DEF Strings!Change

LEMMA StringsStart ==
  ASSUME Strings!Init
  PROVE  StringInv
  <1>1. PICK t \in Strings!Texts(MaxLen) : str = Strings!sdsnewlen(t)
    BY DEF Strings!Init
  <1>2. t \in Seq(Bytes) /\ Len(t) <= MaxLen
    BY TextsAre, StringsAssumption
  <1> QED
    BY <1>1, <1>2, NewSound DEF StringInv

LEMMA StringsKeep ==
  ASSUME StringInv, Strings!Next
  PROVE  StringInv'
  <1>1. CASE Strings!Renew
    <2>1. PICK t \in Strings!Texts(MaxLen) : str' = Strings!sdsnewlen(t)
      BY <1>1 DEF Strings!Renew
    <2>2. t \in Seq(Bytes) /\ Len(t) <= MaxLen
      BY TextsAre, StringsAssumption
    <2>3. Sound(str') /\ str'.len <= MaxLen
      BY <2>1, <2>2, NewSound
    <2> QED
      BY <2>3 DEF StringInv, Sound, Block, Holds
  <1>2. CASE Strings!sdsfree
    <2> DEFINE e == Strings!sdsnewlen(<<>>)
    <2>1. <<>> \in Seq(Bytes) /\ Len(<<>>) = 0 /\ 0 <= MaxLen
      BY StringsAssumption
    <2>2. Sound(e) /\ e.len = 0
      BY <2>1, NewSound
    <2>3. e \in [type : 1 .. Len(TypeRange), len : Nat, alloc : Nat, mem : Seq(Bytes), room : Nat]
      BY <2>2 DEF Sound, Block
    <2>4. str' = [e EXCEPT !.mem = <<>>, !.room = 0]
      BY <1>2 DEF Strings!sdsfree, Strings!Freed
    <2> HIDE DEF e
    <2>5. str'.mem = <<>> /\ str'.len = 0
      BY <2>2, <2>3, <2>4
    <2> QED
      BY <2>5 DEF StringInv
  <1>3. CASE Strings!alive /\ (Strings!Grow \/ Strings!Change)
    <2>1. Sound(str) /\ str.len <= MaxLen
      BY <1>3 DEF StringInv, Strings!alive
    <2>2. Sound(str') /\ str'.len <= MaxLen
      BY <1>3, <2>1, GrowKeeps, ChangeKeeps
    <2> QED
      BY <2>2 DEF StringInv, Sound, Block, Holds
  <1> QED
    BY <1>1, <1>2, <1>3 DEF Strings!Next

LEMMA StringsFit ==
  ASSUME StringInv
  PROVE  Strings!StringFits
  <1> SUFFICES ASSUME Strings!alive
               PROVE  /\ Len(str.mem) = str.len + 1 /\ Strings!Last(str.mem) = Strings!NUL
                      /\ str.len <= Strings!sdsalloc(str) /\ Strings!sdsalloc(str) + 1 <= str.room
    BY DEF Strings!StringFits
  <1>1. Sound(str)
    BY DEF StringInv, Strings!alive
  <1>2. Len(str.mem) = str.len + 1 /\ Strings!Last(str.mem) = Strings!NUL
    BY <1>1 DEF Sound, Strings!Last
  <1>3. str.len \in Nat /\ Block(str) /\ Holds(str, str.len)
    BY <1>1, TextOf
  <1> QED
    BY <1>2, <1>3 DEF Block, Holds, Strings!sdsalloc, TYPE_5

-----------------------------------------------------------------------------
(* What is left of a string                                                  *)

LEMMA TextPut ==
  ASSUME NEW s, Sound(s), NEW u \in Seq(Bytes), Holds(s, Len(u))
  PROVE  Strings!Text(Strings!Put(s, u)) = u
  <1> DEFINE n == Len(u)
             m == u \o <<Strings!NUL>>
  <1>1. n \in Nat /\ n < TypeRange[s.type] /\ TypeRange[s.type] \in Nat \ {0} /\ Block(s)
    BY Ranges DEF Sound, Block, Holds
  <1>2. n % TypeRange[s.type] = n
    BY <1>1, Modulus
  <1>3. Strings!Put(s, u).mem = m /\ Strings!Put(s, u).len = n
    BY <1>1, <1>2 DEF Strings!Put, Strings!sdssetlen, Block
  <1>4. SubSeq(m, 1, n) = u
    BY <1>1
  <1> QED
    BY <1>3, <1>4 DEF Strings!Text

LEMMA RangesKept ==
  ASSUME StringInv
  PROVE  Strings!RangesInclusive
  <1> DEFINE n == str.len
  <1> SUFFICES ASSUME Strings!alive, NEW start \in Strings!Indices, NEW end \in -n .. MaxLen + 1
               PROVE  LET kept == {i \in 1 .. n : /\ Strings!AtOrAfter(i - 1, start, n)
                                                  /\ Strings!AtOrBefore(i - 1, end, n)}
                      IN  Strings!Text(Strings!sdsrange(str, start, end)) =
                            IF kept = {} THEN <<>>
                            ELSE SubSeq(str.mem, Strings!Min(kept), Strings!Max(kept))
    BY DEF Strings!RangesInclusive
  <1> DEFINE kept == {i \in 1 .. n : /\ Strings!AtOrAfter(i - 1, start, n)
                                     /\ Strings!AtOrBefore(i - 1, end, n)}
             a == Strings!FromStart(start, n)
             b == Strings!FromStart(end, n)
             newlen == IF a > b \/ a >= n THEN 0 ELSE Strings!Min({b, n - 1}) - a + 1
  <1>1. Sound(str) /\ n \in Nat /\ MaxLen \in Nat /\ str.mem \in Seq(Bytes) /\ Len(str.mem) = n + 1
        /\ Holds(str, n) /\ Block(str)
    BY TextOf, StringsAssumption DEF StringInv, Strings!alive
  <1>2. start \in Int /\ end \in Int /\ (end < 0 => n + end >= 0)
    BY <1>1 DEF Strings!Indices
  <1> HIDE DEF n
  <1>3. a \in Nat /\ \A i \in 0 .. n : Strings!AtOrAfter(i, start, n) <=> i >= a
    <2>1. CASE start < 0
      <3>1. \E x \in {n + start, 0} : \A y \in {n + start, 0} : x >= y
        BY <1>1, <1>2
      <3>2. /\ Strings!Max({n + start, 0}) \in {n + start, 0} /\ Strings!Max({n + start, 0}) >= 0
            /\ Strings!Max({n + start, 0}) >= n + start
        BY <3>1 DEF Strings!Max
      <3>3. a = Strings!Max({n + start, 0})
        BY <2>1 DEF Strings!FromStart
      <3>4. a \in {n + start, 0} /\ a >= 0 /\ a >= n + start
        BY <3>2, <3>3
      <3> HIDE DEF a
      <3>5. ASSUME NEW i \in 0 .. n PROVE Strings!AtOrAfter(i, start, n) <=> i >= a
        <4>1. Strings!AtOrAfter(i, start, n) <=> i - n >= start
          BY <2>1 DEF Strings!AtOrAfter
        <4> QED
          BY <1>1, <1>2, <3>4, <4>1
      <3> QED
        BY <1>1, <1>2, <3>4, <3>5
    <2>2. CASE ~(start < 0)
      BY <1>2, <2>2 DEF Strings!FromStart, Strings!AtOrAfter
    <2> QED
      BY <2>1, <2>2
  <1>4. b \in Nat /\ \A i \in 0 .. n : Strings!AtOrBefore(i, end, n) <=> i <= b
    <2>1. CASE end < 0
      <3>1. \E x \in {n + end, 0} : \A y \in {n + end, 0} : x >= y
        BY <1>1, <1>2
      <3>2. /\ Strings!Max({n + end, 0}) \in {n + end, 0} /\ Strings!Max({n + end, 0}) >= 0
            /\ Strings!Max({n + end, 0}) >= n + end
        BY <3>1 DEF Strings!Max
      <3>3. b = Strings!Max({n + end, 0})
        BY <2>1 DEF Strings!FromStart
      <3>4. b = n + end
        BY <1>1, <1>2, <2>1, <3>2, <3>3
      <3> HIDE DEF b
      <3>5. ASSUME NEW i \in 0 .. n PROVE Strings!AtOrBefore(i, end, n) <=> i <= b
        <4>1. Strings!AtOrBefore(i, end, n) <=> i - n <= end
          BY <2>1 DEF Strings!AtOrBefore
        <4> QED
          BY <1>1, <1>2, <3>4, <4>1
      <3> QED
        BY <1>1, <1>2, <2>1, <3>4, <3>5
    <2>2. CASE ~(end < 0)
      BY <1>2, <2>2 DEF Strings!FromStart, Strings!AtOrBefore
    <2> QED
      BY <2>1, <2>2
  <1> HIDE DEF a, b
  <1>5. kept = {i \in 1 .. n : i >= a + 1 /\ i <= b + 1}
    <2>1. \A i \in 1 .. n : i - 1 \in 0 .. n /\ (i - 1 >= a <=> i >= a + 1) /\ (i - 1 <= b <=> i <= b + 1)
      BY <1>1, <1>3, <1>4
    <2> QED
      BY <1>3, <1>4, <2>1
  <1> HIDE DEF kept
  <1>6. CASE n = 0
    <2>1. kept = {}
      BY <1>5, <1>6
    <2>2. Strings!sdsrange(str, start, end) = str
      BY <1>6 DEF Strings!sdsrange, n
    <2>3. Strings!Text(str) = <<>>
      <3>1. SubSeq(str.mem, 1, 0) = <<>>
        BY <1>1
      <3> QED
        BY <1>6, <3>1 DEF Strings!Text, n
    <2> QED
      BY <2>1, <2>2, <2>3 DEF kept
  <1>7. CASE n # 0
    <2>1. Strings!sdsrange(str, start, end) = Strings!Put(str, SubSeq(str.mem, a + 1, a + newlen))
      BY <1>7 DEF Strings!sdsrange, n, a, b
    <2>2. CASE a > b \/ a >= n
      <3>1. SubSeq(str.mem, a + 1, a + newlen) = <<>>
        <4>1. newlen = 0
          BY <2>2
        <4>2. SubSeq(str.mem, a + 1, a + 0) = <<>>
          BY <1>1, <1>3
        <4> QED
          BY <4>1, <4>2
      <3>2. kept = {}
        BY <1>1, <1>3, <1>4, <1>5, <2>2
      <3>3. <<>> \in Seq(Bytes) /\ Len(<<>>) = 0 /\ 0 <= n
        BY <1>1
      <3>4. Holds(str, Len(<<>>))
        BY <1>1, <3>3, HoldsLess
      <3>5. Strings!Text(Strings!Put(str, <<>>)) = <<>>
        BY <1>1, <3>3, <3>4, TextPut
      <3> QED
        BY <2>1, <3>1, <3>2, <3>5 DEF kept
    <2>3. CASE ~(a > b \/ a >= n)
      <3> DEFINE last == Strings!Min({b, n - 1})
      <3>1. last \in {b, n - 1} /\ last <= n - 1 /\ last <= b
        <4>1. \E x \in {b, n - 1} : \A y \in {b, n - 1} : x <= y
          BY <1>1, <1>4
        <4> QED
          BY <4>1 DEF Strings!Min
      <3>2. newlen = last - a + 1
        BY <2>3
      <3> HIDE DEF last, newlen
      <3>3. last \in a .. n - 1 /\ a + newlen = last + 1
        BY <1>1, <1>3, <1>4, <2>3, <3>1, <3>2
      <3>4. a + 1 \in kept /\ last + 1 \in kept /\ \A i \in kept : a + 1 <= i /\ i <= last + 1
        BY <1>1, <1>3, <1>4, <1>5, <2>3, <3>1, <3>3
      <3>5. kept \in SUBSET (1 .. n) /\ kept # {}
        BY <1>5, <3>4
      <3>6. Strings!Min(kept) = a + 1 /\ Strings!Max(kept) = last + 1
        <4>1. /\ Strings!Min(kept) \in kept /\ Strings!Max(kept) \in kept
              /\ \A x \in kept : Strings!Min(kept) <= x /\ x <= Strings!Max(kept)
          <5> HIDE DEF kept
          <5> QED
            BY <1>1, <1>3, <3>5, Ends
        <4>2. Strings!Min(kept) \in Nat /\ Strings!Max(kept) \in Nat
          <5> HIDE DEF kept
          <5>1. \A x \in kept : x \in Nat
            BY <3>5
          <5> QED
            BY <4>1, <5>1
        <4>3. /\ Strings!Min(kept) <= a + 1 /\ a + 1 <= Strings!Min(kept)
              /\ Strings!Max(kept) <= last + 1 /\ last + 1 <= Strings!Max(kept)
          BY <3>4, <4>1
        <4> QED
          BY ONLY <1>1, <1>3, <3>3, <4>2, <4>3
      <3>7. SubSeq(str.mem, a + 1, last + 1) \in Seq(Bytes)
            /\ Len(SubSeq(str.mem, a + 1, last + 1)) = last + 1 - a
        BY <1>1, <1>3, <3>3
      <3>8. last + 1 - a \in Nat /\ last + 1 - a <= n
        BY <1>1, <1>3, <3>3
      <3>9. Holds(str, Len(SubSeq(str.mem, a + 1, last + 1)))
        BY <1>1, <3>7, <3>8, HoldsLess
      <3>10. Strings!Text(Strings!Put(str, SubSeq(str.mem, a + 1, last + 1)))
               = SubSeq(str.mem, a + 1, last + 1)
        BY <1>1, <3>7, <3>9, TextPut
      <3> QED
        BY <2>1, <3>3, <3>5, <3>6, <3>10 DEF kept
    <2> QED
      BY <2>2, <2>3
  <1> QED
    BY <1>6, <1>7

-----------------------------------------------------------------------------
(* The theorem                                                              *)

LEMMA StringInvSpec == PartsSpec => []StringInv
  <1>1. PartsInit => StringInv
    BY StringsStart DEF PartsInit
  <1>2. StringInv /\ [AsyncStep \/ SyncStep \/ ReaderStep \/ DictStep \/ StringStep]_allVars
          => StringInv'
    <2> SUFFICES ASSUME StringInv,
                        [AsyncStep \/ SyncStep \/ ReaderStep \/ DictStep \/ StringStep]_allVars
                 PROVE  StringInv'
      OBVIOUS
    <2>1. CASE StringStep
      BY <2>1, StringsKeep DEF StringStep
    <2>2. CASE UNCHANGED str
      BY <2>2 DEF StringInv
    <2>3. StringStep \/ UNCHANGED str
      BY DEF AsyncStep, SyncStep, ReaderStep, DictStep, allVars
    <2> QED
      BY <2>1, <2>2, <2>3
  <1> QED
    BY <1>1, <1>2, PTL DEF PartsSpec

\* Whatever replies the server sends and however the network cuts them, the reader
\* returns them whole and in order, none later than with its last byte, and no bytes
\* that are still to be read are cut from its buffer (read.c:235-598, sds.c:712-738).
THEOREM RepliesStayInOrder == PartsSpec => []RepliesInOrder
  <1>1. ReaderInv /\ StringInv => RepliesInOrder
    BY ReaderInOrder, RangesKept DEF RepliesInOrder
  <1> QED
    BY <1>1, ReaderInvSpec, StringInvSpec, PTL
=============================================================================
