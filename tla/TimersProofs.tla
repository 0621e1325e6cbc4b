----------------------------- MODULE TimersProofs -----------------------------
(***************************************************************************)
(* Proofs about the binary heap of timers (minheap.cc), for any number of    *)
(* timers and any delays: sifting a node up or down mends the order that     *)
(* its move broke and nothing else, and so the heap fires its timers in the  *)
(* order of their times.                                                     *)
(*                                                                           *)
(* And about the timer wheel (timerwheel.c), for any number of nodes and any *)
(* widths of its levels: every timer in use is in one list, once, in a slot  *)
(* that is emptied before its time has passed, and so it is dispatched in    *)
(* the very tick it expires, although the clock wraps.                       *)
(***************************************************************************)
EXTENDS MCTimers, FiniteSetTheorems, WellFoundedInduction, TLAPS

LEMMA Least ==
  ASSUME NEW T \in SUBSET Nat, T # {}
  PROVE  \E x \in T : \A y \in T : x <= y
  <1>1. PICK x \in T : \A y \in T : ~(<<y, x>> \in OpToRel(<, Nat))
    BY WFMin, NatLessThanWellFounded
  <1>2. \A y \in T : ~(y < x)
    BY <1>1 DEF OpToRel
  <1> QED
    BY <1>2

-----------------------------------------------------------------------------
(* Loops: from t a loop goes on with step[t], until it meets a t in stop.      *)

\* The measure m of S falls with every turn.
Falls(S, stop, step, m) == \A t \in S \ stop : step[t] \in S /\ m[step[t]] < m[t]

\* What the loop ends with, from a measure below n on.
Ends(S, stop, step, m, n, f) ==
  \A t \in S : m[t] < n => f[t] = IF t \in stop THEN t ELSE f[step[t]]

LEMMA LoopUpTo ==
  ASSUME NEW S, NEW stop, NEW step, NEW m \in [S -> Nat], Falls(S, stop, step, m), NEW N \in Nat
  PROVE  \E f : Ends(S, stop, step, m, N, f)
  <1> DEFINE Bad == {n \in Nat : ~\E f : Ends(S, stop, step, m, n, f)}
  <1>1. SUFFICES ASSUME Bad # {} PROVE FALSE
    OBVIOUS
  <1>2. PICK n \in Bad : \A k \in Bad : n <= k
    BY <1>1, Least
  <1>3. n # 0
    <2>1. Ends(S, stop, step, m, 0, S)
      BY DEF Ends
    <2> QED
      BY <2>1
  <1>4. n - 1 \in Nat /\ n - 1 \notin Bad
    BY <1>2, <1>3
  <1>5. PICK f : Ends(S, stop, step, m, n - 1, f)
    BY <1>4
  <1> DEFINE g == [t \in S |-> IF t \in stop THEN t ELSE f[step[t]]]
  <1>6. \A t \in S : m[t] < n - 1 => g[t] = f[t]
    BY <1>5 DEF Ends
  <1>7. ASSUME NEW t \in S, m[t] < n, t \notin stop
        PROVE  g[t] = g[step[t]]
    <2>1. step[t] \in S /\ m[step[t]] < n - 1
      BY <1>4, <1>7 DEF Falls
    <2> QED
      BY <1>6, <1>7, <2>1
  <1>8. Ends(S, stop, step, m, n, g)
    BY <1>7 DEF Ends
  <1> QED
    BY <1>8

LEMMA LoopsAgree ==
  ASSUME NEW S, NEW stop, NEW step, NEW m \in [S -> Nat], Falls(S, stop, step, m),
         NEW n \in Nat, NEW k \in Nat, n <= k,
         NEW f, Ends(S, stop, step, m, n, f), NEW g, Ends(S, stop, step, m, k, g),
         NEW s \in S, m[s] < n
  PROVE  f[s] = g[s]
  <1> DEFINE Bad == {t \in S : m[t] < n /\ f[t] # g[t]}
             Marks == {m[t] : t \in Bad}
  <1>1. SUFFICES ASSUME Bad # {} PROVE FALSE
    OBVIOUS
  <1>2. Marks \in SUBSET Nat /\ Marks # {}
    <2>1. \A t \in Bad : m[t] \in Nat
      OBVIOUS
    <2>2. PICK t \in Bad : TRUE
      BY <1>1
    <2>3. m[t] \in Marks
      OBVIOUS
    <2> QED
      BY <2>1, <2>3
  <1>3. PICK low \in Marks : \A i \in Marks : low <= i
    BY <1>2, Least
  <1>4. PICK t \in Bad : m[t] = low
    BY <1>3
  <1>5. t \in S /\ m[t] < n /\ m[t] < k /\ m[t] \in Nat
    OBVIOUS
  <1>6. t \notin stop /\ f[t] = f[step[t]] /\ g[t] = g[step[t]]
    BY <1>5 DEF Ends
  <1>7. step[t] \in S /\ m[step[t]] < m[t] /\ m[step[t]] \in Nat
    BY <1>5, <1>6 DEF Falls
  <1>8. step[t] \in Bad
    BY <1>5, <1>6, <1>7
  <1>9. m[step[t]] \in Marks
    BY <1>8
  <1>10. low <= m[step[t]]
    BY <1>3, <1>9
  <1> QED
    BY <1>4, <1>5, <1>7, <1>10

LEMMA LoopIs ==
  ASSUME NEW S, NEW stop, NEW step, NEW m \in [S -> Nat], Falls(S, stop, step, m)
  PROVE  \E f : f = [t \in S |-> IF t \in stop THEN t ELSE f[step[t]]]
  <1> DEFINE F(n) == CHOOSE f : Ends(S, stop, step, m, n, f)
             g == [t \in S |-> F(m[t] + 1)[t]]
  <1>1. ASSUME NEW n \in Nat
        PROVE  Ends(S, stop, step, m, n, F(n))
    BY LoopUpTo
  <1> HIDE DEF F
  <1>2. ASSUME NEW t \in S, t \notin stop
        PROVE  step[t] \in S /\ g[t] = g[step[t]]
    <2>1. step[t] \in S /\ m[t] \in Nat /\ m[step[t]] \in Nat /\ m[step[t]] < m[t]
      BY <1>2 DEF Falls
    <2> DEFINE n == m[step[t]] + 1
               k == m[t] + 1
    <2>2. n \in Nat /\ k \in Nat /\ n <= k /\ m[step[t]] < n /\ m[t] < k
      BY <2>1
    <2>3. g[t] = F(k)[t] /\ g[step[t]] = F(n)[step[t]]
      BY <2>1
    <2> HIDE DEF n, k, g
    <2>4. Ends(S, stop, step, m, n, F(n)) /\ Ends(S, stop, step, m, k, F(k))
      BY <1>1, <2>2
    <2>5. F(n)[step[t]] = F(k)[step[t]]
      BY <2>1, <2>2, <2>4, LoopsAgree
    <2>6. F(k)[t] = F(k)[step[t]]
      BY <1>2, <2>2, <2>4 DEF Ends
    <2> QED
      BY <2>1, <2>3, <2>5, <2>6
  <1>3. ASSUME NEW t \in S, t \in stop
        PROVE  g[t] = t
    <2>1. m[t] + 1 \in Nat /\ m[t] < m[t] + 1
      OBVIOUS
    <2>2. Ends(S, stop, step, m, m[t] + 1, F(m[t] + 1))
      BY <1>1, <2>1
    <2> QED
      BY <1>3, <2>1, <2>2 DEF Ends
  <1>4. g = [t \in S |-> g[t]]
    OBVIOUS
  <1> HIDE DEF g
  <1>5. g = [t \in S |-> IF t \in stop THEN t ELSE g[step[t]]]
    BY <1>2, <1>3, <1>4
  <1> QED
    BY <1>5

\* What every turn keeps holds in the end.
LEMMA LoopKeeps ==
  ASSUME NEW S, NEW stop, NEW step, NEW m \in [S -> Nat], Falls(S, stop, step, m),
         NEW f, f = [t \in S |-> IF t \in stop THEN t ELSE f[step[t]]],
         NEW T \in SUBSET S, \A t \in T \ stop : step[t] \in T, NEW s \in T
  PROVE  f[s] \in T /\ f[s] \in stop
  <1> DEFINE Bad == {t \in T : ~(f[t] \in T /\ f[t] \in stop)}
             Marks == {m[t] : t \in Bad}
  <1>1. SUFFICES ASSUME Bad # {} PROVE FALSE
    OBVIOUS
  <1>2. Marks \in SUBSET Nat /\ Marks # {}
    <2>1. \A t \in Bad : m[t] \in Nat
      OBVIOUS
    <2>2. PICK t \in Bad : TRUE
      BY <1>1
    <2>3. m[t] \in Marks
      OBVIOUS
    <2> QED
      BY <2>1, <2>3
  <1>3. PICK n \in Marks : \A k \in Marks : n <= k
    BY <1>2, Least
  <1>4. PICK t \in Bad : m[t] = n
    BY <1>3
  <1>5. t \in S /\ t \notin stop
    OBVIOUS
  <1>6. step[t] \in T /\ m[step[t]] < m[t] /\ f[t] = f[step[t]]
    BY <1>5 DEF Falls
  <1>7. step[t] \in Bad
    BY <1>6
  <1>8. m[step[t]] \in Marks /\ m[step[t]] \in Nat /\ n \in Nat
    BY <1>2, <1>3, <1>7
  <1>9. n <= m[step[t]]
    BY <1>3, <1>8
  <1> QED
    BY <1>4, <1>6, <1>8, <1>9

-----------------------------------------------------------------------------
(* Moving a node                                                            *)

Records == [heap : Seq(Heap!Ids), idx : [Heap!Ids -> Nat], pos : Heap!Ids]
Times32 == [Heap!Ids -> Nat]

\* Every node of s knows its place.
Known(s) == \A i \in 1 .. Len(s.heap) : s.idx[s.heap[i]] = i

\* The first m places of s hold what those of r hold, and the others the same.
Like(s, r, m) ==
  /\ s \in Heap!Moves /\ Len(s.heap) = Len(r.heap) /\ Known(s)
  /\ s.pos \in 1 .. m /\ m <= Len(s.heap)
  /\ {s.heap[i] : i \in 1 .. m} = {r.heap[i] : i \in 1 .. m}
  /\ \A i \in m + 1 .. Len(s.heap) : s.heap[i] = r.heap[i]

LEMMA MovesAre ==
  ASSUME NEW s
  PROVE  s \in Heap!Moves <=> s \in Records /\ s.pos <= Len(s.heap) /\ Len(s.heap) <= HeapTimers
  <1>1. ASSUME s \in Records
        PROVE  Len(s.heap) \in s.pos .. HeapTimers
                 <=> s.pos <= Len(s.heap) /\ Len(s.heap) <= HeapTimers
    <2>1. Len(s.heap) \in Nat /\ s.pos \in Int /\ HeapTimers \in Int
      BY <1>1, HeapAssumption DEF Records, Heap!Ids
    <2> QED
      BY <2>1
  <1> QED
    BY <1>1 DEF Heap!Moves, Records

LEMMA Swaps ==
  ASSUME NEW s \in Heap!Moves, NEW place \in 1 .. Len(s.heap)
  PROVE  LET t == Heap!Swapped(s, place)
         IN /\ t \in Heap!Moves /\ Len(t.heap) = Len(s.heap) /\ t.pos = place
            /\ t.heap[place] = s.heap[s.pos] /\ t.heap[s.pos] = s.heap[place]
            /\ \A i \in 1 .. Len(s.heap) : i # place /\ i # s.pos => t.heap[i] = s.heap[i]
            /\ t.idx = [s.idx EXCEPT ![s.heap[s.pos]] = place, ![s.heap[place]] = s.pos]
  <1> DEFINE t == Heap!Swapped(s, place)
             n == Len(s.heap)
  <1>1. /\ s.heap \in Seq(Heap!Ids) /\ s.idx \in [Heap!Ids -> Nat]
        /\ n \in Nat /\ s.pos \in 1 .. n /\ n <= HeapTimers /\ place \in Heap!Ids
    <2>1. s \in Records /\ s.pos <= n /\ n <= HeapTimers
      BY MovesAre
    <2>2. s.heap \in Seq(Heap!Ids) /\ s.idx \in [Heap!Ids -> Nat] /\ n \in Nat /\ s.pos \in Heap!Ids
      BY <2>1 DEF Records
    <2> HIDE DEF n
    <2>3. n <= HeapTimers /\ s.pos \in 1 .. n /\ HeapTimers \in Nat
      BY <2>1, <2>2, HeapAssumption DEF Heap!Ids
    <2>4. place \in Heap!Ids
      BY <2>2, <2>3 DEF Heap!Ids, n
    <2> QED
      BY <2>2, <2>3, <2>4
  <1>2. /\ t.heap = [s.heap EXCEPT ![place] = s.heap[s.pos], ![s.pos] = s.heap[place]]
        /\ t.idx = [s.idx EXCEPT ![s.heap[s.pos]] = place, ![s.heap[place]] = s.pos]
        /\ t.pos = place /\ t = [heap |-> t.heap, idx |-> t.idx, pos |-> t.pos]
    BY DEF Heap!Swapped
  <1> HIDE DEF t
  <1>3. s.heap[s.pos] \in Heap!Ids /\ s.heap[place] \in Heap!Ids
    BY <1>1
  <1>4. /\ t.heap \in Seq(Heap!Ids) /\ Len(t.heap) = n
        /\ t.heap[place] = s.heap[s.pos] /\ t.heap[s.pos] = s.heap[place]
        /\ \A i \in 1 .. n : i # place /\ i # s.pos => t.heap[i] = s.heap[i]
    BY <1>1, <1>2, <1>3
  <1>5. t.idx \in [Heap!Ids -> Nat]
    <2>1. place \in Nat /\ s.pos \in Nat
      BY <1>1
    <2> QED
      BY <1>1, <1>2, <1>3, <2>1
  <1>6. t \in Records
    <2>1. t.pos \in Heap!Ids
      BY <1>1, <1>2
    <2> QED
      BY <1>2, <1>4, <1>5, <2>1 DEF Records
  <1>7. t.pos <= Len(t.heap) /\ Len(t.heap) <= HeapTimers
    BY <1>1, <1>2, <1>4
  <1> QED
    BY <1>2, <1>4, <1>6, <1>7, MovesAre DEF t

LEMMA SwapLike ==
  ASSUME NEW s \in Heap!Moves, NEW r, NEW m \in Nat, Like(s, r, m), NEW place \in 1 .. m
  PROVE  Like(Heap!Swapped(s, place), r, m)
  <1> DEFINE t == Heap!Swapped(s, place)
             n == Len(s.heap)
  <1>1. s \in Records /\ n \in Nat /\ m <= n /\ s.pos \in 1 .. m /\ place \in 1 .. n
    BY MovesAre DEF Like, Records
  <1>2. /\ t \in Heap!Moves /\ Len(t.heap) = n /\ t.pos = place
        /\ t.heap[place] = s.heap[s.pos] /\ t.heap[s.pos] = s.heap[place]
        /\ \A i \in 1 .. n : i # place /\ i # s.pos => t.heap[i] = s.heap[i]
        /\ t.idx = [s.idx EXCEPT ![s.heap[s.pos]] = place, ![s.heap[place]] = s.pos]
    BY <1>1, Swaps
  <1> HIDE DEF t
  <1>3. \A i \in 1 .. n : s.heap[i] \in Heap!Ids /\ s.idx[s.heap[i]] = i
    BY <1>1 DEF Like, Known, Records
  <1>4. Known(t)
    <2>1. SUFFICES ASSUME NEW i \in 1 .. n PROVE t.idx[t.heap[i]] = i
      BY <1>2 DEF Known
    <2>2. s.idx \in [Heap!Ids -> Nat]
      BY <1>1 DEF Records
    <2>3. CASE i = place
      <3>1. t.heap[i] = s.heap[s.pos] /\ (place # s.pos => s.heap[place] # s.heap[s.pos])
        BY <1>1, <1>2, <1>3, <2>3
      <3> QED
        BY <1>1, <1>2, <1>3, <2>2, <2>3, <3>1
    <2>4. CASE i = s.pos /\ i # place
      BY <1>1, <1>2, <1>3, <2>2, <2>4
    <2>5. CASE i # s.pos /\ i # place
      <3>1. t.heap[i] = s.heap[i] /\ s.heap[i] # s.heap[s.pos] /\ s.heap[i] # s.heap[place]
        BY <1>1, <1>2, <1>3, <2>5
      <3> QED
        BY <1>2, <1>3, <2>2, <3>1
    <2> QED
      BY <2>3, <2>4, <2>5
  <1>5. {t.heap[i] : i \in 1 .. m} = {s.heap[i] : i \in 1 .. m}
    <2> DEFINE f == t.heap
               g == s.heap
               L == 1 .. m
    <2>1. \A i \in L : \E j \in L : f[i] = g[j]
      BY <1>1, <1>2
    <2>2. \A i \in L : \E j \in L : g[i] = f[j]
      BY <1>1, <1>2
    <2> HIDE DEF f, g, L
    <2>3. {f[i] : i \in L} = {g[i] : i \in L}
      BY ONLY <2>1, <2>2
    <2> QED
      BY <2>3 DEF f, g, L
  <1>6. \A i \in m + 1 .. n : t.heap[i] = s.heap[i]
    BY <1>1, <1>2
  <1> QED
    BY <1>1, <1>2, <1>4, <1>5, <1>6 DEF Like, t

-----------------------------------------------------------------------------
(* The order: v says when the nodes at the places 1 to m expire, and p is the *)
(* place of the node that is moved.                                         *)

Ordered(v, m) == \A i \in 2 .. m : v[i \div 2] <= v[i]

\* The children of the node do not expire before its parent.
Grandchildren(v, p, m) == \A i \in 2 .. m : i \div 2 = p /\ p >= 2 => v[p \div 2] <= v[i]

\* Only the node may expire before its parent, ...
UpOrdered(v, p, m) == /\ \A i \in 2 .. m : i # p => v[i \div 2] <= v[i]
                      /\ Grandchildren(v, p, m)

\* ... and after its children.
DownOrdered(v, p, m) == /\ \A i \in 2 .. m : i # p /\ i \div 2 # p => v[i \div 2] <= v[i]
                        /\ Grandchildren(v, p, m)

\* w is v with the times at p and q exchanged.
Exchanged(v, w, p, q, m) ==
  w[p] = v[q] /\ w[q] = v[p] /\ \A i \in 1 .. m : i # p /\ i # q => w[i] = v[i]

LEMMA UpGoes ==
  ASSUME NEW m \in Nat, NEW v \in [1 .. m -> Nat], NEW w \in [1 .. m -> Nat],
         NEW p \in 2 .. m, NEW q, q = p \div 2,
         Exchanged(v, w, p, q, m), UpOrdered(v, p, m), v[p] < v[q]
  PROVE  UpOrdered(w, q, m)
  <1>1. q \in 1 .. m /\ q < p
    OBVIOUS
  <1>2. \A i \in 2 .. m : i \div 2 \in 1 .. m /\ i \div 2 < i
    OBVIOUS
  <1>3. \A i \in 1 .. m : v[i] \in Nat /\ w[i] \in Nat
    OBVIOUS
  <1>4. ASSUME NEW i \in 2 .. m, i # q
        PROVE  w[i \div 2] <= w[i]
    <2> DEFINE j == i \div 2
    <2>1. j \in 1 .. m /\ j < i
      BY <1>2
    <2>2. CASE i = p
      BY <1>1, <1>3, <2>2 DEF Exchanged
    <2>3. CASE i # p
      <3>1. v[j] <= v[i] /\ w[i] = v[i]
        BY <1>4, <2>3 DEF UpOrdered, Exchanged
      <3>2. CASE j = q
        <4>1. w[q] = v[p] /\ v[q] <= v[i]
          BY <3>1, <3>2 DEF Exchanged
        <4>2. v[p] \in Nat /\ v[q] \in Nat /\ v[i] \in Nat
          BY <1>1, <1>3
        <4>3. w[q] <= w[i]
          BY <3>1, <4>1, <4>2
        <4> QED
          BY <3>2, <4>3
      <3>3. CASE j = p
        <4>1. w[p] = v[q]
          BY DEF Exchanged
        <4>2. v[q] <= v[i]
          BY <3>3 DEF UpOrdered, Grandchildren
        <4>3. w[p] <= w[i]
          BY <3>1, <4>1, <4>2
        <4> QED
          BY <3>3, <4>3
      <3>4. CASE j # p /\ j # q
        BY <2>1, <3>1, <3>4 DEF Exchanged
      <3> QED
        BY <3>2, <3>3, <3>4
    <2> QED
      BY <2>2, <2>3
  <1>5. ASSUME NEW i \in 2 .. m, i \div 2 = q, q >= 2
        PROVE  w[q \div 2] <= w[i]
    <2> DEFINE k == q \div 2
    <2>1. k \in 1 .. m /\ k < q
      BY <1>1, <1>2, <1>5
    <2>2. v[k] <= v[q] /\ w[k] = v[k]
      <3>1. q \in 2 .. m /\ q # p
        BY <1>1, <1>5
      <3>2. v[k] <= v[q]
        BY <3>1 DEF UpOrdered
      <3>3. k # p /\ k # q
        BY <1>1, <2>1
      <3> HIDE DEF k
      <3>4. w[k] = v[k]
        BY <2>1, <3>3 DEF Exchanged
      <3> QED
        BY <3>2, <3>4
    <2>3. CASE i = p
      BY <2>2, <2>3 DEF Exchanged
    <2>4. CASE i # p
      <3>1. v[q] <= v[i] /\ w[i] = v[i]
        <4>1. i # q
          BY <1>5
        <4>2. v[q] <= v[i]
          BY <1>5, <2>4 DEF UpOrdered
        <4>3. w[i] = v[i]
          BY <2>4, <4>1 DEF Exchanged
        <4> QED
          BY <4>2, <4>3
      <3> HIDE DEF k
      <3>2. v[k] \in Nat /\ v[q] \in Nat /\ v[i] \in Nat
        BY <1>1, <1>3, <2>1
      <3>3. w[k] <= w[i]
        BY <2>2, <3>1, <3>2
      <3> QED
        BY <3>3 DEF k
    <2> QED
      BY <2>3, <2>4
  <1> QED
    BY <1>4, <1>5 DEF UpOrdered, Grandchildren

LEMMA UpEnds ==
  ASSUME NEW m \in Nat, NEW v \in [1 .. m -> Nat], NEW p \in 1 .. m,
         UpOrdered(v, p, m), p \div 2 = 0 \/ ~(v[p] < v[p \div 2])
  PROVE  Ordered(v, m)
  <1>1. SUFFICES ASSUME NEW i \in 2 .. m PROVE v[i \div 2] <= v[i]
    BY DEF Ordered
  <1>2. CASE i = p
    <2>1. p \div 2 \in 1 .. m
      BY <1>2
    <2> QED
      BY <1>2, <2>1
  <1>3. CASE i # p
    BY <1>3 DEF UpOrdered
  <1> QED
    BY <1>2, <1>3

\* q is the child of p that expires first.
First(v, p, q, m) == q \div 2 = p /\ \A i \in 2 .. m : i \div 2 = p => v[q] <= v[i]

\* No child of p expires before it.
NoneBefore(v, p, m) == \A i \in 2 .. m : i \div 2 = p => v[p] <= v[i]

LEMMA DownGoes ==
  ASSUME NEW m \in Nat, NEW v \in [1 .. m -> Nat], NEW w \in [1 .. m -> Nat],
         NEW p \in 1 .. m, NEW q \in 2 .. m, First(v, p, q, m),
         Exchanged(v, w, p, q, m), DownOrdered(v, p, m), v[q] < v[p]
  PROVE  DownOrdered(w, q, m) /\ w[p] <= w[q] /\ p < q
  <1>1. p < q /\ q \div 2 = p
    BY DEF First
  <1>0. p >= 2 => v[p \div 2] <= v[q]
    BY <1>1 DEF DownOrdered, Grandchildren
  <1>2. \A i \in 2 .. m : i \div 2 \in 1 .. m /\ i \div 2 < i
    OBVIOUS
  <1>3. \A i \in 1 .. m : v[i] \in Nat /\ w[i] \in Nat
    OBVIOUS
  <1>4. ASSUME NEW i \in 2 .. m, i # q, i \div 2 # q
        PROVE  w[i \div 2] <= w[i]
    <2> DEFINE j == i \div 2
    <2>1. j \in 1 .. m /\ j < i
      BY <1>2
    <2>2. CASE i = p
      <3>1. w[i] = v[q] /\ v[j] <= v[q]
        BY <1>0, <2>2 DEF Exchanged
      <3>2. w[j] = v[j]
        BY <1>4, <2>1, <2>2 DEF Exchanged
      <3> QED
        BY <3>1, <3>2
    <2>3. CASE i # p /\ j = p
      <3>1. w[i] = v[i] /\ w[j] = v[q]
        BY <1>4, <2>3 DEF Exchanged
      <3>2. v[q] <= v[i]
        BY <2>3 DEF First
      <3> QED
        BY <3>1, <3>2
    <2>4. CASE i # p /\ j # p
      <3>1. w[i] = v[i] /\ w[j] = v[j]
        BY <1>4, <2>1, <2>4 DEF Exchanged
      <3>2. v[j] <= v[i]
        BY <2>4 DEF DownOrdered
      <3> QED
        BY <3>1, <3>2
    <2> QED
      BY <2>2, <2>3, <2>4
  <1>5. ASSUME NEW i \in 2 .. m, i \div 2 = q
        PROVE  w[q \div 2] <= w[i]
    <2>1. i # p /\ i # q /\ p # q
      BY <1>1, <1>2, <1>5
    <2>2. w[i] = v[i] /\ w[p] = v[q]
      BY <2>1 DEF Exchanged
    <2>3. v[q] <= v[i]
      BY <1>1, <1>5, <2>1 DEF DownOrdered
    <2> QED
      BY <1>1, <2>2, <2>3
  <1>6. w[p] <= w[q]
    BY <1>3, <1>1 DEF Exchanged
  <1>7. DownOrdered(w, q, m)
    BY <1>4, <1>5 DEF DownOrdered, Grandchildren
  <1> QED
    BY <1>1, <1>6, <1>7

LEMMA DownEnds ==
  ASSUME NEW m \in Nat, NEW v \in [1 .. m -> Nat], NEW p \in 1 .. m, DownOrdered(v, p, m),
         NoneBefore(v, p, m)
  PROVE  UpOrdered(v, p, m)
  BY DEF DownOrdered, UpOrdered, NoneBefore

-----------------------------------------------------------------------------
(* _shiftUp and _shiftDown                                                  *)

\* When the nodes at the first m places expire.
TimesOf(s, x, m) == [i \in 1 .. m |-> x[s.heap[i]]]

LEMMA TimesOfMoves ==
  ASSUME NEW s \in Heap!Moves, NEW x \in Times32, NEW m \in Nat, m <= Len(s.heap)
  PROVE  TimesOf(s, x, m) \in [1 .. m -> Nat]
  <1>1. \A i \in 1 .. m : s.heap[i] \in Heap!Ids
    BY MovesAre DEF Records
  <1> QED
    BY <1>1 DEF TimesOf, Times32

LEMMA SwapExchanges ==
  ASSUME NEW s \in Heap!Moves, NEW x \in Times32, NEW m \in Nat, m <= Len(s.heap),
         s.pos \in 1 .. m, NEW place \in 1 .. m
  PROVE  Exchanged(TimesOf(s, x, m), TimesOf(Heap!Swapped(s, place), x, m), s.pos, place, m)
  <1>1. place \in 1 .. Len(s.heap) /\ Len(s.heap) \in Nat
    BY MovesAre DEF Records
  <1> DEFINE t == Heap!Swapped(s, place)
  <1>2. /\ t.heap[place] = s.heap[s.pos] /\ t.heap[s.pos] = s.heap[place]
        /\ \A i \in 1 .. Len(s.heap) : i # place /\ i # s.pos => t.heap[i] = s.heap[i]
    <2>1. /\ t \in Heap!Moves /\ Len(t.heap) = Len(s.heap) /\ t.pos = place
          /\ t.heap[place] = s.heap[s.pos] /\ t.heap[s.pos] = s.heap[place]
          /\ \A i \in 1 .. Len(s.heap) : i # place /\ i # s.pos => t.heap[i] = s.heap[i]
          /\ t.idx = [s.idx EXCEPT ![s.heap[s.pos]] = place, ![s.heap[place]] = s.pos]
      BY <1>1, Swaps, Zenon
    <2> QED
      BY <2>1
  <1> HIDE DEF t
  <1>3. \A i \in 1 .. m : TimesOf(s, x, m)[i] = x[s.heap[i]] /\ TimesOf(t, x, m)[i] = x[t.heap[i]]
    BY DEF TimesOf
  <1>4. \A i \in 1 .. m : i \in 1 .. Len(s.heap)
    BY <1>1
  <1>5. Exchanged(TimesOf(s, x, m), TimesOf(t, x, m), s.pos, place, m)
    <2> DEFINE v == TimesOf(s, x, m)
               w == TimesOf(t, x, m)
    <2>1. v[s.pos] = x[s.heap[s.pos]] /\ w[place] = x[t.heap[place]]
      BY <1>3
    <2>2. v[place] = x[s.heap[place]] /\ w[s.pos] = x[t.heap[s.pos]]
      BY <1>3
    <2>3. \A i \in 1 .. m : i # s.pos /\ i # place => w[i] = v[i]
      BY <1>2, <1>3, <1>4
    <2> HIDE DEF v, w
    <2>4. w[s.pos] = v[place] /\ w[place] = v[s.pos]
      BY <1>2, <2>1, <2>2
    <2> QED
      BY <2>3, <2>4 DEF Exchanged, v, w
  <1> QED
    BY <1>5 DEF t

\* The move of one turn, and those that are over.
UpStep(x) == [t \in Heap!Moves |-> Heap!Swapped(t, Heap!Parent(t.pos))]
UpStop(x) == {t \in Heap!Moves : Heap!IsUp(t, x)}
UpMeasure == [t \in Heap!Moves |-> t.pos]

LEMMA UpFalls ==
  ASSUME NEW x \in Times32
  PROVE  /\ UpMeasure \in [Heap!Moves -> Nat]
         /\ Falls(Heap!Moves, UpStop(x), UpStep(x), UpMeasure)
  <1>1. UpMeasure \in [Heap!Moves -> Nat]
    <2>1. \A t \in Heap!Moves : t.pos \in Nat
      BY MovesAre, HeapAssumption DEF Records, Heap!Ids
    <2> QED
      BY <2>1 DEF UpMeasure
  <1>2. Falls(Heap!Moves, UpStop(x), UpStep(x), UpMeasure)
    <2>1. SUFFICES ASSUME NEW t \in Heap!Moves, t \notin UpStop(x)
                   PROVE  UpStep(x)[t] \in Heap!Moves /\ UpMeasure[UpStep(x)[t]] < UpMeasure[t]
      BY DEF Falls
    <2>2. /\ Heap!Parent(t.pos) # 0 /\ t.pos \in Nat /\ t.pos <= Len(t.heap)
          /\ Len(t.heap) \in Nat
      BY <2>1, MovesAre, HeapAssumption DEF UpStop, Heap!IsUp, Records, Heap!Ids
    <2>3. Heap!Parent(t.pos) \in 1 .. Len(t.heap) /\ Heap!Parent(t.pos) < t.pos
      BY <2>2 DEF Heap!Parent
    <2>4. UpStep(x)[t] \in Heap!Moves /\ UpStep(x)[t].pos = Heap!Parent(t.pos)
      BY <2>3, Swaps DEF UpStep
    <2> QED
      BY <2>3, <2>4 DEF UpMeasure
  <1> QED
    BY <1>1, <1>2

LEMMA UpLoop ==
  ASSUME NEW x \in Times32
  PROVE  \E f : /\ f = [t \in Heap!Moves |-> IF t \in UpStop(x) THEN t ELSE f[UpStep(x)[t]]]
                /\ \A s \in Heap!Moves : Heap!ShiftUp(s, x) = f[s]
  <1> DEFINE P(f) == f = [t \in Heap!Moves |-> IF Heap!IsUp(t, x) THEN t
                                               ELSE f[Heap!Swapped(t, Heap!Parent(t.pos))]]
             g == CHOOSE f : P(f)
  <1>3. \E f : f = [t \in Heap!Moves |-> IF t \in UpStop(x) THEN t ELSE f[UpStep(x)[t]]]
    BY UpFalls, LoopIs, HeapAssumption
  <1>4. ASSUME NEW f
        PROVE  P(f) <=> f = [t \in Heap!Moves |-> IF t \in UpStop(x) THEN t ELSE f[UpStep(x)[t]]]
    BY DEF UpStop, UpStep
  <1>5. P(g)
    <2>1. \E f : P(f)
      BY <1>3, <1>4
    <2> HIDE DEF P
    <2> QED
      BY <2>1
  <1>6. \A s \in Heap!Moves : Heap!ShiftUp(s, x) = g[s]
    BY DEF Heap!ShiftUp
  <1> HIDE DEF P, g
  <1> QED
    BY <1>4, <1>5, <1>6

\* A node that moves down changes places with the child that expires first.
LEMMA LesserChildIs ==
  ASSUME NEW x \in Times32, NEW t \in Heap!Moves, NEW m \in Nat, m = Len(t.heap) - 1,
         2 * t.pos < Len(t.heap)
  PROVE  LET q == Heap!LesserChild(t, x)
         IN /\ q \in 2 .. m /\ q \div 2 = t.pos /\ t.pos < q
            /\ \A i \in 2 .. m : i \div 2 = t.pos => x[t.heap[q]] <= x[t.heap[i]]
  <1> DEFINE p == t.pos
             q == Heap!LesserChild(t, x)
  <1>1. /\ Len(t.heap) = m + 1 /\ p \in Nat /\ p >= 1 /\ p <= m + 1
        /\ \A i \in 1 .. m + 1 : x[t.heap[i]] \in Nat
    <2>1. /\ t.heap \in Seq(Heap!Ids) /\ Len(t.heap) \in Nat /\ p \in Heap!Ids
          /\ p <= Len(t.heap)
      BY MovesAre DEF Records
    <2>2. Len(t.heap) = m + 1
      BY <2>1
    <2>3. \A i \in 1 .. Len(t.heap) : x[t.heap[i]] \in Nat
      BY <2>1 DEF Times32
    <2>4. p \in Nat /\ p >= 1
      BY <2>1, HeapAssumption DEF Heap!Ids
    <2> QED
      BY <2>1, <2>2, <2>3, <2>4
  <1>2. /\ 2 * p < m + 1
        /\ q = IF 2 * p + 1 < m + 1 /\ ~(x[t.heap[2 * p]] < x[t.heap[2 * p + 1]])
               THEN 2 * p + 1 ELSE 2 * p
    BY <1>1 DEF Heap!LessThan, Heap!LesserChild
  <1> HIDE DEF p, q
  <1>3. q \in 2 .. m /\ q \div 2 = p /\ p < q
    <2>1. q = 2 * p \/ (q = 2 * p + 1 /\ 2 * p + 1 < m + 1)
      BY <1>2
    <2>2. p \in Nat /\ p >= 1 /\ 2 * p < m + 1 /\ m \in Nat
      BY <1>1, <1>2
    <2> QED
      BY <2>1, <2>2
  <1>4. ASSUME NEW i \in 2 .. m, i \div 2 = p
        PROVE  x[t.heap[q]] <= x[t.heap[i]]
    <2>1. i = 2 * p \/ i = 2 * p + 1
      <3>1. i \in Nat /\ p \in Nat /\ i \div 2 = p
        BY <1>1, <1>4
      <3> QED
        BY ONLY <3>1
    <2>2. x[t.heap[2 * p]] \in Nat /\ x[t.heap[i]] \in Nat /\ x[t.heap[q]] \in Nat
      <3>1. m \in Nat /\ p \in Nat /\ p >= 1 /\ 2 * p < m + 1 /\ i \in 2 .. m /\ q \in 2 .. m
        BY <1>1, <1>2, <1>3
      <3>2. 2 * p \in 1 .. m + 1 /\ i \in 1 .. m + 1 /\ q \in 1 .. m + 1
        BY ONLY <3>1
      <3> QED
        BY <1>1, <3>2
    <2>3. CASE i = 2 * p
      <3>1. CASE q = i
        BY <2>2, <3>1
      <3>2. CASE q # i
        <4>1. q = 2 * p + 1 /\ ~(x[t.heap[2 * p]] < x[t.heap[q]])
          BY <1>2, <2>3, <3>2
        <4> QED
          BY <2>2, <2>3, <4>1
      <3> QED
        BY <3>1, <3>2
    <2>4. CASE i = 2 * p + 1
      <3>1. CASE q = i
        BY <2>2, <3>1
      <3>2. CASE q # i
        <4>1. 2 * p + 1 < m + 1 /\ q # 2 * p + 1
          BY <1>4, <2>4, <3>2
        <4>2. q = 2 * p /\ x[t.heap[2 * p]] < x[t.heap[i]]
          BY <1>2, <2>4, <4>1
        <4> QED
          BY <2>2, <4>2
      <3> QED
        BY <3>1, <3>2
    <2> QED
      BY <2>1, <2>3, <2>4
  <1> QED
    BY <1>3, <1>4 DEF p, q

DownStep(x) == [t \in Heap!Moves |-> Heap!Swapped(t, Heap!LesserChild(t, x))]
DownStop(x) == {t \in Heap!Moves : Heap!IsDown(t, x)}
DownMeasure == [t \in Heap!Moves |-> HeapTimers - t.pos]

LEMMA DownFalls ==
  ASSUME NEW x \in Times32
  PROVE  /\ DownMeasure \in [Heap!Moves -> Nat]
         /\ Falls(Heap!Moves, DownStop(x), DownStep(x), DownMeasure)
  <1>1. ASSUME NEW t \in Heap!Moves
        PROVE  t.pos \in 1 .. HeapTimers /\ t.pos <= Len(t.heap) /\ Len(t.heap) \in Nat
    BY MovesAre, HeapAssumption DEF Records, Heap!Ids
  <1>2. DownMeasure \in [Heap!Moves -> Nat]
    <2>1. \A t \in Heap!Moves : HeapTimers - t.pos \in Nat
      BY <1>1, HeapAssumption
    <2> QED
      BY <2>1 DEF DownMeasure
  <1>3. Falls(Heap!Moves, DownStop(x), DownStep(x), DownMeasure)
    <2>1. SUFFICES ASSUME NEW t \in Heap!Moves, t \notin DownStop(x)
                   PROVE  /\ DownStep(x)[t] \in Heap!Moves
                          /\ DownMeasure[DownStep(x)[t]] < DownMeasure[t]
      BY DEF Falls
    <2> DEFINE q == Heap!LesserChild(t, x)
               m == Len(t.heap) - 1
    <2>2. m \in Nat /\ 2 * t.pos < Len(t.heap)
      BY <1>1, <2>1 DEF DownStop, Heap!IsDown
    <2>3. q \in 2 .. m /\ t.pos < q
      BY <2>2, LesserChildIs
    <2>4. q \in 1 .. Len(t.heap)
      BY <1>1, <2>3
    <2>5. DownStep(x)[t] \in Heap!Moves /\ DownStep(x)[t].pos = q
      BY <2>4, Swaps DEF DownStep
    <2> HIDE DEF q, m
    <2>6. HeapTimers - q < HeapTimers - t.pos
      BY <1>1, <2>3, <2>4, HeapAssumption
    <2> QED
      BY <2>5, <2>6 DEF DownMeasure
  <1> QED
    BY <1>2, <1>3

LEMMA DownLoop ==
  ASSUME NEW x \in Times32
  PROVE  \E f : /\ f = [t \in Heap!Moves |-> IF t \in DownStop(x) THEN t ELSE f[DownStep(x)[t]]]
                /\ \A s \in Heap!Moves : Heap!ShiftDown(s, x) = f[s]
  <1> DEFINE P(f) == f = [t \in Heap!Moves |-> IF Heap!IsDown(t, x) THEN t
                                               ELSE f[Heap!Swapped(t, Heap!LesserChild(t, x))]]
             g == CHOOSE f : P(f)
  <1>3. \E f : f = [t \in Heap!Moves |-> IF t \in DownStop(x) THEN t ELSE f[DownStep(x)[t]]]
    BY DownFalls, LoopIs, HeapAssumption
  <1>4. ASSUME NEW f
        PROVE  P(f) <=> f = [t \in Heap!Moves |-> IF t \in DownStop(x) THEN t
                                                  ELSE f[DownStep(x)[t]]]
    BY DEF DownStop, DownStep
  <1>5. P(g)
    <2>1. \E f : P(f)
      BY <1>3, <1>4
    <2> HIDE DEF P
    <2> QED
      BY <2>1
  <1>6. \A s \in Heap!Moves : Heap!ShiftDown(s, x) = g[s]
    BY DEF Heap!ShiftDown
  <1> HIDE DEF P, g
  <1> QED
    BY <1>4, <1>5, <1>6

\* A node that may expire before its parent moves up to its place.
LEMMA ShiftUpOrders ==
  ASSUME NEW x \in Times32, NEW r, NEW m \in Nat, NEW s, Like(s, r, m),
         UpOrdered(TimesOf(s, x, m), s.pos, m)
  PROVE  LET u == Heap!ShiftUp(s, x) IN Like(u, r, m) /\ Ordered(TimesOf(u, x, m), m)
  <1> DEFINE T == {t \in Heap!Moves : Like(t, r, m) /\ UpOrdered(TimesOf(t, x, m), t.pos, m)}
  <1>1. s \in Heap!Moves /\ s \in T
    BY DEF Like
  <1>2. PICK f : /\ f = [t \in Heap!Moves |-> IF t \in UpStop(x) THEN t ELSE f[UpStep(x)[t]]]
                 /\ \A t \in Heap!Moves : Heap!ShiftUp(t, x) = f[t]
    BY UpLoop
  <1>3. ASSUME NEW t \in T
        PROVE  /\ t \in Heap!Moves /\ Like(t, r, m) /\ t.pos \in 1 .. m /\ m <= Len(t.heap)
               /\ UpOrdered(TimesOf(t, x, m), t.pos, m)
               /\ TimesOf(t, x, m) \in [1 .. m -> Nat]
    <2>1. /\ t \in Heap!Moves /\ Like(t, r, m) /\ t.pos \in 1 .. m /\ m <= Len(t.heap)
          /\ UpOrdered(TimesOf(t, x, m), t.pos, m)
      BY DEF Like
    <2> QED
      BY <2>1, TimesOfMoves
  <1>4. ASSUME NEW t \in T, t \notin UpStop(x)
        PROVE  UpStep(x)[t] \in T
    <2> DEFINE p == t.pos
               q == Heap!Parent(p)
               u == Heap!Swapped(t, q)
               v == TimesOf(t, x, m)
               w == TimesOf(u, x, m)
    <2>1. q # 0 /\ Heap!LessThan(t, x, p, q)
      BY <1>3, <1>4 DEF UpStop, Heap!IsUp
    <2>2. p \in 2 .. m /\ q = p \div 2 /\ q \in 1 .. m
      BY <1>3, <2>1 DEF Heap!Parent
    <2>3. Like(u, r, m) /\ u \in Heap!Moves /\ u.pos = q /\ m <= Len(u.heap)
      <3>1. Like(u, r, m)
        BY <1>3, <2>2, SwapLike
      <3>2. u.pos = q
        BY DEF Heap!Swapped
      <3> QED
        BY <3>1, <3>2 DEF Like
    <2>4. w \in [1 .. m -> Nat]
      BY <2>3, TimesOfMoves
    <2>5. Exchanged(v, w, p, q, m)
      BY <1>3, <2>2, SwapExchanges
    <2>6. v[p] < v[q]
      BY <1>3, <2>1, <2>2 DEF Heap!LessThan, TimesOf
    <2>7. v \in [1 .. m -> Nat] /\ UpOrdered(v, p, m)
      BY <1>3
    <2> HIDE DEF v, w
    <2>8. UpOrdered(w, q, m)
      BY <2>2, <2>4, <2>5, <2>6, <2>7, UpGoes
    <2>9. UpStep(x)[t] = u
      BY <1>3 DEF UpStep
    <2> QED
      BY <2>3, <2>8, <2>9 DEF w
  <1> HIDE DEF T
  <1>5. T \in SUBSET Heap!Moves
    BY DEF T
  <1>6. f[s] \in T /\ f[s] \in UpStop(x)
    <2>1. /\ UpMeasure \in [Heap!Moves -> Nat]
          /\ Falls(Heap!Moves, UpStop(x), UpStep(x), UpMeasure)
      BY UpFalls
    <2>2. s \in T /\ \A t \in T \ UpStop(x) : UpStep(x)[t] \in T
      BY <1>1, <1>4
    <2>3. f = [t \in Heap!Moves |-> IF t \in UpStop(x) THEN t ELSE f[UpStep(x)[t]]]
      BY <1>2
    <2> QED
      BY ONLY <1>5, <2>1, <2>2, <2>3, LoopKeeps
  <1> DEFINE u == Heap!ShiftUp(s, x)
  <1>7. u \in T /\ u \in UpStop(x)
    BY <1>1, <1>2, <1>6
  <1> HIDE DEF u
  <1>8. /\ Like(u, r, m) /\ u.pos \in 1 .. m /\ m <= Len(u.heap)
        /\ UpOrdered(TimesOf(u, x, m), u.pos, m) /\ TimesOf(u, x, m) \in [1 .. m -> Nat]
    BY <1>3, <1>7
  <1> DEFINE v == TimesOf(u, x, m)
  <1>9. u.pos \div 2 = 0 \/ ~(v[u.pos] < v[u.pos \div 2])
    <2>1. u.pos \div 2 = 0 \/ u.pos \div 2 \in 1 .. m
      BY <1>8
    <2>2. Heap!IsUp(u, x)
      BY <1>7 DEF UpStop
    <2> QED
      BY <1>8, <2>1, <2>2 DEF Heap!IsUp, Heap!Parent, Heap!LessThan, TimesOf
  <1> HIDE DEF v
  <1>10. Ordered(v, m)
    BY <1>8, <1>9, UpEnds DEF v
  <1> QED
    BY <1>8, <1>10 DEF u, v

\* A node that may expire after its children moves down, and if it has moved it is in
\* its place.
LEMMA ShiftDownOrders ==
  ASSUME NEW x \in Times32, NEW r, NEW m \in Nat, NEW s, Like(s, r, m), m = Len(s.heap) - 1,
         DownOrdered(TimesOf(s, x, m), s.pos, m)
  PROVE  LET u == Heap!ShiftDown(s, x)
         IN /\ Like(u, r, m) /\ UpOrdered(TimesOf(u, x, m), u.pos, m)
            /\ u = s \/ (u.pos > s.pos /\ Ordered(TimesOf(u, x, m), m))
  <1> DEFINE Gone(t) == /\ t.pos > s.pos
                        /\ TimesOf(t, x, m)[t.pos \div 2] <= TimesOf(t, x, m)[t.pos]
             T == {t \in Heap!Moves : /\ Like(t, r, m) /\ Len(t.heap) = m + 1
                                      /\ DownOrdered(TimesOf(t, x, m), t.pos, m)
                                      /\ t = s \/ Gone(t)}
  <1>1. s \in Heap!Moves /\ s \in T
    <2>1. s \in Heap!Moves /\ Len(s.heap) \in Nat
      BY MovesAre DEF Like, Records
    <2> QED
      BY <2>1
  <1>2. PICK f : /\ f = [t \in Heap!Moves |-> IF t \in DownStop(x) THEN t
                                               ELSE f[DownStep(x)[t]]]
                 /\ \A t \in Heap!Moves : Heap!ShiftDown(t, x) = f[t]
    BY DownLoop
  <1>3. ASSUME NEW t \in T
        PROVE  /\ t \in Heap!Moves /\ Like(t, r, m) /\ t.pos \in 1 .. m /\ m <= Len(t.heap)
               /\ m = Len(t.heap) - 1
               /\ DownOrdered(TimesOf(t, x, m), t.pos, m)
               /\ TimesOf(t, x, m) \in [1 .. m -> Nat]
               /\ t = s \/ Gone(t)
    <2>1. /\ t \in Heap!Moves /\ Like(t, r, m) /\ t.pos \in 1 .. m /\ m <= Len(t.heap)
          /\ m = Len(t.heap) - 1
          /\ DownOrdered(TimesOf(t, x, m), t.pos, m)
          /\ t = s \/ Gone(t)
      BY DEF Like
    <2> QED
      BY <2>1, TimesOfMoves
  <1>4. ASSUME NEW t \in T, 2 * t.pos < Len(t.heap)
        PROVE  LET q == Heap!LesserChild(t, x)
                   v == TimesOf(t, x, m)
               IN q \in 2 .. m /\ First(v, t.pos, q, m)
    <2> DEFINE q == Heap!LesserChild(t, x)
    <2>1. t \in Heap!Moves /\ m = Len(t.heap) - 1
      BY <1>3
    <2>2. /\ q \in 2 .. m /\ q \div 2 = t.pos /\ t.pos < q
          /\ \A i \in 2 .. m : i \div 2 = t.pos => x[t.heap[q]] <= x[t.heap[i]]
      BY <1>4, <2>1, LesserChildIs
    <2> HIDE DEF q
    <2>3. \A i \in 2 .. m : TimesOf(t, x, m)[i] = x[t.heap[i]]
      BY DEF TimesOf
    <2> QED
      BY <2>2, <2>3 DEF q, First
  <1>5. ASSUME NEW t \in T, t \notin DownStop(x)
        PROVE  DownStep(x)[t] \in T
    <2> DEFINE p == t.pos
               q == Heap!LesserChild(t, x)
               u == Heap!Swapped(t, q)
               v == TimesOf(t, x, m)
               w == TimesOf(u, x, m)
    <2>1. 2 * p < Len(t.heap) /\ Heap!LessThan(t, x, q, p)
      BY <1>3, <1>5 DEF DownStop, Heap!IsDown
    <2>2. q \in 2 .. m /\ First(v, p, q, m)
      BY <1>4, <2>1
    <2>3. q \in 1 .. m /\ p \in 1 .. m
      BY <1>3, <2>2
    <2>4. Like(u, r, m) /\ u \in Heap!Moves /\ u.pos = q /\ m <= Len(u.heap)
      <3>1. Like(u, r, m)
        BY <1>3, <2>3, SwapLike
      <3>2. u.pos = q
        BY DEF Heap!Swapped
      <3> QED
        BY <3>1, <3>2 DEF Like
    <2>5. Len(u.heap) = m + 1
      <3>1. Len(u.heap) = Len(t.heap) /\ Len(t.heap) = m + 1
        BY <1>3, <2>4 DEF Like
      <3> QED
        BY <3>1
    <2>6. w \in [1 .. m -> Nat]
      BY <2>4, TimesOfMoves
    <2>7. Exchanged(v, w, p, q, m)
      BY <1>3, <2>3, SwapExchanges
    <2>8. v[q] < v[p]
      BY <2>1, <2>3 DEF Heap!LessThan, TimesOf
    <2>9. v \in [1 .. m -> Nat] /\ DownOrdered(v, p, m) /\ (p = s.pos \/ p > s.pos)
      BY <1>3
    <2>10. DownStep(x)[t] = u
      BY <1>3 DEF DownStep
    <2>11. s.pos \in Nat
      BY <1>1, MovesAre, HeapAssumption DEF Records, Heap!Ids
    <2> HIDE DEF p, q, u, v, w
    <2>13. DownOrdered(w, q, m) /\ w[p] <= w[q] /\ p < q
      BY <2>2, <2>3, <2>6, <2>7, <2>8, <2>9, DownGoes
    <2>14. u.pos > s.pos
      BY <2>2, <2>3, <2>4, <2>9, <2>11, <2>13
    <2>15. q \div 2 = p
      BY <2>2 DEF First
    <2>16. Gone(u) /\ DownOrdered(TimesOf(u, x, m), u.pos, m)
      BY <2>4, <2>13, <2>14, <2>15 DEF w
    <2> QED
      BY <2>4, <2>5, <2>10, <2>16
  <1>6. T \in SUBSET Heap!Moves
    OBVIOUS
  <1> HIDE DEF T
  <1>7. f[s] \in T /\ f[s] \in DownStop(x)
    <2>1. \A t \in T \ DownStop(x) : DownStep(x)[t] \in T
      BY <1>5
    <2>2. f = [t \in Heap!Moves |-> IF t \in DownStop(x) THEN t ELSE f[DownStep(x)[t]]]
      BY <1>2
    <2>3. /\ DownMeasure \in [Heap!Moves -> Nat]
          /\ Falls(Heap!Moves, DownStop(x), DownStep(x), DownMeasure)
      BY DownFalls
    <2>4. s \in T
      BY <1>1
    <2> HIDE DEF Gone
    <2> QED
      BY ONLY <1>6, <2>1, <2>2, <2>3, <2>4, LoopKeeps
  <1> DEFINE u == Heap!ShiftDown(s, x)
             v == TimesOf(u, x, m)
  <1>8. u \in T /\ u \in DownStop(x)
    BY <1>1, <1>2, <1>7
  <1> HIDE DEF u
  <1>9. /\ Like(u, r, m) /\ u.pos \in 1 .. m /\ m = Len(u.heap) - 1
        /\ DownOrdered(v, u.pos, m) /\ v \in [1 .. m -> Nat]
        /\ u = s \/ Gone(u)
    BY <1>3, <1>8
  <1>10. NoneBefore(v, u.pos, m)
    <2>1. SUFFICES ASSUME NEW i \in 2 .. m, i \div 2 = u.pos PROVE v[u.pos] <= v[i]
      BY DEF NoneBefore
    <2> DEFINE q == Heap!LesserChild(u, x)
    <2>2. 2 * u.pos < Len(u.heap)
      <3>1. Len(u.heap) \in Nat /\ u.pos \in Nat /\ i <= m /\ i >= 2 * u.pos
        <4>1. u \in Heap!Moves
          BY <1>9 DEF Like
        <4>2. Len(u.heap) \in Nat
          BY <4>1, MovesAre DEF Records
        <4> QED
          BY <1>9, <2>1, <4>2
      <3> QED
        BY <1>9, <3>1
    <2>3. q \in 2 .. m /\ v[q] <= v[i]
      BY <1>4, <1>8, <2>1, <2>2 DEF First
    <2>4. ~(x[u.heap[q]] < x[u.heap[u.pos]])
      <3>1. Heap!IsDown(u, x) /\ ~(2 * u.pos >= Len(u.heap))
        <4>1. Len(u.heap) \in Nat /\ u.pos \in Nat
          <5>1. u \in Records /\ u.pos \in 1 .. m
            BY <1>9, MovesAre DEF Like
          <5> QED
            BY <5>1 DEF Records
        <4> QED
          BY <1>8, <2>2, <4>1 DEF DownStop
      <3> QED
        BY <3>1 DEF Heap!IsDown, Heap!LessThan
    <2>5. v[q] = x[u.heap[q]] /\ v[u.pos] = x[u.heap[u.pos]]
      <3>1. q \in 1 .. m /\ u.pos \in 1 .. m
        BY <1>9, <2>3
      <3> HIDE DEF q
      <3> QED
        BY ONLY <3>1 DEF TimesOf, v
    <2> HIDE DEF v, q
    <2>6. v[q] \in Nat /\ v[u.pos] \in Nat /\ v[i] \in Nat
      <3>1. v \in [1 .. m -> Nat] /\ q \in 1 .. m /\ u.pos \in 1 .. m /\ i \in 1 .. m
        BY <1>9, <2>1, <2>3
      <3> QED
        BY ONLY <3>1
    <2> QED
      BY <2>3, <2>4, <2>5, <2>6
  <1>11. Gone(u) <=> u.pos > s.pos /\ v[u.pos \div 2] <= v[u.pos]
    OBVIOUS
  <1> HIDE DEF v, Gone
  <1>12. UpOrdered(v, u.pos, m)
    BY <1>9, <1>10, DownEnds
  <1>13. Gone(u) => Ordered(v, m)
    <2>1. SUFFICES ASSUME Gone(u) PROVE Ordered(v, m)
      OBVIOUS
    <2>2. u.pos \in 1 .. m /\ v \in [1 .. m -> Nat] /\ v[u.pos \div 2] <= v[u.pos]
      BY <1>9, <1>11, <2>1
    <2>3. u.pos \div 2 = 0 \/ u.pos \div 2 \in 1 .. m
      BY <2>2
    <2>4. u.pos \div 2 = 0 \/ ~(v[u.pos] < v[u.pos \div 2])
      <3>1. SUFFICES ASSUME u.pos \div 2 \in 1 .. m PROVE ~(v[u.pos] < v[u.pos \div 2])
        BY <2>3
      <3>2. v[u.pos] \in Nat /\ v[u.pos \div 2] \in Nat
        BY <2>2, <3>1
      <3> QED
        BY <2>2, <3>2
    <2> QED
      BY <1>12, <2>2, <2>4, UpEnds
  <1> QED
    BY <1>9, <1>11, <1>12, <1>13 DEF u, v

\* A node that may be out of place both ways is moved to its place.
LEMMA MendedOrders ==
  ASSUME NEW x \in Times32, NEW r, NEW m \in Nat, NEW s, Like(s, r, m), m = Len(s.heap) - 1,
         DownOrdered(TimesOf(s, x, m), s.pos, m)
  PROVE  LET u == Heap!Mended(s, x) IN Like(u, r, m) /\ Ordered(TimesOf(u, x, m), m)
  <1> DEFINE d == Heap!ShiftDown(s, x)
             u == Heap!Mended(s, x)
  <1>1. /\ Like(d, r, m) /\ UpOrdered(TimesOf(d, x, m), d.pos, m)
        /\ d = s \/ (d.pos > s.pos /\ Ordered(TimesOf(d, x, m), m))
    BY ShiftDownOrders
  <1>2. u = IF d.pos > s.pos THEN d ELSE Heap!ShiftUp(s, x)
    BY DEF Heap!Mended
  <1>3. s.pos \in Nat
    BY MovesAre, HeapAssumption DEF Like, Records, Heap!Ids
  <1> HIDE DEF d, u
  <1>4. CASE d = s
    <2>1. UpOrdered(TimesOf(s, x, m), s.pos, m) /\ u = Heap!ShiftUp(s, x)
      BY <1>1, <1>2, <1>3, <1>4
    <2>2. LET h == Heap!ShiftUp(s, x) IN Like(h, r, m) /\ Ordered(TimesOf(h, x, m), m)
      BY <2>1, ShiftUpOrders
    <2> QED
      BY <2>1, <2>2 DEF u
  <1>5. CASE d # s
    BY <1>1, <1>2, <1>5 DEF u
  <1> QED
    BY <1>4, <1>5

-----------------------------------------------------------------------------
(* The invariant                                                            *)

\* The heap h and the map k hold the same nodes, ix says where in the heap they are and
\* no node expires, says x, before its parent.
WellHeap(h, ix, x, k) ==
  /\ h \in Seq(Heap!Ids) /\ ix \in [Heap!Ids -> Nat] /\ x \in Times32
  /\ \A i \in 1 .. Len(h) : ix[h[i]] = i
  /\ k = {h[i] : i \in 1 .. Len(h)}
  /\ Ordered([i \in 1 .. Len(h) |-> x[h[i]]], Len(h))

HeapInv ==
  /\ WellHeap(heap, idx, due, known)
  /\ hclock \in 0 .. MaxClock /\ count \in 0 .. HeapTimers
  /\ known \subseteq 1 .. count /\ hfired \subseteq 1 .. count
  /\ hrunning \in known \cup {0} /\ hnow \in 0 .. hclock

\* Different places hold different nodes: there are as many as the map knows.
LEMMA HeapCounts ==
  ASSUME NEW h, NEW ix, NEW x, NEW k, WellHeap(h, ix, x, k),
         NEW n \in 0 .. HeapTimers, k \subseteq 1 .. n
  PROVE  /\ Len(h) \in Nat /\ Len(h) <= n /\ Cardinality(k) = Len(h)
         /\ \A i \in 1 .. Len(h) : h[i] \in k /\ h[i] \in Heap!Ids
  <1> DEFINE g == [i \in 1 .. Len(h) |-> h[i]]
  <1>1. /\ Len(h) \in Nat /\ \A i \in 1 .. Len(h) : h[i] \in k /\ h[i] \in Heap!Ids
    BY DEF WellHeap
  <1>2. IsFiniteSet(1 .. n) /\ Cardinality(1 .. n) = n
    BY FS_Interval, HeapAssumption
  <1>3. IsFiniteSet(k) /\ Cardinality(k) <= n
    BY <1>2, FS_Subset
  <1>4. IsFiniteSet(1 .. Len(h)) /\ Cardinality(1 .. Len(h)) = Len(h)
    <2>1. ASSUME NEW l \in Nat
          PROVE  IsFiniteSet(1 .. l) /\ Cardinality(1 .. l) = l
      BY FS_Interval
    <2> QED
      BY <1>1, <2>1
  <1>5. g \in Bijection(1 .. Len(h), k)
    <2>1. \A i, j \in 1 .. Len(h) : h[i] = h[j] => i = j
      BY DEF WellHeap
    <2>2. \A y \in k : \E i \in 1 .. Len(h) : h[i] = y
      BY DEF WellHeap
    <2> QED
      BY <1>1, <2>1, <2>2 DEF Bijection, Injection, Surjection, IsInjective
  <1>6. ExistsBijection(1 .. Len(h), k)
    BY <1>5 DEF ExistsBijection
  <1>7. Cardinality(k) = Len(h)
    BY <1>4, <1>6, FS_Bijection
  <1> QED
    BY <1>1, <1>3, <1>7

LEMMA HeapStarts == Heap!Init => HeapInv
  <1> SUFFICES ASSUME Heap!Init PROVE HeapInv
    OBVIOUS
  <1>1. WellHeap(heap, idx, due, known)
    BY HeapAssumption DEF Heap!Init, WellHeap, Ordered, Times32
  <1> QED
    BY <1>1, HeapAssumption DEF Heap!Init, HeapInv

\* What ShiftUp leaves in the heap.
LEMMA AddKeepsHeap ==
  ASSUME NEW h, NEW ix, NEW x, NEW k, WellHeap(h, ix, x, k), NEW n \in 0 .. HeapTimers,
         k \subseteq 1 .. n, n < HeapTimers, NEW d \in Nat
  PROVE  LET id == n + 1
             y  == [x EXCEPT ![id] = d]
             s  == Heap!ShiftUp([heap |-> Append(h, id), idx |-> [ix EXCEPT ![id] = Len(h) + 1],
                                 pos |-> Len(h) + 1], y)
         IN WellHeap(s.heap, s.idx, y, k \cup {id})
  <1> DEFINE id == n + 1
             y  == [x EXCEPT ![id] = d]
             m  == Len(h) + 1
             r  == [heap |-> Append(h, id), idx |-> [ix EXCEPT ![id] = m], pos |-> m]
             s  == Heap!ShiftUp(r, y)
  <1>1. /\ Len(h) \in Nat /\ Len(h) <= n /\ n \in Nat /\ id \in Heap!Ids
        /\ \A i \in 1 .. Len(h) : h[i] \in k /\ h[i] \in Heap!Ids /\ h[i] # id
    <2>1. /\ Len(h) \in Nat /\ Len(h) <= n
          /\ \A i \in 1 .. Len(h) : h[i] \in k /\ h[i] \in Heap!Ids
      BY HeapCounts
    <2>2. n \in Nat /\ id \in Heap!Ids /\ id \notin k
      BY HeapAssumption DEF Heap!Ids
    <2> QED
      BY <2>1, <2>2
  <1>2. /\ m \in 1 .. HeapTimers /\ r.pos = m /\ r.heap \in Seq(Heap!Ids) /\ Len(r.heap) = m
        /\ r.heap[m] = id /\ \A i \in 1 .. Len(h) : r.heap[i] = h[i]
    BY <1>1, HeapAssumption DEF WellHeap
  <1>3. y \in Times32 /\ \A i \in 1 .. Len(h) : y[h[i]] = x[h[i]]
    BY <1>1 DEF WellHeap, Times32
  <1>4. r \in Heap!Moves
    <2>1. r.idx \in [Heap!Ids -> Nat]
      BY <1>1 DEF WellHeap
    <2>2. r \in Records
      BY <1>2, <2>1 DEF Records, Heap!Ids
    <2> QED
      BY <1>2, <2>2, MovesAre
  <1>5. Known(r)
    <2>1. SUFFICES ASSUME NEW i \in 1 .. m PROVE r.idx[r.heap[i]] = i
      BY <1>2 DEF Known
    <2>2. ix \in [Heap!Ids -> Nat] /\ \A j \in 1 .. Len(h) : ix[h[j]] = j
      BY DEF WellHeap
    <2>3. CASE i = m
      BY <1>1, <1>2, <2>2, <2>3
    <2>4. CASE i # m
      <3>1. i \in 1 .. Len(h)
        BY <1>1, <2>4
      <3> QED
        BY <1>1, <1>2, <2>2, <3>1
    <2> QED
      BY <2>3, <2>4
  <1>6. UpOrdered(TimesOf(r, y, m), m, m)
    <2> DEFINE v == TimesOf(r, y, m)
    <2>1. \A i \in 1 .. Len(h) : v[i] = x[h[i]]
      BY <1>1, <1>2, <1>3 DEF TimesOf
    <2>2. \A i \in 2 .. Len(h) : x[h[i \div 2]] <= x[h[i]]
      <3>1. SUFFICES ASSUME NEW i \in 2 .. Len(h) PROVE x[h[i \div 2]] <= x[h[i]]
        OBVIOUS
      <3>2. i \in 1 .. Len(h) /\ i \div 2 \in 1 .. Len(h)
        BY <1>1
      <3> QED
        BY <3>2 DEF WellHeap, Ordered
    <2> HIDE DEF v
    <2>3. ASSUME NEW i \in 2 .. m, i # m
          PROVE  v[i \div 2] <= v[i]
      <3>1. i \in 2 .. Len(h) /\ i \in 1 .. Len(h) /\ i \div 2 \in 1 .. Len(h)
        BY <1>1, <2>3
      <3> QED
        BY <2>1, <2>2, <3>1
    <2>4. Grandchildren(v, m, m)
      <3>1. \A i \in 2 .. m : i \div 2 # m
        BY <1>1
      <3> QED
        BY <3>1 DEF Grandchildren
    <2> QED
      BY <2>3, <2>4 DEF UpOrdered, v
  <1>7. Like(r, r, m)
    BY <1>2, <1>4, <1>5 DEF Like
  <1> HIDE DEF m, y, r
  <1>8. m \in Nat
    BY <1>2
  <1>9. Like(s, r, m) /\ Ordered(TimesOf(s, y, m), m)
    BY <1>2, <1>3, <1>6, <1>7, <1>8, ShiftUpOrders
  <1> HIDE DEF s
  <1>10. s \in Records /\ Len(s.heap) = m /\ Known(s)
    BY <1>2, <1>9, MovesAre DEF Like
  <1>11. k \cup {id} = {s.heap[i] : i \in 1 .. m}
    <2>1. {r.heap[i] : i \in 1 .. m} = k \cup {id}
      <3>1. k = {h[i] : i \in 1 .. Len(h)}
        BY DEF WellHeap
      <3>2. \A i \in 1 .. m : i = m \/ i \in 1 .. Len(h)
        BY <1>1 DEF m
      <3>3. m \in 1 .. m /\ \A i \in 1 .. Len(h) : i \in 1 .. m
        BY <1>1 DEF m
      <3> QED
        BY <1>2, <3>1, <3>2, <3>3
    <2> QED
      BY <1>9, <2>1 DEF Like
  <1>12. WellHeap(s.heap, s.idx, y, k \cup {id})
    BY <1>3, <1>9, <1>10, <1>11 DEF WellHeap, Known, Records, TimesOf
  <1> QED
    BY <1>12 DEF s, r, m, y

\* The node at the last place leaves.
LEMMA LastLeaves ==
  ASSUME NEW u \in Records, NEW x \in Times32, Known(u),
         NEW m \in Nat, Len(u.heap) = m + 1, Ordered(TimesOf(u, x, m), m),
         NEW id \in Heap!Ids, u.heap[m + 1] = id
  PROVE  WellHeap(SubSeq(u.heap, 1, m), [u.idx EXCEPT ![id] = 0], [x EXCEPT ![id] = 0],
                  {u.heap[i] : i \in 1 .. m + 1} \ {id})
  <1> DEFINE h == SubSeq(u.heap, 1, m)
             ix == [u.idx EXCEPT ![id] = 0]
             y == [x EXCEPT ![id] = 0]
             k == {u.heap[i] : i \in 1 .. m + 1} \ {id}
  <1>1. u.heap \in Seq(Heap!Ids) /\ u.idx \in [Heap!Ids -> Nat]
    BY DEF Records
  <1>2. h \in Seq(Heap!Ids) /\ Len(h) = m /\ \A i \in 1 .. m : h[i] = u.heap[i]
    BY <1>1
  <1>3. ASSUME NEW i \in 1 .. m
        PROVE  u.heap[i] \in Heap!Ids /\ u.idx[u.heap[i]] = i /\ u.heap[i] # id
    <2>1. i \in 1 .. m + 1 /\ m + 1 \in 1 .. m + 1 /\ i # m + 1
      OBVIOUS
    <2>2. u.idx[u.heap[i]] = i /\ u.idx[u.heap[m + 1]] = m + 1
      BY <2>1 DEF Known
    <2> QED
      BY <1>1, <2>1, <2>2
  <1>4. ix \in [Heap!Ids -> Nat] /\ y \in Times32
    BY <1>1 DEF Times32
  <1>5. \A i \in 1 .. m : ix[h[i]] = i /\ y[h[i]] = x[u.heap[i]]
    BY <1>1, <1>2, <1>3 DEF Times32
  <1>6. k = {h[i] : i \in 1 .. m}
    <2>1. \A i \in 1 .. m + 1 : i \in 1 .. m \/ i = m + 1
      OBVIOUS
    <2>2. \A i \in 1 .. m : i \in 1 .. m + 1
      OBVIOUS
    <2> QED
      BY <1>2, <1>3, <2>1, <2>2
  <1> HIDE DEF h, ix, y, k
  <1>7. Ordered([i \in 1 .. Len(h) |-> y[h[i]]], Len(h))
    <2>1. [i \in 1 .. m |-> y[h[i]]] = TimesOf(u, x, m)
      BY <1>5 DEF TimesOf
    <2> QED
      BY <1>2, <2>1
  <1> QED
    BY <1>2, <1>4, <1>5, <1>6, <1>7 DEF WellHeap, h, ix, y, k

\* What DelNode leaves in the heap: the node at p goes, m others stay.
LEMMA DelKeepsHeap ==
  ASSUME NEW h, NEW ix, NEW x, NEW k, WellHeap(h, ix, x, k), NEW n \in 0 .. HeapTimers,
         k \subseteq 1 .. n, NEW id \in k, NEW p, p = ix[id], NEW m, m = Len(h) - 1,
         NEW s, s = [heap |-> h, idx |-> ix, pos |-> Len(h)],
         NEW u, u = IF p = Len(h) THEN s ELSE Heap!Mended(Heap!Swapped(s, p), x)
  PROVE  WellHeap(SubSeq(u.heap, 1, m), [u.idx EXCEPT ![id] = 0], [x EXCEPT ![id] = 0],
                  k \ {id})
  <1>1. /\ h \in Seq(Heap!Ids) /\ Len(h) \in Nat /\ Len(h) <= HeapTimers
        /\ \A i \in 1 .. Len(h) : h[i] \in k /\ h[i] \in Heap!Ids /\ ix[h[i]] = i
        /\ k = {h[i] : i \in 1 .. Len(h)}
        /\ x \in Times32 /\ ix \in [Heap!Ids -> Nat]
    <2>1. /\ Len(h) \in Nat /\ Len(h) <= n
          /\ \A i \in 1 .. Len(h) : h[i] \in k /\ h[i] \in Heap!Ids
      BY HeapCounts
    <2>2. Len(h) <= HeapTimers
      BY <2>1, HeapAssumption
    <2> QED
      BY <2>1, <2>2 DEF WellHeap
  <1>2. /\ p \in 1 .. m + 1 /\ h[p] = id /\ id \in Heap!Ids
        /\ Len(h) = m + 1 /\ m \in Nat
    <2>1. PICK i \in 1 .. Len(h) : h[i] = id
      BY <1>1
    <2>2. p = i
      BY <1>1, <2>1
    <2> QED
      BY <1>1, <2>1, <2>2
  <1>3. s.heap = h /\ s.idx = ix /\ s.pos = m + 1 /\ s \in Heap!Moves /\ Known(s)
    <2>1. s \in Records
      <3>1. Len(h) \in Heap!Ids
        BY <1>1, <1>2, HeapAssumption DEF Heap!Ids
      <3> QED
        BY <1>1, <3>1 DEF Records
    <2>2. s.pos <= Len(s.heap) /\ Len(s.heap) <= HeapTimers
      BY <1>1
    <2> QED
      BY <1>1, <1>2, <2>1, <2>2, MovesAre DEF Known
  <1>4. \A i \in 2 .. m + 1 : i \div 2 \in 1 .. m + 1 /\ x[h[i \div 2]] <= x[h[i]]
    <2>1. SUFFICES ASSUME NEW i \in 2 .. m + 1
                   PROVE  i \div 2 \in 1 .. m + 1 /\ x[h[i \div 2]] <= x[h[i]]
      OBVIOUS
    <2>2. i \in 1 .. m + 1 /\ i \div 2 \in 1 .. m + 1
      BY <1>2
    <2> QED
      BY <1>2, <2>2 DEF WellHeap, Ordered
  <1>5. CASE p = m + 1
    <2>1. u = s
      BY <1>2, <1>5
    <2>2. Ordered(TimesOf(s, x, m), m)
      <3>1. ASSUME NEW i \in 2 .. m
            PROVE  TimesOf(s, x, m)[i \div 2] <= TimesOf(s, x, m)[i]
        <4>1. i \in 2 .. m + 1 /\ i \in 1 .. m /\ i \div 2 \in 1 .. m
          BY <1>2
        <4> QED
          BY <1>3, <1>4, <4>1 DEF TimesOf
      <3> QED
        BY <3>1 DEF Ordered
    <2>3. s \in Records
      BY <1>3, MovesAre
    <2>4. k = {s.heap[i] : i \in 1 .. m + 1} /\ Len(s.heap) = m + 1 /\ s.heap[m + 1] = id
      BY <1>1, <1>2, <1>3, <1>5
    <2>5. WellHeap(SubSeq(s.heap, 1, m), [s.idx EXCEPT ![id] = 0], [x EXCEPT ![id] = 0],
                   {s.heap[i] : i \in 1 .. m + 1} \ {id})
      BY <1>1, <1>2, <1>3, <2>2, <2>3, <2>4, LastLeaves
    <2> QED
      BY <2>1, <2>4, <2>5
  <1>6. CASE p # m + 1
    <2> DEFINE r == Heap!Swapped(s, p)
    <2>1. u = Heap!Mended(r, x)
      BY <1>2, <1>6
    <2>2. p \in 1 .. m /\ p \in 1 .. Len(s.heap) /\ m + 1 \in Nat /\ m + 1 \in 1 .. m + 1
      BY <1>2, <1>3, <1>6
    <2>3. /\ r \in Heap!Moves /\ Len(r.heap) = m + 1 /\ r.pos = p
          /\ r.heap[p] = h[m + 1] /\ r.heap[m + 1] = id
          /\ \A i \in 1 .. m + 1 : i # p /\ i # m + 1 => r.heap[i] = h[i]
      <3>1. /\ r \in Heap!Moves /\ Len(r.heap) = Len(s.heap) /\ r.pos = p
            /\ r.heap[p] = s.heap[s.pos] /\ r.heap[s.pos] = s.heap[p]
            /\ \A i \in 1 .. Len(s.heap) : i # p /\ i # s.pos => r.heap[i] = s.heap[i]
            /\ r.idx = [s.idx EXCEPT ![s.heap[s.pos]] = p, ![s.heap[p]] = s.pos]
        <4>1. s \in Heap!Moves /\ p \in 1 .. Len(s.heap)
          BY <1>3, <2>2
        <4> QED
          BY ONLY <4>1, Swaps, Zenon DEF r
      <3> HIDE DEF r
      <3>2. Len(s.heap) = m + 1 /\ s.pos = m + 1 /\ s.heap = h /\ h[p] = id
        BY <1>2, <1>3
      <3> QED
        BY ONLY <3>1, <3>2, Zenon
    <2>4. Known(r) /\ {r.heap[i] : i \in 1 .. m + 1} = k
      <3>1. Like(s, s, m + 1)
        BY <1>2, <1>3, <2>2 DEF Like
      <3>2. Like(r, s, m + 1)
        BY <1>2, <1>3, <2>2, <3>1, SwapLike
      <3> HIDE DEF r
      <3>3. k = {s.heap[i] : i \in 1 .. m + 1}
        BY <1>1, <1>2, <1>3
      <3> QED
        BY <3>2, <3>3 DEF Like
    <2> HIDE DEF r
    <2>5. m <= m + 1 /\ m + 1 \in m + 1 .. m + 1
      BY <1>2
    <2>6. Like(r, r, m)
      BY <2>2, <2>3, <2>4, <2>5 DEF Like
    <2>7. DownOrdered(TimesOf(r, x, m), p, m)
      <3> DEFINE v == TimesOf(r, x, m)
      <3>1. \A i \in 1 .. m : i # p => v[i] = x[h[i]]
        <4>1. \A i \in 1 .. m : i \in 1 .. m + 1 /\ i # m + 1
          BY <1>2
        <4> QED
          BY <2>3, <4>1 DEF TimesOf
      <3> HIDE DEF v
      <3>2. \A i \in 2 .. m : i \in 2 .. m + 1 /\ i \in 1 .. m /\ i \div 2 \in 1 .. m
        BY <1>2
      <3>3. \A i \in 1 .. m : x[h[i]] \in Nat
        <4>1. \A i \in 1 .. m : i \in 1 .. Len(h)
          BY <1>2
        <4> QED
          BY <1>1, <4>1 DEF Times32
      <3>4. ASSUME NEW i \in 2 .. m, i # p, i \div 2 # p
            PROVE  v[i \div 2] <= v[i]
        BY <1>4, <3>1, <3>2, <3>4
      <3>5. ASSUME NEW i \in 2 .. m, i \div 2 = p, p >= 2
            PROVE  v[p \div 2] <= v[i]
        <4>1. p \in 2 .. m /\ p # i /\ p \div 2 # p
          BY <2>2, <3>5
        <4>2. /\ x[h[p \div 2]] <= x[h[p]] /\ x[h[p]] <= x[h[i]]
              /\ p \in 1 .. m /\ i \in 1 .. m /\ p \div 2 \in 1 .. m
          BY <1>4, <3>2, <3>5, <4>1
        <4>3. v[p \div 2] = x[h[p \div 2]] /\ v[i] = x[h[i]]
          BY <3>1, <4>1, <4>2
        <4>4. x[h[p \div 2]] \in Nat /\ x[h[p]] \in Nat /\ x[h[i]] \in Nat
          BY <3>3, <4>2
        <4> DEFINE a == x[h[p \div 2]]
                   b == x[h[p]]
                   c == x[h[i]]
        <4>5. a <= c
          <5>1. a \in Nat /\ b \in Nat /\ c \in Nat /\ a <= b /\ b <= c
            BY <4>2, <4>4
          <5> HIDE DEF a, b, c
          <5> QED
            BY <5>1
        <4> QED
          BY <4>3, <4>5
      <3> QED
        BY <3>4, <3>5 DEF DownOrdered, Grandchildren, v
    <2>8. m = Len(r.heap) - 1
      BY <1>2, <2>3
    <2>9. Like(u, r, m) /\ Ordered(TimesOf(u, x, m), m)
      <3>1. DownOrdered(TimesOf(r, x, m), r.pos, m) /\ m \in Nat /\ x \in Times32
        BY <1>1, <1>2, <2>3, <2>7
      <3> QED
        BY <2>1, <2>6, <2>8, <3>1, MendedOrders
    <2>10. /\ u \in Records /\ Known(u) /\ Len(u.heap) = m + 1
           /\ u.heap[m + 1] = id
      <3>1. u.heap[m + 1] = r.heap[m + 1] /\ Len(u.heap) = Len(r.heap)
        BY <2>3, <2>5, <2>9 DEF Like
      <3> QED
        BY <2>3, <2>9, <3>1, MovesAre DEF Like
    <2>11. {u.heap[i] : i \in 1 .. m + 1} = k
      <3>1. {u.heap[i] : i \in 1 .. m} = {r.heap[i] : i \in 1 .. m}
        BY <2>9 DEF Like
      <3>2. u.heap[m + 1] = r.heap[m + 1]
        BY <2>3, <2>10
      <3>3. \A i : i \in 1 .. m + 1 <=> i \in 1 .. m \/ i = m + 1
        BY <1>2
      <3> DEFINE L == 1 .. m + 1
      <3>4. ASSUME NEW j \in L
            PROVE  /\ \E i \in L : u.heap[j] = r.heap[i]
                   /\ \E i \in L : r.heap[j] = u.heap[i]
        <4>1. CASE j = m + 1
          BY <3>2, <4>1
        <4>2. CASE j \in 1 .. m
          <5>1. PICK i \in 1 .. m : u.heap[j] = r.heap[i]
            BY <3>1, <4>2
          <5>2. PICK l \in 1 .. m : r.heap[j] = u.heap[l]
            BY <3>1, <4>2
          <5> QED
            BY <3>3, <5>1, <5>2
        <4> QED
          BY <3>3, <4>1, <4>2
      <3> HIDE DEF L
      <3>5. {u.heap[i] : i \in L} = {r.heap[i] : i \in L}
        <4> DEFINE f == u.heap
                   g == r.heap
        <4>1. \A j \in L : \E i \in L : f[j] = g[i]
          BY <3>4
        <4>2. \A j \in L : \E i \in L : g[j] = f[i]
          BY <3>4
        <4> HIDE DEF f, g
        <4>3. {f[i] : i \in L} = {g[i] : i \in L}
          BY ONLY <4>1, <4>2
        <4> QED
          BY <4>3 DEF f, g
      <3> QED
        BY <2>4, <3>5 DEF L
    <2>12. WellHeap(SubSeq(u.heap, 1, m), [u.idx EXCEPT ![id] = 0], [x EXCEPT ![id] = 0],
                    {u.heap[i] : i \in 1 .. m + 1} \ {id})
      BY <1>1, <1>2, <2>9, <2>10, LastLeaves
    <2> QED
      BY <2>11, <2>12
  <1> QED
    BY <1>5, <1>6

LEMMA HeapDeletes ==
  ASSUME HeapInv, NEW id \in known, Heap!DelNode(id)
  PROVE  WellHeap(heap', idx', due', known') /\ known' = known \ {id}
  <1>1. PICK u : /\ LET s == [heap |-> heap, idx |-> idx, pos |-> Len(heap)]
                    IN u = IF idx[id] = Len(heap) THEN s
                           ELSE Heap!Mended(Heap!Swapped(s, idx[id]), due)
                 /\ heap' = SubSeq(u.heap, 1, Len(heap) - 1)
                 /\ idx' = [u.idx EXCEPT ![id] = 0]
                 /\ due' = [due EXCEPT ![id] = 0]
                 /\ known' = known \ {id}
    BY DEF Heap!DelNode
  <1>2. WellHeap(heap, idx, due, known) /\ count \in 0 .. HeapTimers /\ known \subseteq 1 .. count
    BY DEF HeapInv
  <1>3. WellHeap(SubSeq(u.heap, 1, Len(heap) - 1), [u.idx EXCEPT ![id] = 0],
                 [due EXCEPT ![id] = 0], known \ {id})
    BY <1>1, <1>2, DelKeepsHeap
  <1> QED
    BY <1>1, <1>3

LEMMA HandlerCalled ==
  ASSUME NEW n \in Nat, NEW k, k \subseteq 1 .. n, hfired \subseteq 1 .. n,
         NEW front \in k \cup {0}, NEW c \in Nat, NEW t \in 0 .. c, Heap!CallHandler(front, t)
  PROVE  hfired' \subseteq 1 .. n /\ hrunning' \in k \cup {0} /\ hnow' \in 0 .. c
  <1>1. CASE front # 0 /\ Heap!Due(front, t)
    <2>1. hrunning' = front /\ hnow' = t /\ hfired' = hfired \cup {front}
      BY <1>1 DEF Heap!CallHandler
    <2>2. front \in 1 .. n
      BY <1>1
    <2> QED
      BY <2>1, <2>2
  <1>2. CASE ~(front # 0 /\ Heap!Due(front, t))
    <2>1. hrunning' = 0 /\ hnow' = 0 /\ hfired' = hfired
      BY <1>2 DEF Heap!CallHandler
    <2> QED
      BY <2>1
  <1> QED
    BY <1>1, <1>2

LEMMA HeapNext ==
  ASSUME HeapInv, Heap!Next
  PROVE  HeapInv'
  <1>1. /\ WellHeap(heap, idx, due, known)
        /\ hclock \in 0 .. MaxClock /\ count \in 0 .. HeapTimers
        /\ known \subseteq 1 .. count /\ hfired \subseteq 1 .. count
        /\ hrunning \in known \cup {0} /\ hnow \in 0 .. hclock
        /\ HeapTimers \in Nat /\ MaxClock \in Nat
    BY HeapAssumption DEF HeapInv
  <1>2. ASSUME WellHeap(heap', idx', due', known'), hclock' \in 0 .. MaxClock,
               count' \in 0 .. HeapTimers, known' \subseteq 1 .. count',
               hfired' \subseteq 1 .. count', hrunning' \in known' \cup {0}, hnow' \in 0 .. hclock'
        PROVE  HeapInv'
    BY <1>2 DEF HeapInv, WellHeap, Ordered, Times32, Heap!Ids
  <1>3. ASSUME Heap!Tick
        PROVE  HeapInv'
    <2>1. hclock' \in 0 .. MaxClock /\ hnow' \in 0 .. hclock'
      BY <1>1, <1>3 DEF Heap!Tick
    <2> QED
      BY <1>1, <1>2, <1>3, <2>1 DEF Heap!Tick
  <1>4. ASSUME NEW delay \in HeapDelays, Heap!AddTimer(delay)
        PROVE  HeapInv'
    <2> DEFINE d == (hclock + delay) % Range32
    <2>1. d \in Nat
      <3>1. hclock \in Nat /\ delay \in Nat /\ Range32 \in Nat /\ Range32 > 0
        <4>1. delay \in Nat /\ Range32 \in Nat /\ MaxClock + delay < Range32
          BY HeapAssumption
        <4> QED
          BY <1>1, <4>1
      <3> QED
        BY <3>1
    <2> HIDE DEF d
    <2>2. count < HeapTimers
      BY <1>4 DEF Heap!AddTimer
    <2>3. LET id == count + 1
              y  == [due EXCEPT ![id] = d]
              s  == Heap!ShiftUp([heap |-> Append(heap, id),
                                  idx |-> [idx EXCEPT ![id] = Len(heap) + 1],
                                  pos |-> Len(heap) + 1], y)
          IN WellHeap(s.heap, s.idx, y, known \cup {id})
      BY <1>1, <2>1, <2>2, AddKeepsHeap
    <2>4. WellHeap(heap', idx', due', known')
      BY <1>4, <2>3 DEF Heap!AddTimer, d
    <2>5. /\ count' = count + 1 /\ known' = known \cup {count + 1}
          /\ UNCHANGED <<hclock, hnow, hrunning, hfired>>
      BY <1>4 DEF Heap!AddTimer
    <2>6. /\ count' \in 0 .. HeapTimers /\ known' \subseteq 1 .. count'
          /\ hfired' \subseteq 1 .. count'
      BY <1>1, <2>2, <2>5
    <2> QED
      BY <1>1, <1>2, <2>4, <2>5, <2>6
  <1>5. ASSUME NEW id \in Heap!Ids, Heap!DelTimer(id)
        PROVE  HeapInv'
    <2>1. /\ id \in known /\ id # hrunning /\ Heap!DelNode(id)
          /\ UNCHANGED <<hclock, count, hnow, hrunning, hfired>>
      BY <1>5 DEF Heap!DelTimer
    <2>2. WellHeap(heap', idx', due', known') /\ known' = known \ {id}
      BY <2>1, HeapDeletes
    <2> QED
      BY <1>1, <1>2, <2>1, <2>2
  <1>6. ASSUME Heap!ExpireTimer
        PROVE  HeapInv'
    <2>1. /\ heap # <<>> /\ Heap!CallHandler(heap[1], hclock)
          /\ UNCHANGED <<hclock, heap, idx, due, known, count>>
      BY <1>6 DEF Heap!ExpireTimer
    <2>2. heap[1] \in known
      BY <1>1, <2>1 DEF WellHeap
    <2>3. /\ hfired' \subseteq 1 .. count /\ hrunning' \in known \cup {0} /\ hnow' \in 0 .. hclock
      <3>1. hclock \in 0 .. hclock /\ hclock \in Nat /\ count \in Nat
        BY <1>1
      <3> QED
        BY <1>1, <2>1, <2>2, <3>1, HandlerCalled
    <2> QED
      BY <1>1, <1>2, <2>1, <2>3
  <1>7. ASSUME Heap!HandlerReturns
        PROVE  HeapInv'
    <2> DEFINE front == IF heap' = <<>> THEN 0 ELSE heap'[1]
    <2>1. /\ hrunning # 0 /\ Heap!DelNode(hrunning) /\ Heap!CallHandler(front, hnow)
          /\ UNCHANGED <<hclock, count>>
      BY <1>7 DEF Heap!HandlerReturns
    <2>2. WellHeap(heap', idx', due', known') /\ known' = known \ {hrunning}
      BY <1>1, <2>1, HeapDeletes
    <2>3. front \in known' \cup {0}
      <3>1. CASE heap' = <<>>
        BY <3>1
      <3>2. CASE heap' # <<>>
        <4>1. 1 \in 1 .. Len(heap')
          BY <2>2, <3>2 DEF WellHeap
        <4> QED
          BY <2>2, <3>2, <4>1 DEF WellHeap
      <3> QED
        BY <3>1, <3>2
    <2> HIDE DEF front
    <2>4. /\ hfired' \subseteq 1 .. count /\ hrunning' \in known' \cup {0} /\ hnow' \in 0 .. hclock
      <3>1. hclock \in Nat /\ count \in Nat /\ known' \subseteq 1 .. count
        BY <1>1, <2>2
      <3> QED
        BY <1>1, <2>1, <2>3, <3>1, HandlerCalled
    <2> QED
      BY <1>1, <1>2, <2>1, <2>2, <2>4
  <1> QED
    BY <1>3, <1>4, <1>5, <1>6, <1>7 DEF Heap!Next

\* In every order in which timers are added, cancelled and fired, no timer of the heap is
\* due before the one it is below, and every timer knows its place (minheap.cc:34-139).
THEOREM TimersKeepOrder == PartsSpec => []HeapOrdered
  <1>1. PartsInit => HeapInv
    BY HeapStarts DEF PartsInit
  <1>2. HeapInv /\ [WheelStep \/ HeapStep \/ ListStep \/ Stopped]_allVars => HeapInv'
    <2> SUFFICES ASSUME HeapInv, [WheelStep \/ HeapStep \/ ListStep \/ Stopped]_allVars
                 PROVE  HeapInv'
      OBVIOUS
    <2>1. CASE HeapStep
      BY <2>1, HeapNext DEF HeapStep
    <2>2. CASE UNCHANGED heapVars
      BY <2>2 DEF heapVars, HeapInv, WellHeap, Ordered, Times32, Heap!Ids
    <2>3. HeapStep \/ UNCHANGED heapVars
      BY DEF WheelStep, ListStep, Stopped, allVars
    <2> QED
      BY <2>1, <2>2, <2>3
  <1>3. HeapInv => HeapOrdered
    <2> SUFFICES ASSUME HeapInv PROVE HeapOrdered
      OBVIOUS
    <2>1. /\ WellHeap(heap, idx, due, known)
          /\ hclock \in 0 .. MaxClock /\ count \in 0 .. HeapTimers
          /\ known \subseteq 1 .. count /\ hrunning \in known \cup {0}
      BY DEF HeapInv
    <2>2. Len(heap) \in Nat /\ Cardinality(known) = Len(heap) /\ DOMAIN heap = 1 .. Len(heap)
      <3>1. Len(heap) \in Nat /\ Cardinality(known) = Len(heap)
        BY <2>1, HeapCounts
      <3>2. heap \in Seq(Heap!Ids)
        BY <2>1 DEF WellHeap
      <3> QED
        BY <3>1, <3>2
    <2>3. known = {heap[i] : i \in DOMAIN heap} /\ \A i \in DOMAIN heap : idx[heap[i]] = i
      BY <2>1, <2>2 DEF WellHeap
    <2>4. ASSUME NEW i \in 2 .. Len(heap)
          PROVE  due[heap[i \div 2]] <= due[heap[i]]
      <3>1. i \in 1 .. Len(heap) /\ i \div 2 \in 1 .. Len(heap)
        BY <2>2
      <3> QED
        BY <2>1, <3>1 DEF WellHeap, Ordered
    <2> QED
      <3>1. known = {heap[i] : i \in DOMAIN heap} /\ Cardinality(known) = Len(heap)
        BY <2>2, <2>3
      <3>2. \A i \in DOMAIN heap : idx[heap[i]] = i
        BY <2>3
      <3>3. \A i \in 2 .. Len(heap) : due[heap[i \div 2]] <= due[heap[i]]
        BY <2>4
      <3>4. Heap!Cardinality(known) = Cardinality(known)
        BY DEF Heap!Cardinality, Heap!IsFiniteSet, Cardinality, IsFiniteSet
      <3>5. Heap!HeapOrdered
        <4>1. hclock \in 0 .. MaxClock /\ count \in 0 .. HeapTimers /\ hrunning \in known \cup {0}
          BY <2>1
        <4> QED
          BY <4>1, <3>1, <3>2, <3>3, <3>4 DEF Heap!HeapOrdered
      <3> QED
        BY <3>5 DEF HeapOrdered
  <1> QED
    BY <1>1, <1>2, <1>3, PTL DEF PartsSpec

-----------------------------------------------------------------------------
(* The heap is a timer queue                                                *)

\* Nothing that the heap holds is due before its root: a least place that broke this would
\* be below one that does not.
LEMMA RootFirst ==
  ASSUME NEW h, NEW ix, NEW x, NEW k, WellHeap(h, ix, x, k), NEW n \in 0 .. HeapTimers,
         k \subseteq 1 .. n, NEW id \in k
  PROVE  1 \in 1 .. Len(h) /\ x[h[1]] <= x[id]
  <1>1. Len(h) \in Nat /\ \A i \in 1 .. Len(h) : x[h[i]] \in Nat
    <2>1. Len(h) \in Nat /\ \A i \in 1 .. Len(h) : h[i] \in Heap!Ids
      BY HeapCounts
    <2> QED
      BY <2>1 DEF WellHeap, Times32
  <1>2. PICK p \in 1 .. Len(h) : h[p] = id
    BY DEF WellHeap
  <1>3. 1 \in 1 .. Len(h)
    BY <1>1, <1>2
  <1> DEFINE Bad == {i \in 1 .. Len(h) : x[h[i]] < x[h[1]]}
  <1>4. SUFFICES ASSUME Bad # {} PROVE FALSE
    <2>1. Bad = {} => x[h[1]] <= x[h[p]]
      <3>1. x[h[p]] \in Nat /\ x[h[1]] \in Nat
        BY <1>1, <1>3
      <3> QED
        BY <3>1
    <2> QED
      BY <1>2, <1>3, <2>1
  <1>5. PICK j \in Bad : \A i \in Bad : j <= i
    <2>1. Bad \in SUBSET Nat
      BY <1>1
    <2> QED
      BY <1>4, <2>1, Least
  <1>6. j \in 2 .. Len(h)
    <2>1. j # 1
      BY <1>1, <1>3
    <2> QED
      BY <1>1, <2>1
  <1> DEFINE q == j \div 2
  <1>7. q \in 1 .. Len(h) /\ q < j /\ q \in Nat
    BY <1>1, <1>6
  <1>8. x[h[q]] <= x[h[j]]
    BY <1>1, <1>6, <1>7 DEF WellHeap, Ordered
  <1> HIDE DEF q
  <1>9. q \notin Bad
    BY <1>5, <1>6, <1>7
  <1>10. x[h[q]] \in Nat /\ x[h[j]] \in Nat /\ x[h[1]] \in Nat
    BY <1>1, <1>3, <1>7
  <1>11. x[h[j]] < x[h[1]] /\ ~(x[h[q]] < x[h[1]])
    BY <1>7, <1>9
  <1> QED
    BY <1>8, <1>10, <1>11

\* The timers that wait, with the times they are due.
Queue(k, r, x) == [id \in k \ {r} |-> x[id]]

\* The root of the heap h is the timer that the queue p fires first.
LEMMA RootIsFirst ==
  ASSUME NEW h, NEW ix, NEW x, NEW k, WellHeap(h, ix, x, k), NEW n \in 0 .. HeapTimers,
         k \subseteq 1 .. n, h # <<>>
  PROVE  h[1] \in k /\ \A id \in k : x[h[1]] <= x[id]
  <1>1. h[1] \in k
    <2>1. 1 \in 1 .. Len(h)
      BY DEF WellHeap
    <2> QED
      BY <2>1 DEF WellHeap
  <1> QED
    BY <1>1, RootFirst

LEMMA QueueStarts == Heap!Init => Heap!TQ!Init
  <1> SUFFICES ASSUME Heap!Init PROVE Heap!TQ!Init
    OBVIOUS
  <1>1. [id \in Heap!Waiting |-> due[id]] = <<>>
    BY DEF Heap!Init, Heap!Waiting
  <1> QED
    BY <1>1 DEF Heap!Init, Heap!TQ!Init

LEMMA QueueNext ==
  ASSUME HeapInv, HeapInv', Heap!Next
  PROVE  Heap!TQ!Next \/ UNCHANGED Heap!TQ!vars
  <1> DEFINE p == Queue(known, hrunning, due)
             q == Queue(known', hrunning', due')
  <1>1. /\ WellHeap(heap, idx, due, known)
        /\ hclock \in 0 .. MaxClock /\ count \in 0 .. HeapTimers
        /\ known \subseteq 1 .. count /\ hfired \subseteq 1 .. count
        /\ hrunning \in known \cup {0} /\ hnow \in 0 .. hclock
        /\ due \in [Heap!Ids -> Nat] /\ known \subseteq Heap!Ids /\ 0 \notin known
        /\ HeapTimers \in Nat /\ MaxClock \in Nat
    <2>1. /\ count \in 0 .. HeapTimers /\ known \subseteq 1 .. count
          /\ HeapTimers \in Nat /\ MaxClock \in Nat
      BY HeapAssumption DEF HeapInv
    <2>2. known \subseteq Heap!Ids /\ 0 \notin known
      BY <2>1 DEF Heap!Ids
    <2> QED
      BY <2>1, <2>2 DEF HeapInv, WellHeap, Times32
  <1>2. /\ p = [id \in Heap!Waiting |-> due[id]] /\ DOMAIN p = known \ {hrunning}
        /\ q = [id \in Heap!Waiting' |-> due'[id]]
    BY DEF Queue, Heap!Waiting
  <1>3. ASSUME Heap!Tick
        PROVE  Heap!TQ!Tick
    BY <1>3 DEF Heap!Tick, Heap!TQ!Tick, Heap!Waiting
  <1>4. ASSUME NEW d \in HeapDelays, Heap!AddTimer(d)
        PROVE  Heap!TQ!Add(count + 1, d) /\ count + 1 \in Heap!Ids
    <2> DEFINE id == count + 1
    <2>1. /\ id \in Heap!Ids /\ id \notin known \cup hfired /\ id # hrunning
      BY <1>1, <1>4 DEF Heap!AddTimer, Heap!Ids
    <2>2. (hclock + d) % Range32 = hclock + d
      <3>1. d \in Nat /\ Range32 \in Nat /\ MaxClock + d < Range32
        BY HeapAssumption
      <3> QED
        BY <1>1, <3>1
    <2> HIDE DEF id
    <2>3. /\ due' = [due EXCEPT ![id] = hclock + d] /\ known' = known \cup {id}
          /\ UNCHANGED <<hclock, hrunning, hfired>>
      BY <1>4, <2>2 DEF Heap!AddTimer, id
    <2>4. q = [u \in DOMAIN p \cup {id} |-> IF u = id THEN hclock + d ELSE p[u]]
      <3>1. known' \ {hrunning'} = DOMAIN p \cup {id}
        BY <1>2, <2>1, <2>3
      <3>2. ASSUME NEW u \in DOMAIN p \cup {id}
            PROVE  due'[u] = IF u = id THEN hclock + d ELSE p[u]
        BY <1>1, <1>2, <2>1, <2>3, <3>2 DEF Queue
      <3> QED
        BY <3>1, <3>2 DEF Queue
    <2> QED
      BY <1>2, <2>1, <2>3, <2>4 DEF Heap!TQ!Add, id
  <1>5. ASSUME NEW id \in Heap!Ids, Heap!DelTimer(id)
        PROVE  Heap!TQ!Cancel(id)
    <2>1. /\ id \in known /\ id # hrunning
          /\ known' = known \ {id} /\ due' = [due EXCEPT ![id] = 0]
          /\ UNCHANGED <<hclock, hrunning, hfired>>
      BY <1>5 DEF Heap!DelTimer, Heap!DelNode
    <2>2. q = [u \in DOMAIN p \ {id} |-> p[u]]
      <3>1. known' \ {hrunning'} = DOMAIN p \ {id}
        BY <1>2, <2>1
      <3>2. \A u \in DOMAIN p \ {id} : due'[u] = p[u]
        BY <1>1, <1>2, <2>1 DEF Queue
      <3> QED
        BY <3>1, <3>2 DEF Queue
    <2> QED
      BY <1>2, <2>1, <2>2 DEF Heap!TQ!Cancel, Heap!TQ!Without
  <1>6. ASSUME Heap!ExpireTimer
        PROVE  \E t \in Heap!Ids : Heap!TQ!Fire(t)
    <2>0. PICK f : f = heap[1]
      OBVIOUS
    <2>1. /\ hrunning = 0 /\ heap # <<>> /\ due[f] <= hclock
          /\ Heap!CallHandler(f, hclock)
          /\ UNCHANGED <<hclock, heap, idx, due, known, count>>
      BY <1>6, <2>0 DEF Heap!ExpireTimer, Heap!Due
    <2>2. f \in known /\ \A id \in known : due[f] <= due[id]
      BY <1>1, <2>0, <2>1, RootIsFirst
    <2>3. hrunning' = f /\ hfired' = hfired \cup {f}
      BY <1>1, <2>1, <2>2 DEF Heap!CallHandler, Heap!Due
    <2>4. f \in Heap!TQ!First
      <3>1. /\ f \in DOMAIN p /\ p[f] = due[f]
            /\ \A id \in DOMAIN p : id \in known /\ p[id] = due[id]
        BY <1>1, <1>2, <2>1, <2>2 DEF Queue
      <3>2. p[f] <= hclock /\ \A id \in DOMAIN p : p[f] <= p[id]
        BY <2>1, <2>2, <3>1
      <3> QED
        BY <1>2, <3>1, <3>2 DEF Heap!TQ!First
    <2>5. q = [u \in DOMAIN p \ {f} |-> p[u]]
      <3>1. known' \ {hrunning'} = DOMAIN p \ {f}
        BY <1>1, <1>2, <2>1, <2>3
      <3>2. \A u \in DOMAIN p \ {f} : due'[u] = p[u]
        BY <1>1, <1>2, <2>1 DEF Queue
      <3> QED
        BY <3>1, <3>2 DEF Queue
    <2> QED
      BY <1>1, <1>2, <2>1, <2>2, <2>3, <2>4, <2>5 DEF Heap!TQ!Fire, Heap!TQ!Without
  <1>7. ASSUME Heap!HandlerReturns
        PROVE  \/ UNCHANGED Heap!TQ!vars
               \/ \E t \in Heap!Ids : Heap!TQ!Fire(t)
    <2>0. PICK f : f = IF heap' = <<>> THEN 0 ELSE heap'[1]
      OBVIOUS
    <2>1. /\ hrunning # 0 /\ Heap!CallHandler(f, hnow) /\ UNCHANGED <<hclock, count>>
          /\ known' = known \ {hrunning} /\ due' = [due EXCEPT ![hrunning] = 0]
      BY <1>7, <2>0 DEF Heap!HandlerReturns, Heap!DelNode
    <2>2. \A u \in known' : due'[u] = due[u] /\ p[u] = due[u] /\ u \in DOMAIN p
      BY <1>1, <1>2, <2>1 DEF Queue
    <2>3. CASE f # 0 /\ Heap!Due(f, hnow)
      <3>1. heap' # <<>> /\ f = heap'[1] /\ hrunning' = f /\ hfired' = hfired \cup {f}
        BY <2>0, <2>1, <2>3 DEF Heap!CallHandler
      <3>2. f \in known' /\ \A id \in known' : due'[f] <= due'[id]
        <4>1. WellHeap(heap', idx', due', known') /\ count' \in 0 .. HeapTimers
              /\ known' \subseteq 1 .. count'
          BY DEF HeapInv, WellHeap, Ordered, Times32, Heap!Ids
        <4> QED
          BY <3>1, <4>1, RootIsFirst
      <3>3. f \in Heap!TQ!First
        <4>1. f \in DOMAIN p /\ p[f] = due[f] /\ DOMAIN p = known'
          BY <1>2, <2>1, <2>2, <3>2
        <4>2. due[f] <= hclock
          <5>1. due[f] \in Nat /\ due[f] <= hnow
            BY <1>1, <2>1, <2>3, <3>2 DEF Heap!Due
          <5> QED
            BY <1>1, <5>1
        <4>3. p[f] <= hclock /\ \A id \in DOMAIN p : p[f] <= p[id]
          BY <2>2, <3>2, <4>1, <4>2
        <4> QED
          BY <1>2, <4>1, <4>3 DEF Heap!TQ!First
      <3>4. q = [u \in DOMAIN p \ {f} |-> p[u]]
        <4>1. known' \ {hrunning'} = DOMAIN p \ {f}
          BY <1>2, <2>1, <3>1
        <4> QED
          BY <1>2, <2>1, <2>2, <4>1 DEF Queue
      <3>5. f \in Heap!Ids
        BY <1>1, <2>1, <3>2
      <3> QED
        BY <1>2, <2>1, <3>1, <3>3, <3>4, <3>5 DEF Heap!TQ!Fire, Heap!TQ!Without
    <2>4. CASE ~(f # 0 /\ Heap!Due(f, hnow))
      <3>1. hrunning' = 0 /\ hfired' = hfired
        BY <2>1, <2>4 DEF Heap!CallHandler
      <3>2. known' \ {hrunning'} = known \ {hrunning}
        BY <1>1, <2>1, <3>1
      <3>3. q = p
        BY <1>2, <2>2, <3>2 DEF Queue
      <3> QED
        BY <1>2, <2>1, <3>1, <3>3 DEF Heap!TQ!vars
    <2> QED
      BY <2>3, <2>4
  <1>8. \A t \in Heap!Ids : Heap!TQ!Fire(t) \/ Heap!TQ!Cancel(t) => Heap!TQ!Next
    BY DEF Heap!TQ!Next
  <1>9. \A t \in Heap!Ids, d \in HeapDelays : Heap!TQ!Add(t, d) => Heap!TQ!Next
    BY DEF Heap!TQ!Next
  <1>10. Heap!TQ!Tick => Heap!TQ!Next
    BY DEF Heap!TQ!Next
  <1> QED
    <2>1. CASE Heap!Tick
      BY <1>3, <1>10, <2>1
    <2>2. CASE \E d \in HeapDelays : Heap!AddTimer(d)
      BY <1>4, <1>9, <2>2
    <2>3. CASE \E id \in Heap!Ids : Heap!DelTimer(id)
      BY <1>5, <1>8, <2>3
    <2>4. CASE Heap!ExpireTimer
      BY <1>6, <1>8, <2>4
    <2>5. CASE Heap!HandlerReturns
      BY <1>7, <1>8, <2>5
    <2> QED
      BY <2>1, <2>2, <2>3, <2>4, <2>5 DEF Heap!Next

\* Whatever handlers add or cancel meanwhile, the heap fires a timer only when it is due,
\* once and before every timer that is due later, and none that was cancelled
\* (minheap.cc:34-95): it starts as a timer queue, and every step of it is one of the queue.
THEOREM HeapFiresInOrder ==
  PartsSpec => Heap!TQ!Init /\ [][Heap!TQ!Next]_(Heap!TQ!vars)
  <1>1. PartsInit => HeapInv /\ Heap!TQ!Init
    BY HeapStarts, QueueStarts DEF PartsInit
  <1>2. HeapInv /\ [WheelStep \/ HeapStep \/ ListStep \/ Stopped]_allVars
          => HeapInv' /\ [Heap!TQ!Next]_(Heap!TQ!vars)
    <2> SUFFICES ASSUME HeapInv, [WheelStep \/ HeapStep \/ ListStep \/ Stopped]_allVars
                 PROVE  HeapInv' /\ [Heap!TQ!Next]_(Heap!TQ!vars)
      OBVIOUS
    <2>1. CASE HeapStep
      <3>1. Heap!Next /\ HeapInv'
        BY <2>1, HeapNext DEF HeapStep
      <3> QED
        BY <3>1, QueueNext
    <2>2. CASE UNCHANGED heapVars
      <3>1. HeapInv'
        BY <2>2 DEF heapVars, HeapInv, WellHeap, Ordered, Times32, Heap!Ids
      <3>2. UNCHANGED Heap!TQ!vars
        BY <2>2 DEF heapVars, Heap!TQ!vars, Heap!Waiting
      <3> QED
        BY <3>1, <3>2
    <2>3. HeapStep \/ UNCHANGED heapVars
      BY DEF WheelStep, ListStep, Stopped, allVars
    <2> QED
      BY <2>1, <2>2, <2>3
  <1> QED
    BY <1>1, <1>2, PTL DEF PartsSpec

-----------------------------------------------------------------------------
(* The wheel.  Remainders                                                   *)

LEMMA DivMod ==
  ASSUME NEW x \in Int, NEW a \in Nat \ {0}
  PROVE  x = a * (x \div a) + (x % a) /\ x % a \in 0 .. a - 1 /\ x \div a \in Int
  OBVIOUS

\* There is only one way to divide.
LEMMA DivModUnique ==
  ASSUME NEW s \in Nat \ {0}, NEW q \in Int, NEW r \in 0 .. s - 1, NEW x \in Int, x = s * q + r
  PROVE  x % s = r /\ x \div s = q
  <1> DEFINE q2 == x \div s
             r2 == x % s
  <1>1. x = s * q2 + r2 /\ r2 \in 0 .. s - 1 /\ q2 \in Int
    BY DivMod
  <1> HIDE DEF q2, r2
  <1> DEFINE d == q2 - q
  <1>2. d \in Int /\ q2 = q + d
    BY <1>1
  <1>3. s * q2 = s * q + s * d /\ s * d \in Int
    BY <1>2
  <1> HIDE DEF d
  <1>4. r - r2 = s * d
    BY <1>1, <1>3
  <1>5. d > 0 => s * d >= s
    <2>1. ASSUME d > 0 PROVE s * d >= s
      <3> DEFINE e == d - 1
      <3>1. e \in Nat /\ d = e + 1
        BY <1>2, <2>1
      <3> HIDE DEF e
      <3>2. s * d = s * e + s /\ s * e \in Nat
        BY <3>1
      <3> QED
        BY <3>2
    <2> QED
      BY <2>1
  <1>6. d < 0 => s * d <= -s
    <2>1. ASSUME d < 0 PROVE s * d <= -s
      <3> DEFINE e == -d - 1
      <3>1. e \in Nat /\ d = -e - 1
        BY <1>2, <2>1
      <3> HIDE DEF e
      <3>2. s * d = -(s * e) - s /\ s * e \in Nat
        BY <3>1
      <3> QED
        BY <3>2
    <2> QED
      BY <2>1
  <1>7. d = 0
    BY <1>1, <1>2, <1>4, <1>5, <1>6
  <1>8. s * d = 0
    BY <1>7
  <1> QED
    BY <1>1, <1>2, <1>4, <1>7, <1>8 DEF q2, r2

\* A time that is ahead is one tick less so after a tick.
LEMMA AheadFalls ==
  ASSUME NEW w \in Nat \ {0}, NEW now \in 0 .. w - 1, NEW x \in Int, (x - now) % w # 0
  PROVE  (x - ((now + 1) % w)) % w = ((x - now) % w) - 1
  <1> DEFINE ct == (now + 1) % w
             e == (now + 1) \div w
             a == (x - now) % w
             q == (x - now) \div w
  <1>1. now + 1 = w * e + ct /\ ct \in 0 .. w - 1 /\ e \in Int
    BY DivMod
  <1>2. x - now = w * q + a /\ a \in 1 .. w - 1 /\ q \in Int
    <2>1. x - now \in Int
      OBVIOUS
    <2>2. x - now = w * q + a /\ a \in 0 .. w - 1 /\ q \in Int
      BY <2>1, DivMod
    <2> QED
      BY <2>2
  <1> HIDE DEF ct, e, a, q
  <1> DEFINE m == q + e
             b == a - 1
             y == x - ct
  <1>3. w * m = w * q + w * e /\ w * q \in Int /\ w * e \in Int /\ m \in Int
    BY <1>1, <1>2
  <1> HIDE DEF m
  <1>4. y = w * m + b /\ b \in 0 .. w - 1 /\ y \in Int /\ m \in Int /\ w \in Nat \ {0}
    BY <1>1, <1>2, <1>3
  <1> HIDE DEF b, y
  <1>5. y % w = b
    BY ONLY <1>4, DivModUnique
  <1>6. (x - ct) % w = a - 1
    BY <1>5 DEF b, y
  <1> QED
    BY <1>6 DEF ct, a

\* An earlier time is so much less ahead.
LEMMA AheadEarlier ==
  ASSUME NEW w \in Nat \ {0}, NEW now \in Int, NEW x \in Int, NEW r \in 0 .. (x - now) % w
  PROVE  ((x - r) - now) % w = ((x - now) % w) - r
  <1> DEFINE a == (x - now) % w
             q == (x - now) \div w
  <1>1. x - now = w * q + a /\ a \in 0 .. w - 1 /\ q \in Int
    <2>1. x - now \in Int
      OBVIOUS
    <2> QED
      BY <2>1, DivMod
  <1> HIDE DEF a, q
  <1>2. r \in 0 .. a
    BY DEF a
  <1>3. (x - r) - now = w * q + (a - r) /\ a - r \in 0 .. w - 1 /\ (x - r) - now \in Int
    <2>1. w * q \in Int
      BY <1>1
    <2> QED
      BY <1>1, <1>2, <2>1
  <1>4. ((x - r) - now) % w = a - r
    BY <1>1, <1>3, DivModUnique
  <1> QED
    BY <1>4 DEF a

LEMMA AheadSmall ==
  ASSUME NEW w \in Nat \ {0}, NEW now \in 0 .. w - 1, NEW x \in 0 .. w - 1
  PROVE  /\ (x - now) % w = IF x >= now THEN x - now ELSE x - now + w
         /\ (x - now) % w \in 0 .. w - 1
         /\ (x - now) % w = 0 <=> x = now
  <1>1. CASE x >= now
    <2>1. x - now = w * 0 + (x - now) /\ x - now \in 0 .. w - 1 /\ x - now \in Int
      BY <1>1
    <2>2. (x - now) % w = x - now
      BY <2>1, DivModUnique
    <2> QED
      BY <1>1, <2>1, <2>2
  <1>2. CASE ~(x >= now)
    <2>1. /\ x - now = w * (-1) + (x - now + w) /\ x - now + w \in 1 .. w - 1
          /\ x - now \in Int /\ -1 \in Int /\ x - now + w \in 0 .. w - 1
      BY <1>2
    <2>2. (x - now) % w = x - now + w
      BY <2>1, DivModUnique
    <2> QED
      BY <1>2, <2>1, <2>2
  <1> QED
    BY <1>1, <1>2

\* Of the times less than n ahead, only now leaves what now leaves when divided by n.
LEMMA NearOnly ==
  ASSUME NEW n \in Nat \ {0}, NEW k \in Nat \ {0}, NEW w \in Nat \ {0}, w = n * k,
         NEW now \in 0 .. w - 1, NEW x \in 0 .. w - 1,
         (x - now) % w < n, x % n = now % n
  PROVE  x = now
  <1> DEFINE a == (x - now) % w
             q == (x - now) \div w
             c == now \div n
             r == now % n
  <1>1. x - now = w * q + a /\ a \in 0 .. w - 1 /\ q \in Int
    <2>1. x - now \in Int
      OBVIOUS
    <2> QED
      BY <2>1, DivMod
  <1>2. now = n * c + r /\ r \in 0 .. n - 1 /\ c \in Int
    BY DivMod
  <1> HIDE DEF a, q, c, r
  <1>3. a \in 0 .. n - 1
    BY <1>1 DEF a
  <1> DEFINE m == k * q + c
  <1>4. m \in Int /\ n * m = w * q + n * c /\ n * m \in Int
    <2>1. k * q \in Int /\ n * (k * q + c) = n * (k * q) + n * c /\ n * (k * q) = (n * k) * q
      BY <1>1, <1>2
    <2> QED
      BY <1>2, <2>1
  <1> HIDE DEF m
  <1>5. x = n * m + (r + a)
    BY <1>1, <1>2, <1>4
  <1>6. CASE r + a < n
    <2> DEFINE b == r + a
    <2>1. b \in 0 .. n - 1 /\ m \in Int /\ x \in Int /\ n \in Nat \ {0} /\ x = n * m + b
      BY <1>2, <1>3, <1>4, <1>5, <1>6
    <2> HIDE DEF b
    <2>2. x % n = b
      BY ONLY <2>1, DivModUnique
    <2>3. a = 0
      BY <1>2, <1>3, <2>2 DEF r, b
    <2> QED
      BY <2>3, AheadSmall DEF a
  <1>7. CASE ~(r + a < n)
    <2> DEFINE b == r + a - n
               o == m + 1
    <2>1. b \in 0 .. n - 1 /\ o \in Int /\ x = n * o + b
      <3>1. n * o = n * m + n /\ o \in Int
        BY <1>4
      <3> HIDE DEF o
      <3> QED
        BY <1>2, <1>3, <1>4, <1>5, <1>7, <3>1
    <2> HIDE DEF b, o
    <2>2. x % n = b
      BY <2>1, DivModUnique
    <2> QED
      BY <1>2, <1>3, <2>2 DEF r, b
  <1> QED
    BY <1>6, <1>7

\* A slot begins with its first time, which is in the same slot.
LEMMA SlotBegins ==
  ASSUME NEW u \in Nat \ {0}, NEW when \in Nat
  PROVE  LET x == when - (when % u)
         IN x \in 0 .. when /\ x % u = 0 /\ x \div u = when \div u /\ when % u \in 0 .. u - 1
  <1> DEFINE q == when \div u
             r == when % u
             x == when - r
  <1>0. when = u * q + r /\ r \in 0 .. u - 1 /\ q \in Int
    BY DivMod
  <1> HIDE DEF q, r
  <1>1. r <= when
    <2>1. CASE when < u
      <3>1. when = u * 0 + when /\ when \in 0 .. u - 1
        BY <2>1
      <3>2. r = when
        BY <3>1, DivModUnique DEF r
      <3> QED
        BY <3>2
    <2>2. CASE ~(when < u)
      BY <1>0, <2>2
    <2> QED
      BY <2>1, <2>2
  <1>2. x = u * q + 0 /\ x \in 0 .. when /\ x \in Int /\ 0 \in 0 .. u - 1
    <2>1. u * q \in Int
      BY <1>0
    <2> QED
      BY <1>0, <1>1, <2>1
  <1> HIDE DEF x
  <1>3. x % u = 0 /\ x \div u = q
    BY <1>0, <1>2, DivModUnique
  <1> QED
    BY <1>0, <1>2, <1>3 DEF x, q, r

\* Slot 0 of the last level begins with the clock.
LEMMA LastSlot ==
  ASSUME NEW u \in Nat \ {0}, NEW l \in Nat \ {0}, NEW w \in Nat \ {0}, w = l * u,
         NEW x \in 0 .. w - 1, x % u = 0, (x \div u) % l = 0
  PROVE  x = 0
  <1> DEFINE q == x \div u
  <1>1. x = u * q /\ q \in Nat
    BY DivMod
  <1> HIDE DEF q
  <1>2. q < l
    <2>1. SUFFICES ASSUME q >= l PROVE FALSE
      BY <1>1
    <2> DEFINE e == q - l
    <2>2. e \in Nat /\ q = l + e
      BY <1>1, <2>1
    <2> HIDE DEF e
    <2>3. u * q = l * u + u * e /\ u * e \in Nat
      BY <2>2
    <2> QED
      BY <1>1, <2>3
  <1>3. q = l * 0 + q /\ q \in 0 .. l - 1
    BY <1>1, <1>2
  <1>4. q % l = q
    BY <1>3, DivModUnique
  <1>5. q = 0
    BY <1>4 DEF q
  <1> QED
    BY <1>1, <1>5

-----------------------------------------------------------------------------
(* The lists of the wheel                                                   *)

TakenPlace == <<Taken, 0>>

\* The parts of EachOnce, said of sequences.
Covers(P, F, L) == \A n \in L : \E p \in P : \E i \in 1 .. Len(F[p]) : F[p][i] = n
Within(P, F, L) == \A p \in P : \A i \in 1 .. Len(F[p]) : F[p][i] \in L
Single(P, F) == \A p, q \in P : \A i \in 1 .. Len(F[p]), j \in 1 .. Len(F[q]) :
                  F[p][i] = F[q][j] => p = q /\ i = j

LEMMA EachOnceIs ==
  ASSUME NEW P, NEW F \in [P -> Seq(Nodes)], NEW L
  PROVE  EachOnce(F, L) <=> Covers(P, F, L) /\ Within(P, F, L) /\ Single(P, F)
  <1>1. DOMAIN F = P /\ \A p \in P : DOMAIN F[p] = 1 .. Len(F[p])
    OBVIOUS
  <1>2. \A p \in P : \A n : n \in Range(F[p]) <=> \E i \in 1 .. Len(F[p]) : F[p][i] = n
    BY <1>1 DEF Range
  <1>3. \A p \in P : Range(F[p]) \subseteq L <=> \A i \in 1 .. Len(F[p]) : F[p][i] \in L
    BY <1>2
  <1> QED
    BY <1>1, <1>2, <1>3 DEF EachOnce, Covers, Within, Single

\* Linking a node that is in no list.
LEMMA LinkOnce ==
  ASSUME NEW P, NEW F \in [P -> Seq(Nodes)], NEW L, EachOnce(F, L),
         NEW p \in P, NEW n \in Nodes, n \notin L
  PROVE  LET G == [F EXCEPT ![p] = Append(@, n)]
         IN G \in [P -> Seq(Nodes)] /\ EachOnce(G, L \cup {n})
  <1> DEFINE G == [F EXCEPT ![p] = Append(@, n)]
             l == Len(F[p])
  <1>1. /\ G \in [P -> Seq(Nodes)] /\ \A q \in P \ {p} : G[q] = F[q]
        /\ l \in Nat /\ Len(G[p]) = l + 1 /\ G[p][l + 1] = n
        /\ \A i \in 1 .. l : G[p][i] = F[p][i]
    OBVIOUS
  <1>2. Covers(P, F, L) /\ Within(P, F, L) /\ Single(P, F)
    BY EachOnceIs
  <1> HIDE DEF G
  <1>3. ASSUME NEW q \in P, NEW i \in 1 .. Len(G[q])
        PROVE  \/ i \in 1 .. Len(F[q]) /\ G[q][i] = F[q][i]
               \/ q = p /\ i = l + 1 /\ G[q][i] = n
    <2>1. CASE q = p
      BY <1>1, <2>1
    <2>2. CASE q # p
      BY <1>1, <2>2
    <2> QED
      BY <2>1, <2>2
  <1>4. \A q \in P : \A i \in 1 .. Len(F[q]) : i \in 1 .. Len(G[q]) /\ G[q][i] = F[q][i]
    <2>1. SUFFICES ASSUME NEW q \in P, NEW i \in 1 .. Len(F[q])
                   PROVE  i \in 1 .. Len(G[q]) /\ G[q][i] = F[q][i]
      OBVIOUS
    <2>2. CASE q = p
      BY <1>1, <2>2
    <2>3. CASE q # p
      BY <1>1, <2>3
    <2> QED
      BY <2>2, <2>3
  <1> HIDE DEF l
  <1>5. ASSUME NEW m \in L \cup {n}
        PROVE  \E q \in P : \E i \in 1 .. Len(G[q]) : G[q][i] = m
    <2>1. CASE m = n
      <3>1. l + 1 \in 1 .. Len(G[p])
        BY <1>1
      <3> QED
        BY <1>1, <2>1, <3>1
    <2>2. CASE m \in L
      <3>1. PICK q \in P : \E i \in 1 .. Len(F[q]) : F[q][i] = m
        BY <1>2, <2>2 DEF Covers
      <3> QED
        BY <1>4, <3>1
    <2> QED
      BY <2>1, <2>2
  <1>6. Within(P, G, L \cup {n})
    BY <1>2, <1>3 DEF Within
  <1>7. ASSUME NEW o \in P, NEW q \in P, NEW i \in 1 .. Len(G[o]), NEW j \in 1 .. Len(G[q]),
               G[o][i] = G[q][j]
        PROVE  o = q /\ i = j
    <2>1. CASE i \in 1 .. Len(F[o]) /\ G[o][i] = F[o][i]
      <3>1. G[q][j] # n
        BY <1>2, <1>7, <2>1 DEF Within
      <3>2. j \in 1 .. Len(F[q]) /\ G[q][j] = F[q][j]
        BY <1>3, <3>1
      <3> QED
        <4>1. F[o][i] = F[q][j]
          BY <1>7, <2>1, <3>2
        <4> QED
          BY ONLY <1>2, <2>1, <3>2, <4>1 DEF Single
    <2>2. CASE o = p /\ i = l + 1 /\ G[o][i] = n
      <3>1. ~(j \in 1 .. Len(F[q]) /\ G[q][j] = F[q][j])
        BY <1>2, <1>7, <2>2 DEF Within
      <3> QED
        BY <1>3, <2>2, <3>1
    <2> QED
      BY <1>3, <2>1, <2>2
  <1>8. EachOnce(G, L \cup {n})
    <2>1. Covers(P, G, L \cup {n}) /\ Single(P, G)
      BY <1>5, <1>7 DEF Covers, Single
    <2> QED
      BY <1>1, <1>6, <2>1, EachOnceIs
  <1> QED
    BY <1>1, <1>8 DEF G

\* Dropping the first node of a list.
LEMMA DropOnce ==
  ASSUME NEW P, NEW F \in [P -> Seq(Nodes)], NEW L, EachOnce(F, L),
         NEW p \in P, F[p] # <<>>
  PROVE  LET G == [F EXCEPT ![p] = Tail(@)]
         IN /\ G \in [P -> Seq(Nodes)] /\ EachOnce(G, L \ {Head(F[p])})
            /\ Head(F[p]) \in L /\ Head(F[p]) \in Nodes
  <1> DEFINE G == [F EXCEPT ![p] = Tail(@)]
             l == Len(F[p])
             n == Head(F[p])
  <1>1. /\ G \in [P -> Seq(Nodes)] /\ \A q \in P \ {p} : G[q] = F[q]
        /\ l \in Nat \ {0} /\ Len(G[p]) = l - 1 /\ n = F[p][1] /\ n \in Nodes
        /\ \A i \in 1 .. l - 1 : G[p][i] = F[p][i + 1]
    <2>1. F[p] \in Seq(Nodes) /\ F[p] # <<>>
      OBVIOUS
    <2>2. /\ Tail(F[p]) \in Seq(Nodes) /\ l \in Nat \ {0} /\ Len(Tail(F[p])) = l - 1
          /\ n = F[p][1] /\ n \in Nodes /\ \A i \in 1 .. l - 1 : Tail(F[p])[i] = F[p][i + 1]
      BY <2>1
    <2> HIDE DEF l, n
    <2>3. G[p] = Tail(F[p]) /\ G \in [P -> Seq(Nodes)] /\ \A q \in P \ {p} : G[q] = F[q]
      BY <2>2
    <2> QED
      BY <2>2, <2>3
  <1>2. Covers(P, F, L) /\ Within(P, F, L) /\ Single(P, F)
    BY EachOnceIs
  <1> HIDE DEF G, l, n
  <1> DEFINE At(q, i) == IF q = p THEN i + 1 ELSE i
  <1>3. l = Len(F[p])
    BY DEF l
  <1>4. ASSUME NEW q \in P, NEW i \in 1 .. Len(G[q])
        PROVE  At(q, i) \in 1 .. Len(F[q]) /\ G[q][i] = F[q][At(q, i)] /\ F[q][At(q, i)] # n
    <2>1. 1 \in 1 .. Len(F[p]) /\ i \in Int
      BY <1>1, <1>3
    <2>2. CASE q = p
      <3>1. i + 1 \in 1 .. Len(F[p]) /\ G[p][i] = F[p][i + 1] /\ i + 1 # 1
        BY <1>1, <1>3, <2>1, <2>2
      <3> QED
        BY <1>1, <1>2, <2>1, <2>2, <3>1 DEF Single
    <2>3. CASE q # p
      BY <1>1, <1>2, <2>1, <2>3 DEF Single
    <2> QED
      BY <2>2, <2>3
  <1>5. ASSUME NEW q \in P, NEW i \in 1 .. Len(F[q]), F[q][i] # n
        PROVE  \E j \in 1 .. Len(G[q]) : G[q][j] = F[q][i]
    <2>1. CASE q = p
      <3>1. i # 1 /\ i \in 1 .. l
        BY <1>1, <1>3, <1>5, <2>1
      <3>2. i - 1 \in 1 .. l - 1 /\ (i - 1) + 1 = i
        BY <1>1, <3>1
      <3> QED
        BY <1>1, <2>1, <3>2
    <2>2. CASE q # p
      BY <1>1, <2>2
    <2> QED
      BY <2>1, <2>2
  <1>6. ASSUME NEW m \in L \ {n}
        PROVE  \E q \in P : \E i \in 1 .. Len(G[q]) : G[q][i] = m
    <2>0. PICK q \in P : \E i \in 1 .. Len(F[q]) : F[q][i] = m
      BY <1>2 DEF Covers
    <2>1. PICK i \in 1 .. Len(F[q]) : F[q][i] = m
      BY <2>0
    <2>2. F[q][i] # n
      BY <2>1
    <2> QED
      BY <1>5, <2>1, <2>2
  <1> HIDE DEF At
  <1>7. Within(P, G, L \ {n})
    BY <1>2, <1>4 DEF Within
  <1>8. ASSUME NEW o \in P, NEW q \in P, NEW i \in 1 .. Len(G[o]), NEW j \in 1 .. Len(G[q]),
               G[o][i] = G[q][j]
        PROVE  o = q /\ i = j
    <2>1. /\ At(o, i) \in 1 .. Len(F[o]) /\ At(q, j) \in 1 .. Len(F[q])
          /\ F[o][At(o, i)] = F[q][At(q, j)]
      BY <1>4, <1>8
    <2>2. o = q /\ At(o, i) = At(q, j)
      BY <1>2, <2>1 DEF Single
    <2>3. i \in Int /\ j \in Int
      BY <1>1
    <2> QED
      BY <2>2, <2>3 DEF At
  <1>9. EachOnce(G, L \ {n})
    <2>1. Covers(P, G, L \ {n}) /\ Single(P, G)
      BY <1>6, <1>8 DEF Covers, Single
    <2> QED
      BY <1>1, <1>7, <2>1, EachOnceIs
  <1>10. n \in L
    <2>1. 1 \in 1 .. Len(F[p])
      BY <1>1, <1>3
    <2> QED
      BY <1>1, <1>2, <2>1 DEF Within
  <1> QED
    BY <1>1, <1>9, <1>10 DEF G, n

\* Moving a whole list to an empty one.
LEMMA TakeOnce ==
  ASSUME NEW P, NEW F \in [P -> Seq(Nodes)], NEW L, EachOnce(F, L),
         NEW p \in P, NEW b \in P, b # p, F[b] = <<>>,
         NEW G \in [P -> Seq(Nodes)], \A q \in P \ {p, b} : G[q] = F[q],
         G[p] = <<>>, G[b] = F[p]
  PROVE  EachOnce(G, L)
  <1> DEFINE From(q) == IF q = b THEN p ELSE q
  <1>1. /\ G \in [P -> Seq(Nodes)] /\ \A q \in P \ {p, b} : G[q] = F[q]
        /\ G[p] = <<>> /\ G[b] = F[p]
    OBVIOUS
  <1>2. Covers(P, F, L) /\ Within(P, F, L) /\ Single(P, F)
    BY EachOnceIs
  <1>3. Len(F[b]) = 0 /\ Len(G[p]) = 0
    BY <1>1
  <1>4. ASSUME NEW q \in P, NEW i \in 1 .. Len(G[q])
        PROVE  From(q) \in P /\ i \in 1 .. Len(F[From(q)]) /\ G[q][i] = F[From(q)][i] /\ q # p
    BY <1>1, <1>3
  <1>5. ASSUME NEW q \in P, NEW i \in 1 .. Len(F[q])
        PROVE  \E o \in P : i \in 1 .. Len(G[o]) /\ G[o][i] = F[q][i]
    BY <1>1, <1>3
  <1>6. ASSUME NEW m \in L
        PROVE  \E q \in P : \E i \in 1 .. Len(G[q]) : G[q][i] = m
    <2>0. PICK q \in P : \E i \in 1 .. Len(F[q]) : F[q][i] = m
      BY <1>2 DEF Covers
    <2>1. PICK i \in 1 .. Len(F[q]) : F[q][i] = m
      BY <2>0
    <2> QED
      BY <1>5, <2>1
  <1> HIDE DEF From
  <1>7. Within(P, G, L)
    BY <1>2, <1>4 DEF Within
  <1>8. ASSUME NEW o \in P, NEW q \in P, NEW i \in 1 .. Len(G[o]), NEW j \in 1 .. Len(G[q]),
               G[o][i] = G[q][j]
        PROVE  o = q /\ i = j
    <2>1. /\ From(o) \in P /\ i \in 1 .. Len(F[From(o)]) /\ From(q) \in P
          /\ j \in 1 .. Len(F[From(q)]) /\ F[From(o)][i] = F[From(q)][j] /\ o # p /\ q # p
      BY <1>4, <1>8
    <2>2. From(o) = From(q) /\ i = j
      BY <1>2, <2>1 DEF Single
    <2> QED
      BY <2>1, <2>2 DEF From
  <1>9. EachOnce(G, L)
    <2>1. Covers(P, G, L) /\ Single(P, G)
      BY <1>6, <1>8 DEF Covers, Single
    <2> QED
      BY <1>1, <1>7, <2>1, EachOnceIs
  <1> QED
    BY <1>9

-----------------------------------------------------------------------------
(* Where a node belongs                                                     *)

\* The place at which a node that expires at when is in time to be met after now.
RightPlace(p, when, now) ==
  /\ p[1] = Near => when % TIME_NEAR = p[2] /\ (when - now) % Width < TIME_NEAR
  /\ p[1] \in Levels =>
       /\ Slot(p[1], when) = p[2]
       /\ p[1] = 3 \/ p[2] # 0 =>
            (when - (when % Unit(p[1])) - now) % Width \in 1 .. (when - now) % Width

AllPlaced(F, x, now) == \A p \in Places : \A i \in 1 .. Len(F[p]) : RightPlace(p, x[F[p][i]], now)

\* Where AddNode puts it.
PlaceFor(now, when) ==
  LET msec == (when - now) % Width
      level == LevelFor(msec)
  IN IF InNear(msec) THEN <<Near, when % TIME_NEAR>> ELSE <<level, Slot(level, when)>>

LEMMA UnitsAre ==
  /\ TIME_NEAR \in Nat \ {0} /\ TIME_LEVEL \in Nat \ {0} /\ Width \in Nat \ {0}
  /\ \A l \in Levels : Unit(l) \in Nat \ {0}
  <1>1. ASSUME NEW a \in Nat \ {0}, NEW b \in Nat \ {0} PROVE a * b \in Nat \ {0}
    OBVIOUS
  <1>2. TIME_NEAR \in Nat \ {0} /\ TIME_LEVEL \in Nat \ {0} /\ Unit(0) \in Nat \ {0}
    BY UnitAssumption
  <1>3. Unit(1) \in Nat \ {0}
    BY <1>1, <1>2, UnitAssumption
  <1>4. Unit(2) \in Nat \ {0}
    BY <1>1, <1>2, <1>3, UnitAssumption
  <1>5. Unit(3) \in Nat \ {0}
    BY <1>1, <1>2, <1>4, UnitAssumption
  <1>6. Width \in Nat \ {0}
    BY <1>1, <1>2, <1>5, UnitAssumption
  <1>7. \A l \in Levels : l = 0 \/ l = 1 \/ l = 2 \/ l = 3
    BY DEF Levels
  <1> QED
    BY <1>2, <1>3, <1>4, <1>5, <1>6, <1>7

\* near holds a whole number of times in the clock.
LEMMA NearDivides == \E k \in Nat \ {0} : Width = TIME_NEAR * k
  <1> DEFINE L == TIME_LEVEL
             k == L * (L * (L * L))
  <1>1. L \in Nat \ {0} /\ TIME_NEAR \in Nat
    BY UnitsAre
  <1>2. /\ Unit(0) = TIME_NEAR /\ Unit(1) = L * Unit(0) /\ Unit(2) = L * Unit(1)
        /\ Unit(3) = L * Unit(2) /\ Width = L * Unit(3)
    BY UnitAssumption
  <1> HIDE DEF L
  <1>3. \A a, b, c \in Nat : a * (b * c) = b * (a * c)
    OBVIOUS
  <1>4. L * L \in Nat \ {0} /\ L * (L * L) \in Nat \ {0} /\ k \in Nat \ {0}
    <2>1. ASSUME NEW a \in Nat \ {0}, NEW b \in Nat \ {0} PROVE a * b \in Nat \ {0}
      OBVIOUS
    <2> QED
      BY <1>1, <2>1
  <1>5. Unit(1) = TIME_NEAR * L
    BY <1>1, <1>2
  <1>6. Unit(2) = TIME_NEAR * (L * L)
    BY <1>1, <1>2, <1>3, <1>5
  <1>7. Unit(3) = TIME_NEAR * (L * (L * L))
    BY <1>1, <1>2, <1>3, <1>4, <1>6
  <1>8. Width = TIME_NEAR * k
    BY <1>1, <1>2, <1>3, <1>4, <1>7
  <1> QED
    BY <1>4, <1>8

LEMMA SlotIs ==
  ASSUME NEW l \in Levels, NEW when \in Nat
  PROVE  Slot(l, when) \in LevelSlots
  <1>1. Unit(l) \in Nat \ {0} /\ TIME_LEVEL \in Nat \ {0}
    BY UnitsAre
  <1>2. when \div Unit(l) \in Int
    BY <1>1, DivMod
  <1> QED
    BY <1>1, <1>2, DivMod DEF Slot, LevelSlots

\* Wherever a node is linked, it is in time.
LEMMA PlaceRight ==
  ASSUME NEW now \in Times, NEW when \in Times
  PROVE  /\ PlaceFor(now, when) \in Places \ {TakenPlace}
         /\ RightPlace(PlaceFor(now, when), when, now)
  <1> DEFINE msec == (when - now) % Width
             l == LevelFor(msec)
  <1>1. /\ Width \in Nat \ {0} /\ TIME_NEAR \in Nat \ {0} /\ now \in 0 .. Width - 1
        /\ when \in 0 .. Width - 1 /\ when \in Nat
    BY UnitsAre DEF Times
  <1>2. msec \in 0 .. Width - 1
    BY <1>1, AheadSmall
  <1>3. CASE InNear(msec)
    <2>1. PlaceFor(now, when) = <<Near, when % TIME_NEAR>>
      BY <1>3 DEF PlaceFor
    <2>2. when % TIME_NEAR \in NearSlots
      BY <1>1, DivMod DEF NearSlots
    <2>3. Near \notin Levels /\ Near # Taken
      BY DEF Near, Taken, Levels
    <2> HIDE DEF msec
    <2>4. msec < TIME_NEAR
      BY <1>3 DEF InNear
    <2> QED
      BY <2>1, <2>2, <2>3, <2>4 DEF RightPlace, Places, TakenPlace, msec
  <1>4. CASE ~InNear(msec)
    <2> DEFINE r == when % Unit(l)
               s == Slot(l, when)
    <2>1. PlaceFor(now, when) = <<l, s>>
      BY <1>4 DEF PlaceFor
    <2> HIDE DEF msec
    <2>2. l \in Levels /\ Unit(l) <= msec
      <3>1. 0 \in Levels /\ 1 \in Levels /\ 2 \in Levels /\ 3 \in Levels
        BY DEF Levels
      <3>2. /\ Unit(0) \in Nat /\ Unit(1) \in Nat /\ Unit(2) \in Nat /\ Unit(3) \in Nat
            /\ Unit(0) <= msec
        BY <1>2, <1>4, <3>1, UnitsAre, UnitAssumption DEF InNear
      <3> QED
        BY <1>2, <3>1, <3>2 DEF LevelFor
    <2> HIDE DEF l, r, s
    <2>3. s \in LevelSlots
      BY <1>1, <2>2, SlotIs DEF s
    <2>4. r \in 0 .. Unit(l) - 1 /\ Unit(l) \in Nat \ {0}
      <3>1. Unit(l) \in Nat \ {0} /\ when \in Int
        BY <1>1, <2>2, UnitsAre
      <3> QED
        BY ONLY <3>1, DivMod DEF r
    <2>5. (when - r - now) % Width = msec - r
      <3>1. r \in 0 .. (when - now) % Width
        BY <1>2, <2>2, <2>4 DEF msec
      <3> QED
        BY <1>1, <3>1, AheadEarlier DEF msec
    <2>6. (when - r - now) % Width \in 1 .. msec
      BY <1>2, <2>2, <2>4, <2>5
    <2>7. l # Near /\ l # Taken
      BY <2>2 DEF Near, Taken, Levels
    <2>8. RightPlace(<<l, s>>, when, now)
      BY <2>6, <2>7 DEF RightPlace, msec, r, s
    <2>9. <<l, s>> \in Places \ {TakenPlace}
      BY <2>2, <2>3, <2>7 DEF Places, TakenPlace
    <2> QED
      BY <2>1, <2>8, <2>9
  <1> QED
    BY <1>3, <1>4

-----------------------------------------------------------------------------
(* The lists of a wheel                                                     *)

LEMMA PlacesAre ==
  /\ TakenPlace \in Places
  /\ \A i \in NearSlots : <<Near, i>> \in Places \ {TakenPlace}
  /\ \A l \in Levels, i \in LevelSlots : <<l, i>> \in Places \ {TakenPlace}
  /\ \A p \in Places : \/ p = TakenPlace
                       \/ \E i \in NearSlots : p = <<Near, i>>
                       \/ \E l \in Levels, i \in LevelSlots : p = <<l, i>>
  /\ Near \notin Levels /\ Taken \notin Levels /\ Near # Taken
  <1>1. Near \notin Levels /\ Taken \notin Levels /\ Near # Taken
    BY DEF Near, Taken, Levels
  <1> QED
    BY <1>1 DEF Places, TakenPlace

\* The list at each place.
ListAt(F, w, b) ==
  /\ F \in [Places -> Seq(Nodes)] /\ F[TakenPlace] = b
  /\ \A i \in NearSlots : F[<<Near, i>>] = w.near[i] /\ w.near[i] \in Seq(Nodes)
  /\ \A l \in Levels, i \in LevelSlots :
       F[<<l, i>>] = w.t[l][i] /\ w.t[l][i] \in Seq(Nodes)

LEMMA ListsAre ==
  ASSUME NEW w \in Wheels, NEW b \in Seq(Nodes)
  PROVE  ListAt(Lists(w, b), w, b)
  <1>1. /\ \A i \in NearSlots : w.near[i] \in Seq(Nodes)
        /\ \A l \in Levels, i \in LevelSlots : w.t[l][i] \in Seq(Nodes)
    BY DEF Wheels
  <1>2. /\ Lists(w, b)[TakenPlace] = b
        /\ \A i \in NearSlots : Lists(w, b)[<<Near, i>>] = w.near[i]
        /\ \A l \in Levels, i \in LevelSlots : Lists(w, b)[<<l, i>>] = w.t[l][i]
    BY PlacesAre DEF Lists, TakenPlace
  <1>3. Lists(w, b) = [p \in Places |-> Lists(w, b)[p]]
    BY DEF Lists
  <1>4. \A p \in Places : Lists(w, b)[p] \in Seq(Nodes)
    BY <1>1, <1>2, PlacesAre
  <1> QED
    BY <1>1, <1>2, <1>3, <1>4 DEF ListAt

LEMMA WheelIs ==
  ASSUME NEW w \in Wheels
  PROVE  /\ w = [near |-> w.near, t |-> w.t]
         /\ w.near \in [NearSlots -> Seq(Nodes)]
         /\ w.t \in [Levels -> [LevelSlots -> Seq(Nodes)]]
  BY DEF Wheels

\* The wheel w when one of its lists is s.
SetNear(w, i, s) == [w EXCEPT !.near[i] = s]
SetLevel(w, l, i, s) == [w EXCEPT !.t[l][i] = s]

\* The lists F when that at p is s.
Put(F, p, s) == [F EXCEPT ![p] = s]

LEMMA NearExcept ==
  ASSUME NEW w \in Wheels, NEW i, NEW s, NEW a, a = Put(w.near, i, s)
  PROVE  SetNear(w, i, s) = [near |-> a, t |-> w.t]
  <1>1. PICK x, y : w = [near |-> x, t |-> y]
    BY WheelIs
  <1>2. [w EXCEPT !.near[i] = s] = [near |-> [w.near EXCEPT ![i] = s], t |-> w.t]
    BY ONLY <1>1
  <1> QED
    BY ONLY <1>2, a = Put(w.near, i, s) DEF SetNear, Put

LEMMA LevelExcept ==
  ASSUME NEW w \in Wheels, NEW l, NEW i, NEW s, NEW g, g = Put(w.t[l], i, s),
         NEW a, a = Put(w.t, l, g)
  PROVE  SetLevel(w, l, i, s) = [near |-> w.near, t |-> a]
  <1>1. PICK x, y : w = [near |-> x, t |-> y]
    BY WheelIs
  <1>2. [w EXCEPT !.t[l][i] = s]
          = [near |-> w.near, t |-> [w.t EXCEPT ![l] = [w.t[l] EXCEPT ![i] = s]]]
    BY ONLY <1>1
  <1> QED
    BY ONLY <1>2, a = Put(w.t, l, g), g = Put(w.t[l], i, s) DEF SetLevel, Put

LEMMA Changed ==
  ASSUME NEW A, NEW S, NEW f \in [A -> S], NEW a \in A, NEW s \in S, NEW g,
         g = [f EXCEPT ![a] = s]
  PROVE  g \in [A -> S] /\ g[a] = s /\ \A x \in A : x # a => g[x] = f[x]
  OBVIOUS

\* One list of w is now another.
OneChanged(v, w, p, s) ==
  /\ \A i \in NearSlots : v.near[i] = IF p = <<Near, i>> THEN s ELSE w.near[i]
  /\ \A l \in Levels, i \in LevelSlots : v.t[l][i] = IF p = <<l, i>> THEN s ELSE w.t[l][i]

LEMMA ListChanged ==
  ASSUME NEW v \in Wheels, NEW w \in Wheels, NEW b \in Seq(Nodes), NEW c \in Seq(Nodes),
         NEW p \in Places, NEW s \in Seq(Nodes), OneChanged(v, w, p, s),
         c = IF p = TakenPlace THEN s ELSE b
  PROVE  Lists(v, c) = Put(Lists(w, b), p, s)
  <1> DEFINE F == Lists(w, b)
             G == Lists(v, c)
             H == Put(F, p, s)
  <1> HIDE DEF F, G, H
  <1>0. w \in Wheels /\ v \in Wheels /\ b \in Seq(Nodes) /\ c \in Seq(Nodes)
    OBVIOUS
  <1>1. ListAt(F, w, b)
    BY ONLY <1>0, ListsAre DEF F
  <1>2. ListAt(G, v, c)
    BY ONLY <1>0, ListsAre DEF G
  <1>3. /\ H \in [Places -> Seq(Nodes)] /\ H[p] = s
        /\ \A q \in Places : q # p => H[q] = F[q]
    <2>1. H = [F EXCEPT ![p] = s]
      BY DEF H, Put
    <2> QED
      BY <1>1, <2>1, Changed DEF ListAt
  <1>4. ASSUME NEW q \in Places
        PROVE  G[q] = H[q]
    <2>1. CASE q = TakenPlace
      BY <1>1, <1>2, <1>3, <2>1 DEF ListAt
    <2>2. ASSUME NEW i \in NearSlots, q = <<Near, i>>
          PROVE  G[q] = H[q]
      <3>1. G[q] = IF p = q THEN s ELSE w.near[i]
        BY <1>2, <2>2 DEF OneChanged, ListAt
      <3> QED
        BY <1>1, <1>3, <2>2, <3>1 DEF ListAt
    <2>3. ASSUME NEW l \in Levels, NEW i \in LevelSlots, q = <<l, i>>
          PROVE  G[q] = H[q]
      <3>1. G[q] = IF p = q THEN s ELSE w.t[l][i]
        BY <1>2, <2>3 DEF OneChanged, ListAt
      <3> QED
        BY <1>1, <1>3, <2>3, <3>1 DEF ListAt
    <2> QED
      BY <2>1, <2>2, <2>3, PlacesAre
  <1>5. G = H
    BY <1>2, <1>3, <1>4 DEF ListAt
  <1> QED
    BY <1>5 DEF F, G, H

LEMMA NearChanged ==
  ASSUME NEW w \in Wheels, NEW i \in NearSlots, NEW s \in Seq(Nodes),
         NEW b \in Seq(Nodes), NEW v, v = SetNear(w, i, s)
  PROVE  v \in Wheels /\ v.near[i] = s /\ Lists(v, b) = Put(Lists(w, b), <<Near, i>>, s)
  <1> DEFINE a == Put(w.near, i, s)
  <1>1. v = [near |-> a, t |-> w.t]
    <2>1. a = Put(w.near, i, s)
      OBVIOUS
    <2> HIDE DEF a
    <2> QED
      BY <2>1, NearExcept
  <1>2. /\ a \in [NearSlots -> Seq(Nodes)] /\ a[i] = s
        /\ \A j \in NearSlots : j # i => a[j] = w.near[j]
    <2>1. w.near \in [NearSlots -> Seq(Nodes)] /\ a = [w.near EXCEPT ![i] = s]
      BY WheelIs DEF Put
    <2> HIDE DEF a
    <2> QED
      BY <2>1, Changed
  <1> HIDE DEF a
  <1>3. v.near = a /\ v.t = w.t
    BY <1>1
  <1>4. v \in Wheels
    BY <1>1, <1>2, WheelIs DEF Wheels
  <1>5. OneChanged(v, w, <<Near, i>>, s)
    BY <1>2, <1>3, PlacesAre DEF OneChanged
  <1>6. <<Near, i>> \in Places /\ <<Near, i>> # TakenPlace
    BY PlacesAre
  <1>7. Lists(v, b) = Put(Lists(w, b), <<Near, i>>, s)
    BY <1>4, <1>5, <1>6, ListChanged
  <1> QED
    BY <1>2, <1>3, <1>4, <1>7

LEMMA LevelChanged ==
  ASSUME NEW w \in Wheels, NEW l \in Levels, NEW i \in LevelSlots,
         NEW s \in Seq(Nodes), NEW b \in Seq(Nodes), NEW v, v = SetLevel(w, l, i, s)
  PROVE  v \in Wheels /\ Lists(v, b) = Put(Lists(w, b), <<l, i>>, s)
  <1> DEFINE g == Put(w.t[l], i, s)
             a == Put(w.t, l, g)
  <1>1. v = [near |-> w.near, t |-> a]
    <2>1. a = Put(w.t, l, g) /\ g = Put(w.t[l], i, s)
      OBVIOUS
    <2> HIDE DEF a, g
    <2> QED
      BY <2>1, LevelExcept
  <1>2. w.t \in [Levels -> [LevelSlots -> Seq(Nodes)]]
    BY WheelIs
  <1>3. w.t[l] \in [LevelSlots -> Seq(Nodes)]
    BY <1>2
  <1>4. /\ g \in [LevelSlots -> Seq(Nodes)] /\ g[i] = s
        /\ \A k \in LevelSlots : k # i => g[k] = w.t[l][k]
    <2>1. g = [w.t[l] EXCEPT ![i] = s]
      BY DEF Put
    <2> HIDE DEF g
    <2> QED
      BY <1>3, <2>1, Changed
  <1> HIDE DEF g
  <1>5. /\ a \in [Levels -> [LevelSlots -> Seq(Nodes)]] /\ a[l] = g
        /\ \A j \in Levels : j # l => a[j] = w.t[j]
    <2>1. a = [w.t EXCEPT ![l] = g]
      BY DEF Put
    <2> HIDE DEF a
    <2> QED
      BY <1>2, <1>4, <2>1, Changed
  <1> HIDE DEF a
  <1>6. v.near = w.near /\ v.t = a
    BY <1>1
  <1>7. v \in Wheels
    BY <1>1, <1>5, WheelIs DEF Wheels
  <1>8. OneChanged(v, w, <<l, i>>, s)
    <2>1. ASSUME NEW j \in Levels, NEW k \in LevelSlots
          PROVE  v.t[j][k] = IF <<l, i>> = <<j, k>> THEN s ELSE w.t[j][k]
      <3>1. CASE j = l
        BY <1>4, <1>5, <1>6, <3>1
      <3>2. CASE j # l
        BY <1>5, <1>6, <3>2
      <3> QED
        BY <3>1, <3>2
    <2>2. \A j \in NearSlots : <<l, i>> # <<Near, j>>
      BY PlacesAre
    <2> QED
      BY <1>6, <2>1, <2>2 DEF OneChanged
  <1>9. <<l, i>> \in Places /\ <<l, i>> # TakenPlace
    BY PlacesAre
  <1>10. Lists(v, b) = Put(Lists(w, b), <<l, i>>, s)
    BY <1>7, <1>8, <1>9, ListChanged
  <1> QED
    BY <1>7, <1>10

LEMMA TakenChanged ==
  ASSUME NEW w \in Wheels, NEW b \in Seq(Nodes), NEW c \in Seq(Nodes)
  PROVE  Lists(w, c) = Put(Lists(w, b), TakenPlace, c)
  <1>1. OneChanged(w, w, TakenPlace, c)
    BY PlacesAre DEF OneChanged
  <1> QED
    BY <1>1, ListChanged, PlacesAre

-----------------------------------------------------------------------------
(* What the sections do to the lists                                        *)

\* Linking a node.
LEMMA AddNodeLists ==
  ASSUME NEW w \in Wheels, NEW b \in Seq(Nodes), NEW n \in Nodes,
         NEW now \in Times, NEW when \in Times
  PROVE  /\ AddNode(w, now, n, when) \in Wheels
         /\ Lists(AddNode(w, now, n, when), b)
              = Put(Lists(w, b), PlaceFor(now, when),
                  Append(Lists(w, b)[PlaceFor(now, when)], n))
  <1> DEFINE v == AddNode(w, now, n, when)
             msec == (when - now) % Width
             l == LevelFor(msec)
             s == Slot(l, when)
             i == when % TIME_NEAR
             p == PlaceFor(now, when)
  <1>0. \A d \in Seq(Nodes) : Append(d, n) \in Seq(Nodes)
    OBVIOUS
  <1>1. CASE InNear(msec)
    <2>1. p = <<Near, i>> /\ v = SetNear(w, i, Append(w.near[i], n))
      BY <1>1 DEF PlaceFor, AddNode, SetNear
    <2>2. i \in NearSlots
      <3>1. when \in Int /\ TIME_NEAR \in Nat \ {0}
        BY UnitsAre DEF Times
      <3> QED
        BY ONLY <3>1, DivMod DEF NearSlots
    <2> HIDE DEF v, p, i, msec, l, s
    <2>3. /\ Lists(w, b)[p] = w.near[i] /\ w.near[i] \in Seq(Nodes)
          /\ Append(w.near[i], n) \in Seq(Nodes)
      BY <1>0, <2>1, <2>2, ListsAre DEF ListAt
    <2> DEFINE c == Append(w.near[i], n)
    <2>4. c \in Seq(Nodes) /\ v = SetNear(w, i, c)
      BY <2>1, <2>3
    <2> HIDE DEF c
    <2>5. v \in Wheels /\ Lists(v, b) = Put(Lists(w, b), <<Near, i>>, c)
      BY <2>2, <2>4, NearChanged
    <2> QED
      BY <2>1, <2>3, <2>5 DEF v, p, c
  <1>2. CASE ~InNear(msec)
    <2>1. p = <<l, s>> /\ v = SetLevel(w, l, s, Append(w.t[l][s], n))
      BY <1>2 DEF PlaceFor, AddNode, SetLevel
    <2>2. l \in Levels /\ s \in LevelSlots
      <3>1. l \in Levels
        BY DEF LevelFor, Levels
      <3>2. when \in Nat
        BY UnitsAre DEF Times
      <3> QED
        BY <3>1, <3>2, SlotIs
    <2> HIDE DEF v, p, i, msec, l, s
    <2>3. /\ Lists(w, b)[p] = w.t[l][s] /\ w.t[l][s] \in Seq(Nodes)
          /\ Append(w.t[l][s], n) \in Seq(Nodes)
      BY <1>0, <2>1, <2>2, ListsAre DEF ListAt
    <2> DEFINE c == Append(w.t[l][s], n)
    <2>4. c \in Seq(Nodes) /\ v = SetLevel(w, l, s, c)
      BY <2>1, <2>3
    <2> HIDE DEF c
    <2>5. v \in Wheels /\ Lists(v, b) = Put(Lists(w, b), <<l, s>>, c)
      BY <2>2, <2>4, LevelChanged
    <2> QED
      BY <2>1, <2>3, <2>5 DEF v, p, c
  <1> QED
    BY <1>1, <1>2

\* Emptying a slot of a level: its nodes are then taken.
LEMMA ClearedLists ==
  ASSUME NEW w \in Wheels, NEW l \in Levels, NEW i \in LevelSlots
  PROVE  LET v == SetLevel(w, l, i, <<>>)
             F == Lists(w, <<>>)
         IN /\ v \in Wheels /\ w.t[l][i] = F[<<l, i>>] /\ w.t[l][i] \in Seq(Nodes)
            /\ Lists(v, w.t[l][i]) = Put(Put(F, <<l, i>>, <<>>), TakenPlace, F[<<l, i>>])
  <1> DEFINE v == SetLevel(w, l, i, <<>>)
             b == w.t[l][i]
             none == <<>>
  <1>1. none \in Seq(Nodes) /\ v = SetLevel(w, l, i, none)
    BY DEF SetLevel
  <1> HIDE DEF v, b, none
  <1>2. b = Lists(w, none)[<<l, i>>] /\ b \in Seq(Nodes)
    BY <1>1, ListsAre DEF b, ListAt
  <1>3. v \in Wheels /\ Lists(v, none) = Put(Lists(w, none), <<l, i>>, none)
    BY <1>1, LevelChanged
  <1>4. Lists(v, b) = Put(Lists(v, none), TakenPlace, b)
    BY <1>1, <1>2, <1>3, TakenChanged
  <1> QED
    BY <1>2, <1>3, <1>4 DEF v, b, none

\* Taking what is due.
LEMMA DueLists ==
  ASSUME NEW w \in Wheels, NEW now \in Times
  PROVE  LET F == Lists(w, <<>>)
             p == <<Near, now % TIME_NEAR>>
         IN /\ p \in Places \ {TakenPlace} /\ Due(w, now) = F[p] /\ Due(w, now) \in Seq(Nodes)
            /\ WithoutDue(w, now) \in Wheels
            /\ WithoutDue(w, now).near[now % TIME_NEAR] = <<>>
            /\ Lists(WithoutDue(w, now), Due(w, now))
                 = Put(Put(F, p, <<>>), TakenPlace, F[p])
  <1> DEFINE i == now % TIME_NEAR
             v == WithoutDue(w, now)
             b == Due(w, now)
             none == <<>>
  <1>0. none \in Seq(Nodes)
    OBVIOUS
  <1>1. i \in NearSlots
    <2>1. now \in Int /\ TIME_NEAR \in Nat \ {0}
      BY UnitsAre DEF Times
    <2> QED
      BY ONLY <2>1, DivMod DEF NearSlots
  <1>2. v = SetNear(w, i, none) /\ b = w.near[i]
    BY DEF WithoutDue, Due, SetNear
  <1> HIDE DEF i, v, b, none
  <1>3. b = Lists(w, none)[<<Near, i>>] /\ b \in Seq(Nodes)
    BY <1>0, <1>1, <1>2, ListsAre DEF ListAt
  <1>4. /\ v \in Wheels /\ v.near[i] = none
        /\ Lists(v, none) = Put(Lists(w, none), <<Near, i>>, none)
    <2>1. w \in Wheels /\ v = SetNear(w, i, none)
      BY <1>2
    <2> QED
      BY ONLY <1>0, <1>1, <2>1, NearChanged
  <1>5. Lists(v, b) = Put(Lists(v, none), TakenPlace, b)
    BY <1>0, <1>3, <1>4, TakenChanged
  <1>6. <<Near, i>> \in Places \ {TakenPlace}
    BY <1>1, PlacesAre
  <1> QED
    BY <1>3, <1>4, <1>5, <1>6 DEF i, v, b, none

LEMMA TailLists ==
  ASSUME NEW w \in Wheels, NEW b \in Seq(Nodes), b # <<>>
  PROVE  /\ Tail(b) \in Seq(Nodes)
         /\ Lists(w, Tail(b)) = Put(Lists(w, b), TakenPlace, Tail(Lists(w, b)[TakenPlace]))
  <1> DEFINE c == Tail(b)
  <1>1. c \in Seq(Nodes)
    OBVIOUS
  <1> HIDE DEF c
  <1>2. Lists(w, c) = Put(Lists(w, b), TakenPlace, c)
    BY <1>1, TakenChanged
  <1>3. Lists(w, b)[TakenPlace] = b
    BY ListsAre DEF ListAt
  <1> QED
    BY <1>1, <1>2, <1>3 DEF c

-----------------------------------------------------------------------------
(* Nodes in their places                                                    *)

LEMMA PutIs ==
  ASSUME NEW F \in [Places -> Seq(Nodes)], NEW p \in Places, NEW s \in Seq(Nodes)
  PROVE  /\ Put(F, p, s) \in [Places -> Seq(Nodes)] /\ Put(F, p, s)[p] = s
         /\ \A q \in Places : q # p => Put(F, p, s)[q] = F[q]
  BY DEF Put

LEMMA PutPlaced ==
  ASSUME NEW F \in [Places -> Seq(Nodes)], NEW p \in Places, NEW s \in Seq(Nodes),
         NEW x, NEW now, AllPlaced(F, x, now),
         \A i \in 1 .. Len(s) : RightPlace(p, x[s[i]], now)
  PROVE  AllPlaced(Put(F, p, s), x, now)
  <1> DEFINE G == Put(F, p, s)
  <1>1. G[p] = s /\ \A q \in Places : q # p => G[q] = F[q]
    BY PutIs
  <1> HIDE DEF G
  <1>2. ASSUME NEW q \in Places, NEW i \in 1 .. Len(G[q])
        PROVE  RightPlace(q, x[G[q][i]], now)
    <2>1. CASE q = p
      BY <1>1, <2>1
    <2>2. CASE q # p
      BY <1>1, <2>2 DEF AllPlaced
    <2> QED
      BY <2>1, <2>2
  <1> QED
    BY <1>2 DEF AllPlaced, G

LEMMA TakenPlaced ==
  ASSUME NEW when, NEW now
  PROVE  RightPlace(TakenPlace, when, now)
  BY PlacesAre DEF RightPlace, TakenPlace

LEMMA LinkPlaced ==
  ASSUME NEW F \in [Places -> Seq(Nodes)], NEW p \in Places, NEW n \in Nodes,
         NEW x, NEW now, AllPlaced(F, x, now), RightPlace(p, x[n], now)
  PROVE  AllPlaced(Put(F, p, Append(F[p], n)), x, now)
  <1> DEFINE s == Append(F[p], n)
  <1>1. F[p] \in Seq(Nodes)
    OBVIOUS
  <1>2. /\ s \in Seq(Nodes) /\ Len(s) = Len(F[p]) + 1 /\ s[Len(F[p]) + 1] = n
        /\ \A i \in 1 .. Len(F[p]) : s[i] = F[p][i]
    BY <1>1
  <1> HIDE DEF s
  <1>3. ASSUME NEW i \in 1 .. Len(s)
        PROVE  RightPlace(p, x[s[i]], now)
    <2>1. Len(F[p]) \in Nat
      BY <1>1
    <2>2. CASE i = Len(F[p]) + 1
      BY <1>2, <2>2
    <2>3. CASE i # Len(F[p]) + 1
      <3>1. i \in 1 .. Len(F[p])
        BY <1>2, <2>1, <2>3
      <3> QED
        BY <1>2, <3>1 DEF AllPlaced
    <2> QED
      BY <2>2, <2>3
  <1>4. AllPlaced(Put(F, p, s), x, now)
    BY <1>2, <1>3, PutPlaced
  <1> QED
    BY <1>4 DEF s

LEMMA TailPlaced ==
  ASSUME NEW F \in [Places -> Seq(Nodes)], NEW x, NEW now, AllPlaced(F, x, now),
         F[TakenPlace] # <<>>
  PROVE  AllPlaced(Put(F, TakenPlace, Tail(F[TakenPlace])), x, now)
  <1> DEFINE s == Tail(F[TakenPlace])
  <1>1. s \in Seq(Nodes)
    BY PlacesAre
  <1> HIDE DEF s
  <1>2. AllPlaced(Put(F, TakenPlace, s), x, now)
    BY <1>1, PutPlaced, TakenPlaced, PlacesAre
  <1> QED
    BY <1>2 DEF s

\* Taking a list out of its place.
Take(F, p) == Put(Put(F, p, <<>>), TakenPlace, F[p])

LEMMA TakeIs ==
  ASSUME NEW F \in [Places -> Seq(Nodes)], NEW p \in Places \ {TakenPlace}
  PROVE  /\ Take(F, p) \in [Places -> Seq(Nodes)]
         /\ Take(F, p)[p] = <<>> /\ Take(F, p)[TakenPlace] = F[p]
         /\ \A q \in Places \ {p, TakenPlace} : Take(F, p)[q] = F[q]
  <1>1. /\ <<>> \in Seq(Nodes) /\ F[p] \in Seq(Nodes)
        /\ TakenPlace \in Places /\ TakenPlace # p /\ p \in Places
    BY PlacesAre
  <1> DEFINE none == <<>>
             s == F[p]
             G == Put(F, p, none)
             H == Put(G, TakenPlace, s)
             b == TakenPlace
  <1>2. none \in Seq(Nodes) /\ s \in Seq(Nodes)
    BY <1>1
  <1>3. G = [F EXCEPT ![p] = none] /\ H = [G EXCEPT ![b] = s]
    BY DEF Put
  <1>4. H = Take(F, p)
    BY DEF Take
  <1> HIDE DEF none, s, G, H, b
  <1>5. /\ G \in [Places -> Seq(Nodes)] /\ G[p] = none
        /\ \A q \in Places : q # p => G[q] = F[q]
    BY <1>1, <1>2, <1>3, Changed
  <1>6. b \in Places /\ b # p
    BY <1>1 DEF b
  <1>7. /\ H \in [Places -> Seq(Nodes)] /\ H[b] = s
        /\ \A q \in Places : q # b => H[q] = G[q]
    BY <1>2, <1>3, <1>5, <1>6, Changed
  <1>8. /\ H \in [Places -> Seq(Nodes)] /\ H[p] = none /\ H[b] = s
        /\ \A q \in Places \ {p, b} : H[q] = F[q]
    BY <1>1, <1>5, <1>6, <1>7
  <1> QED
    BY <1>4, <1>8 DEF none, s, b

\* What is not taken is in its place at ct if it is there at now and the place is kept.
LEMMA TakePlaced ==
  ASSUME NEW F \in [Places -> Seq(Nodes)], NEW p \in Places \ {TakenPlace},
         NEW x, NEW now, NEW ct, AllPlaced(F, x, now),
         \A q \in Places \ {p, TakenPlace} : \A i \in 1 .. Len(F[q]) :
           RightPlace(q, x[F[q][i]], now) => RightPlace(q, x[F[q][i]], ct)
  PROVE  AllPlaced(Take(F, p), x, ct)
  <1> DEFINE G == Take(F, p)
  <1>1. /\ G[p] = <<>> /\ G[TakenPlace] = F[p]
        /\ \A q \in Places \ {p, TakenPlace} : G[q] = F[q]
    BY TakeIs
  <1> HIDE DEF G
  <1>2. ASSUME NEW q \in Places, NEW i \in 1 .. Len(G[q])
        PROVE  RightPlace(q, x[G[q][i]], ct)
    <2>1. CASE q = p
      BY <1>1, <2>1
    <2>2. CASE q = TakenPlace
      BY <2>2, TakenPlaced
    <2>3. CASE q \in Places \ {p, TakenPlace}
      BY <1>1, <2>3 DEF AllPlaced
    <2> QED
      BY <2>1, <2>2, <2>3
  <1> QED
    BY <1>2 DEF AllPlaced, G

\* Only the times of linked nodes matter.
LEMMA PlacedAgree ==
  ASSUME NEW F \in [Places -> Seq(Nodes)], NEW L, EachOnce(F, L), NEW x, NEW y, NEW now,
         AllPlaced(F, x, now), \A n \in L : y[n] = x[n]
  PROVE  AllPlaced(F, y, now)
  <1>1. Within(Places, F, L)
    BY EachOnceIs
  <1> QED
    BY <1>1 DEF AllPlaced, Within

-----------------------------------------------------------------------------
(* The loop of move_list                                                    *)

\* The nodes L are linked in w or still in b, each once, and the linked ones in place.
Kept(w, b, L, x, now) ==
  /\ w \in Wheels /\ b \in Seq(Nodes)
  /\ EachOnce(Lists(w, b), L) /\ AllPlaced(Lists(w, b), x, now)

LEMMA TurnKeeps ==
  ASSUME NEW w, NEW b, NEW L, NEW x \in [Nodes -> Times], NEW now \in Times,
         Kept(w, b, L, x, now), b # <<>>
  PROVE  Kept(AddNode(w, now, Head(b), x[Head(b)]), Tail(b), L, x, now)
  <1> DEFINE F == Lists(w, b)
             c == Tail(b)
             n == Head(b)
             G == Lists(w, c)
             v == AddNode(w, now, n, x[n])
             p == PlaceFor(now, x[n])
             H == Lists(v, c)
  <1>1. /\ w \in Wheels /\ b \in Seq(Nodes) /\ EachOnce(F, L) /\ AllPlaced(F, x, now)
        /\ F \in [Places -> Seq(Nodes)] /\ F[TakenPlace] = b
    BY ListsAre DEF Kept, ListAt
  <1>2. c \in Seq(Nodes) /\ G = Put(F, TakenPlace, Tail(F[TakenPlace]))
    BY <1>1, TailLists
  <1>3. TakenPlace \in Places
    BY PlacesAre
  <1> HIDE DEF F, c, G
  <1>4. G \in [Places -> Seq(Nodes)] /\ EachOnce(G, L \ {n}) /\ n \in L /\ n \in Nodes
    BY <1>1, <1>2, <1>3, DropOnce DEF Put
  <1>5. AllPlaced(G, x, now)
    BY <1>1, <1>2, TailPlaced
  <1> HIDE DEF n
  <1>6. x[n] \in Times
    BY <1>4
  <1>7. v \in Wheels /\ H = Put(G, p, Append(G[p], n))
    BY <1>1, <1>2, <1>4, <1>6, AddNodeLists DEF G
  <1>8. p \in Places /\ RightPlace(p, x[n], now)
    BY <1>6, PlaceRight
  <1> HIDE DEF v, p, H
  <1>9. EachOnce(H, L)
    <2>1. EachOnce(H, (L \ {n}) \cup {n})
      BY <1>4, <1>7, <1>8, LinkOnce DEF Put
    <2>2. (L \ {n}) \cup {n} = L
      BY <1>4
    <2> QED
      BY <2>1, <2>2
  <1>10. AllPlaced(H, x, now)
    BY <1>4, <1>5, <1>7, <1>8, LinkPlaced
  <1> QED
    BY <1>2, <1>7, <1>9, <1>10 DEF Kept, v, H, n, c

EmptyLists == {s \in Moving : s.list = <<>>}
Turns(now) == [s \in Moving |-> Relinked(s, now)]
Left == [s \in Moving |-> Len(s.list)]

LEMMA TurnsFall ==
  ASSUME NEW now \in Times, expire \in [Nodes -> Times]
  PROVE  Left \in [Moving -> Nat] /\ Falls(Moving, EmptyLists, Turns(now), Left)
  <1>1. ASSUME NEW s \in Moving
        PROVE  s.list \in Seq(Nodes) /\ Len(s.list) \in Nat /\ s.wheel \in Wheels
    BY DEF Moving
  <1>2. Left \in [Moving -> Nat]
    BY <1>1 DEF Left
  <1>3. ASSUME NEW s \in Moving \ EmptyLists
        PROVE  Turns(now)[s] \in Moving /\ Left[Turns(now)[s]] < Left[s]
    <2> DEFINE r == Relinked(s, now)
               n == Head(s.list)
               w == AddNode(s.wheel, now, n, expire[n])
    <2>1. s.list \in Seq(Nodes) /\ s.list # <<>> /\ s.wheel \in Wheels
      BY <1>1, <1>3 DEF EmptyLists
    <2>2. n \in Nodes /\ Tail(s.list) \in Seq(Nodes) /\ Len(Tail(s.list)) < Len(s.list)
      BY <2>1
    <2>3. w \in Wheels
      <3>1. expire[n] \in Times /\ <<>> \in Seq(Nodes)
        BY <2>2
      <3> QED
        BY <2>1, <2>2, <3>1, AddNodeLists
    <2>4. r = [wheel |-> w, list |-> Tail(s.list)]
      BY DEF Relinked
    <2> HIDE DEF r, n, w
    <2>5. r \in Moving /\ r.list = Tail(s.list)
      BY <2>2, <2>3, <2>4 DEF Moving
    <2>6. Turns(now)[s] = r
      BY DEF Turns, r
    <2>7. Left[r] = Len(Tail(s.list)) /\ Left[s] = Len(s.list)
      BY <2>5 DEF Left
    <2> QED
      BY <2>2, <2>5, <2>6, <2>7
  <1> QED
    BY <1>2, <1>3 DEF Falls

\* Linking all the nodes of a list loses none and puts each in its place.
LEMMA RelinkKeeps ==
  ASSUME NEW w, NEW b, NEW L, NEW now \in Times, expire \in [Nodes -> Times],
         Kept(w, b, L, expire, now)
  PROVE  Kept(Relink(w, now, b), <<>>, L, expire, now)
  <1> DEFINE P(f) == f = [s \in Moving |-> IF s.list = <<>> THEN s ELSE f[Relinked(s, now)]]
             Q(f) == f = [s \in Moving |-> IF s \in EmptyLists THEN s ELSE f[Turns(now)[s]]]
             g == CHOOSE f : P(f)
             r == [wheel |-> w, list |-> b]
             T == {s \in Moving : Kept(s.wheel, s.list, L, expire, now)}
  <1>1. /\ Left \in [Moving -> Nat] /\ Falls(Moving, EmptyLists, Turns(now), Left)
        /\ \E f : Q(f)
    <2>1. Left \in [Moving -> Nat] /\ Falls(Moving, EmptyLists, Turns(now), Left)
      BY TurnsFall
    <2> QED
      BY <2>1, LoopIs
  <1>2. ASSUME NEW f
        PROVE  P(f) <=> Q(f)
    BY DEF EmptyLists, Turns
  <1>3. Q(g)
    <2>1. \E f : P(f)
      BY <1>1, <1>2
    <2> HIDE DEF P, Q
    <2>2. P(g)
      BY <2>1
    <2> QED
      BY <1>2, <2>2
  <1>4. Relink(w, now, b) = g[r].wheel
    BY DEF Relink
  <1>5. r \in T
    BY DEF Kept, Moving
  <1>6. ASSUME NEW s \in T \ EmptyLists
        PROVE  Turns(now)[s] \in T
    <2> DEFINE n == Head(s.list)
               v == AddNode(s.wheel, now, n, expire[n])
               c == Tail(s.list)
    <2>1. s \in Moving /\ s.list # <<>> /\ Kept(s.wheel, s.list, L, expire, now)
      BY <1>6 DEF EmptyLists
    <2>2. Kept(v, c, L, expire, now)
      BY <2>1, TurnKeeps
    <2>3. Turns(now)[s] = [wheel |-> v, list |-> c]
      BY <2>1 DEF Turns, Relinked
    <2> HIDE DEF v, c
    <2> QED
      BY <2>2, <2>3 DEF Kept, Moving
  <1> HIDE DEF T, g, r, P
  <1>7. g[r] \in T /\ g[r] \in EmptyLists
    <2>1. T \in SUBSET Moving /\ \A t \in T \ EmptyLists : Turns(now)[t] \in T
      BY <1>6 DEF T
    <2>2. /\ Left \in [Moving -> Nat] /\ Falls(Moving, EmptyLists, Turns(now), Left)
          /\ g = [t \in Moving |-> IF t \in EmptyLists THEN t ELSE g[Turns(now)[t]]]
      BY <1>1, <1>3
    <2> QED
      BY ONLY <1>5, <2>1, <2>2, LoopKeeps
  <1>8. Kept(g[r].wheel, g[r].list, L, expire, now) /\ g[r].list = <<>>
    BY <1>7 DEF T, EmptyLists
  <1> QED
    BY <1>4, <1>8

-----------------------------------------------------------------------------
(* A tick of the wheel                                                      *)

\* A slot of a level that the wheel moves down at ct.
Begins(l, i, ct) == ct % Unit(l) = 0 /\ Slot(l, ct) = i /\ (l = 3 \/ i # 0)

\* A slot of a level below l is slot 0 when one of l begins.
LEMMA LowerSlots ==
  ASSUME NEW x \in Nat, NEW k \in Levels, NEW l \in Levels, k < l, x % Unit(l) = 0
  PROVE  Slot(k, x) = 0
  <1>0. /\ TIME_LEVEL \in Nat \ {0} /\ Unit(0) \in Nat \ {0} /\ Unit(1) \in Nat \ {0}
        /\ Unit(2) \in Nat \ {0} /\ Unit(3) \in Nat \ {0}
        /\ Unit(1) = TIME_LEVEL * Unit(0) /\ Unit(2) = TIME_LEVEL * Unit(1)
        /\ Unit(3) = TIME_LEVEL * Unit(2)
    BY UnitsAre, UnitAssumption DEF Levels
  <1>1. ASSUME NEW u \in Nat \ {0}, NEW v \in Nat \ {0}, v = TIME_LEVEL * u, x % v = 0
        PROVE  x % u = 0 /\ (x \div u) % TIME_LEVEL = 0
    <2> DEFINE n == TIME_LEVEL
               q == x \div v
               m == n * q
    <2>1. x \in Int /\ n \in Nat \ {0} /\ v \in Nat \ {0} /\ u \in Nat \ {0}
      BY <1>0
    <2>2. x = v * q + (x % v) /\ q \in Int
      BY ONLY <2>1, DivMod
    <2>3. v = n * u /\ x % v = 0
      BY <1>1
    <2> HIDE DEF q, n
    <2>4. x = v * q
      <3>1. v * q \in Int
        BY <2>1, <2>2
      <3> QED
        BY <2>2, <2>3, <3>1
    <2>5. m \in Int /\ x = u * m + 0 /\ 0 \in 0 .. u - 1
      BY <2>1, <2>2, <2>3, <2>4
    <2>6. m = n * q + 0 /\ 0 \in 0 .. n - 1
      BY <2>1, <2>2
    <2> HIDE DEF m
    <2>7. x % u = 0 /\ x \div u = m
      BY ONLY <2>1, <2>5, DivModUnique
    <2>8. m % n = 0
      BY <2>1, <2>2, <2>5, <2>6, DivModUnique
    <2> QED
      BY <2>7, <2>8 DEF n
  <1>2. x % Unit(3) = 0 => x % Unit(2) = 0 /\ Slot(2, x) = 0
    BY <1>0, <1>1 DEF Slot
  <1>3. x % Unit(2) = 0 => x % Unit(1) = 0 /\ Slot(1, x) = 0
    BY <1>0, <1>1 DEF Slot
  <1>5. x % Unit(1) = 0 => Slot(0, x) = 0
    BY <1>0, <1>1 DEF Slot
  <1>4. (k = 0 \/ k = 1 \/ k = 2 \/ k = 3) /\ (l = 0 \/ l = 1 \/ l = 2 \/ l = 3)
    BY DEF Levels
  <1> QED
    BY <1>2, <1>3, <1>4, <1>5

LEMMA LastBegins ==
  ASSUME NEW x \in Times, x % Unit(3) = 0, Slot(3, x) = 0
  PROVE  x = 0
  <1>1. /\ Unit(3) \in Nat \ {0} /\ TIME_LEVEL \in Nat \ {0} /\ Width \in Nat \ {0}
        /\ Width = TIME_LEVEL * Unit(3)
    BY UnitsAre, UnitAssumption DEF Levels
  <1>2. x \in 0 .. Width - 1 /\ x % Unit(3) = 0 /\ (x \div Unit(3)) % TIME_LEVEL = 0
    BY DEF Times, Slot
  <1> QED
    BY <1>1, <1>2, LastSlot

LEMMA ZeroBegins ==
  ASSUME NEW l \in Levels
  PROVE  0 % Unit(l) = 0 /\ Slot(l, 0) = 0
  <1>1. Unit(l) \in Nat \ {0} /\ TIME_LEVEL \in Nat \ {0}
    BY UnitsAre
  <1>2. 0 % Unit(l) = 0 /\ 0 \div Unit(l) = 0
    <2>1. 0 = Unit(l) * 0 + 0 /\ 0 \in 0 .. Unit(l) - 1
      BY <1>1
    <2> QED
      BY <1>1, <2>1, DivModUnique
  <1>3. 0 % TIME_LEVEL = 0
    <2>1. 0 = TIME_LEVEL * 0 + 0 /\ 0 \in 0 .. TIME_LEVEL - 1
      BY <1>1
    <2> QED
      BY <1>1, <2>1, DivModUnique
  <1> QED
    BY <1>2, <1>3 DEF Slot

\* At most one slot begins, and it is the one that timer_shift moves down.
LEMMA ShiftIs ==
  ASSUME NEW w \in Wheels, NEW ct \in Times
  PROVE  \/ /\ TimerShift(w, ct) = w
            /\ \A l \in Levels, i \in LevelSlots : ~Begins(l, i, ct)
         \/ \E l \in Levels, i \in LevelSlots :
              /\ TimerShift(w, ct) = MoveList(w, ct, l, i)
              /\ \A k \in Levels, j \in LevelSlots : Begins(k, j, ct) => k = l /\ j = i
  <1> DEFINE level == {l \in Levels : ct % Unit(l) = 0 /\ Slot(l, ct) # 0}
  <1>0. ct \in Nat /\ Levels \subseteq Int /\ 0 \in LevelSlots /\ 3 \in Levels
    BY UnitsAre DEF Times, Levels, LevelSlots
  <1>1. CASE ct = 0
    <2>1. TimerShift(w, ct) = MoveList(w, ct, 3, 0)
      BY <1>1 DEF TimerShift
    <2>2. ASSUME NEW k \in Levels, NEW j \in LevelSlots, Begins(k, j, ct)
          PROVE  k = 3 /\ j = 0
      BY <1>1, <2>2, ZeroBegins DEF Begins
    <2> QED
      BY <1>0, <2>1, <2>2
  <1>2. CASE ct # 0 /\ level = {}
    <2>1. TimerShift(w, ct) = w
      BY <1>2 DEF TimerShift
    <2>2. ASSUME NEW k \in Levels, NEW j \in LevelSlots, Begins(k, j, ct)
          PROVE  FALSE
      <3>1. ct % Unit(k) = 0 /\ Slot(k, ct) = j /\ (k = 3 \/ j # 0)
        BY <2>2 DEF Begins
      <3>2. Slot(k, ct) = 0 /\ j = 0 /\ k = 3
        BY <1>2, <3>1
      <3> QED
        BY <1>2, <3>1, <3>2, LastBegins
    <2> QED
      BY <2>1, <2>2
  <1>3. CASE ct # 0 /\ level # {}
    <2> DEFINE l == CHOOSE l \in level : TRUE
               i == Slot(l, ct)
    <2>1. l \in level
      BY <1>3
    <2>2. TimerShift(w, ct) = MoveList(w, ct, l, i)
      BY <1>3 DEF TimerShift
    <2> HIDE DEF l
    <2>3. l \in Levels /\ ct % Unit(l) = 0 /\ i # 0
      BY <2>1
    <2>4. i \in LevelSlots
      BY <1>0, <2>3, SlotIs
    <2>5. ASSUME NEW k \in Levels, NEW j \in LevelSlots, Begins(k, j, ct)
          PROVE  k = l /\ j = i
      <3>1. ct % Unit(k) = 0 /\ Slot(k, ct) = j /\ (k = 3 \/ j # 0)
        BY <2>5 DEF Begins
      <3>2. Slot(k, ct) # 0
        BY <1>3, <3>1, LastBegins
      <3>3. ~(k < l)
        BY <1>0, <2>3, <3>2, LowerSlots
      <3>4. ~(l < k)
        BY <1>0, <2>3, <3>1, LowerSlots
      <3>5. k = l
        BY <1>0, <2>3, <3>3, <3>4
      <3> QED
        BY <3>1, <3>5
    <2> HIDE DEF i
    <2> QED
      BY <2>2, <2>3, <2>4, <2>5
  <1> QED
    BY <1>1, <1>2, <1>3

\* A node that is neither due nor in the slot that begins stays in its place.
LEMMA TickPlaced ==
  ASSUME NEW now \in Times, NEW ct, ct = (now + 1) % Width, NEW when \in Times,
         NEW p \in Places, RightPlace(p, when, now), p # <<Near, now % TIME_NEAR>>,
         \A l \in Levels, i \in LevelSlots : p = <<l, i>> => ~Begins(l, i, ct)
  PROVE  RightPlace(p, when, ct)
  <1> DEFINE a == (when - now) % Width
  <1>1. /\ Width \in Nat \ {0} /\ TIME_NEAR \in Nat \ {0} /\ now \in 0 .. Width - 1
        /\ when \in 0 .. Width - 1 /\ when \in Nat /\ now + 1 \in Int
    BY UnitsAre DEF Times
  <1>2. ct \in 0 .. Width - 1
    BY <1>1, DivMod
  <1>3. a \in 0 .. Width - 1 /\ (a = 0 <=> when = now)
    BY ONLY <1>1, AheadSmall
  <1>4. a # 0 => (when - ct) % Width = a - 1
    <2>1. when \in Int
      BY <1>1
    <2> QED
      BY ONLY <1>1, <2>1, ct = (now + 1) % Width, AheadFalls
  <1> HIDE DEF a
  <1>5. ASSUME NEW i \in NearSlots, p = <<Near, i>>
        PROVE  RightPlace(p, when, ct)
    <2>1. p[1] = Near /\ p[2] = i /\ Near \notin Levels
      BY <1>5, PlacesAre
    <2>2. when % TIME_NEAR = i /\ a < TIME_NEAR
      BY <2>1 DEF RightPlace, a
    <2>3. when # now
      BY <1>5, <2>2
    <2>4. (when - ct) % Width < TIME_NEAR
      BY <1>1, <1>3, <1>4, <2>2, <2>3
    <2> QED
      BY <2>1, <2>2, <2>4 DEF RightPlace
  <1>6. ASSUME NEW l \in Levels, NEW i \in LevelSlots, p = <<l, i>>
        PROVE  RightPlace(p, when, ct)
    <2> DEFINE r == when % Unit(l)
               b == when - r
               c == (b - now) % Width
    <2>1. p[1] = l /\ p[2] = i /\ l # Near /\ Slot(l, when) = i
      BY <1>6, PlacesAre DEF RightPlace
    <2>2. SUFFICES ASSUME l = 3 \/ i # 0
                   PROVE  (b - ct) % Width \in 1 .. (when - ct) % Width
      BY <2>1 DEF RightPlace
    <2>3. c \in 1 .. a
      BY <2>1, <2>2 DEF RightPlace, a
    <2>4. Unit(l) \in Nat \ {0}
      BY UnitsAre
    <2>5. b \in 0 .. when /\ b % Unit(l) = 0 /\ b \div Unit(l) = when \div Unit(l)
      BY <1>1, <2>4, SlotBegins
    <2> HIDE DEF r, b
    <2>6. b \in 0 .. Width - 1 /\ b \in Int
      BY <1>1, <2>5
    <2>7. c # 0
      BY <1>3, <2>3
    <2>8. (b - ct) % Width = c - 1
      BY <1>1, <2>6, <2>7, AheadFalls
    <2>9. b # ct
      <3>1. SUFFICES ASSUME b = ct PROVE FALSE
        OBVIOUS
      <3>2. Slot(l, ct) = i
        BY <2>1, <2>5, <3>1 DEF Slot
      <3>3. ct % Unit(l) = 0
        BY <2>5, <3>1
      <3> QED
        BY <1>6, <2>2, <3>2, <3>3 DEF Begins
    <2>10. (b - ct) % Width # 0 /\ (b - ct) % Width \in 0 .. Width - 1
      BY <1>1, <1>2, <2>6, <2>9, AheadSmall
    <2>11. (when - ct) % Width = a - 1
      BY <1>3, <1>4, <2>3
    <2> HIDE DEF c
    <2> QED
      BY <1>3, <2>3, <2>8, <2>10, <2>11
  <1>7. CASE p = TakenPlace
    BY <1>7, TakenPlaced
  <1> QED
    BY <1>5, <1>6, <1>7, PlacesAre

\* Before a tick nothing is due; the shift then puts what it moves in its place.
LEMMA ShiftKeeps ==
  ASSUME NEW w, NEW L, NEW now \in Times, NEW ct, ct = (now + 1) % Width,
         expire \in [Nodes -> Times], Kept(w, <<>>, L, expire, now),
         w.near[now % TIME_NEAR] = <<>>
  PROVE  Kept(TimerShift(w, ct), <<>>, L, expire, ct)
  <1> DEFINE none == <<>>
             F == Lists(w, none)
             first == <<Near, now % TIME_NEAR>>
  <1>1. /\ w \in Wheels /\ none \in Seq(Nodes) /\ EachOnce(F, L) /\ AllPlaced(F, expire, now)
    BY DEF Kept
  <1>2. ct \in Times
    <2>1. Width \in Nat \ {0} /\ now + 1 \in Int
      BY UnitsAre DEF Times
    <2> QED
      BY <2>1, DivMod DEF Times
  <1>3. now % TIME_NEAR \in NearSlots
    <2>1. now \in Int /\ TIME_NEAR \in Nat \ {0}
      BY UnitsAre DEF Times
    <2> QED
      BY ONLY <2>1, DivMod DEF NearSlots
  <1>4. F \in [Places -> Seq(Nodes)] /\ F[first] = none /\ F[TakenPlace] = none
    BY <1>1, <1>3, ListsAre DEF ListAt
  <1> HIDE DEF none, F, first
  <1>5. ASSUME NEW q \in Places, NEW i \in 1 .. Len(F[q]), q # TakenPlace,
               \A l \in Levels, j \in LevelSlots : q = <<l, j>> => ~Begins(l, j, ct)
        PROVE  RightPlace(q, expire[F[q][i]], ct)
    <2>1. F[q][i] \in Nodes
      BY <1>4
    <2>2. expire[F[q][i]] \in Times
      BY <2>1
    <2>3. RightPlace(q, expire[F[q][i]], now)
      BY <1>1 DEF AllPlaced
    <2>4. q # first
      BY <1>4 DEF none
    <2> QED
      BY <1>5, <2>2, <2>3, <2>4, TickPlaced DEF first
  <1>6. CASE /\ TimerShift(w, ct) = w
             /\ \A l \in Levels, i \in LevelSlots : ~Begins(l, i, ct)
    <2>1. ASSUME NEW q \in Places, NEW i \in 1 .. Len(F[q])
          PROVE  RightPlace(q, expire[F[q][i]], ct)
      BY <1>5, <1>6, TakenPlaced
    <2>2. AllPlaced(F, expire, ct)
      BY <2>1 DEF AllPlaced
    <2> QED
      BY <1>1, <1>6, <2>2 DEF Kept, F, none
  <1>7. ASSUME NEW l \in Levels, NEW i \in LevelSlots,
               TimerShift(w, ct) = MoveList(w, ct, l, i),
               \A k \in Levels, j \in LevelSlots : Begins(k, j, ct) => k = l /\ j = i
        PROVE  Kept(TimerShift(w, ct), none, L, expire, ct)
    <2> DEFINE v == SetLevel(w, l, i, none)
               b == w.t[l][i]
               p == <<l, i>>
               G == Lists(v, b)
    <2>1. /\ v \in Wheels /\ b \in Seq(Nodes) /\ b = F[p]
          /\ G = Take(F, p)
      BY <1>1, ClearedLists DEF F, none, Take
    <2>2. p \in Places \ {TakenPlace} /\ TakenPlace \in Places
      BY PlacesAre
    <2>3. MoveList(w, ct, l, i) = Relink(v, ct, b)
      BY DEF MoveList, SetLevel, none
    <2> HIDE DEF v, b, G
    <2>4. /\ G \in [Places -> Seq(Nodes)] /\ G[p] = none /\ G[TakenPlace] = F[p]
          /\ \A q \in Places \ {p, TakenPlace} : G[q] = F[q]
      BY <1>4, <2>1, <2>2, TakeIs DEF none
    <2>5. EachOnce(G, L)
      <3>1. F \in [Places -> Seq(Nodes)] /\ EachOnce(F, L) /\ F[TakenPlace] = <<>>
        BY <1>1, <1>4 DEF none
      <3>2. G \in [Places -> Seq(Nodes)] /\ G[p] = <<>>
        BY <2>4 DEF none
      <3> HIDE DEF p
      <3> QED
        BY ONLY <2>2, <2>4, <3>1, <3>2, TakeOnce
    <2>6. AllPlaced(G, expire, ct)
      <3>1. ASSUME NEW q \in Places \ {p, TakenPlace}, NEW j \in 1 .. Len(F[q])
            PROVE  RightPlace(q, expire[F[q][j]], ct)
        BY <1>5, <1>7
      <3> HIDE DEF p
      <3> QED
        BY <1>1, <1>4, <2>1, <2>2, <3>1, TakePlaced
    <2>7. Kept(v, b, L, expire, ct)
      BY <2>1, <2>5, <2>6 DEF Kept, G
    <2> QED
      BY <1>2, <1>7, <2>3, <2>7, RelinkKeeps DEF none
  <1> QED
    BY <1>1, <1>2, <1>6, <1>7, ShiftIs DEF none

-----------------------------------------------------------------------------
(* The wheel keeps its timers                                               *)

\* Every timer in use is in one list, in time to be met, and nothing is due between the
\* sections; what is being dispatched expires now.
WheelInv ==
  /\ TypeOK /\ Kept(wheel, batch, Linked, expire, time)
  /\ wheel.near[time % TIME_NEAR] = <<>>
  /\ OnTime

LEMMA WheelStarts == Init => WheelInv
  <1> SUFFICES ASSUME Init PROVE WheelInv
    OBVIOUS
  <1> DEFINE none == <<>>
             F == Lists(wheel, none)
  <1>0. Width \in Nat \ {0} /\ TIME_NEAR \in Nat \ {0} /\ none \in Seq(Nodes) /\ Len(none) = 0
    BY UnitsAre
  <1>1. 0 \in Times /\ 0 % TIME_NEAR \in NearSlots
    <2>1. 0 \in Int
      OBVIOUS
    <2>2. 0 % TIME_NEAR \in 0 .. TIME_NEAR - 1
      BY ONLY <1>0, <2>1, DivMod
    <2> QED
      BY <1>0, <2>2 DEF Times, NearSlots
  <1>2. /\ \A i \in NearSlots : wheel.near[i] = none
        /\ \A l \in Levels, i \in LevelSlots : wheel.t[l][i] = none
    BY DEF Init
  <1>3. wheel \in Wheels
    <2>1. /\ [i \in NearSlots |-> none] \in [NearSlots -> Seq(Nodes)]
          /\ [l \in Levels |-> [i \in LevelSlots |-> none]]
               \in [Levels -> [LevelSlots -> Seq(Nodes)]]
      BY <1>0
    <2> QED
      BY <2>1 DEF Init, Wheels
  <1>4. TypeOK /\ OnTime /\ batch = none /\ Linked = {}
    BY <1>0, <1>1, <1>3 DEF Init, TypeOK, OnTime, Range, Linked
  <1> HIDE DEF none, F
  <1>5. ListAt(F, wheel, none)
    BY <1>0, <1>3, ListsAre DEF F
  <1>6. F \in [Places -> Seq(Nodes)] /\ \A p \in Places : F[p] = none
    <2>1. /\ F \in [Places -> Seq(Nodes)] /\ F[TakenPlace] = none
          /\ \A i \in NearSlots : F[<<Near, i>>] = none
          /\ \A l \in Levels, i \in LevelSlots : F[<<l, i>>] = none
      BY <1>2, <1>5 DEF ListAt
    <2>2. ASSUME NEW p \in Places
          PROVE  F[p] = none
      <3>1. \/ p = TakenPlace
            \/ \E i \in NearSlots : p = <<Near, i>>
            \/ \E l \in Levels, i \in LevelSlots : p = <<l, i>>
        BY PlacesAre
      <3> QED
        BY ONLY <2>1, <3>1
    <2> QED
      BY <2>1, <2>2
  <1>7. EachOnce(F, {}) /\ AllPlaced(F, expire, time)
    <2>1. Covers(Places, F, {}) /\ Within(Places, F, {}) /\ Single(Places, F)
      BY <1>0, <1>6 DEF Covers, Within, Single
    <2>2. AllPlaced(F, expire, time)
      BY <1>0, <1>6 DEF AllPlaced
    <2> QED
      BY <1>6, <2>1, <2>2, EachOnceIs
  <1>8. Kept(wheel, batch, Linked, expire, time)
    BY <1>0, <1>3, <1>4, <1>7 DEF Kept, F
  <1>9. wheel.near[time % TIME_NEAR] = <<>>
    BY <1>1, <1>2 DEF Init, none
  <1> QED
    BY <1>4, <1>8, <1>9 DEF WheelInv

\* What a timer is added for is later than now.
LEMMA LaterThanNow ==
  ASSUME NEW now \in Times, NEW d \in Delays
  PROVE  (now + d) % Width \in Times /\ (now + d) % Width # now
  <1>1. Width \in Nat \ {0} /\ now \in 0 .. Width - 1
    BY UnitsAre DEF Times
  <1>2. d \in 1 .. Width - 1
    <2>1. /\ Width = 2 * (Width \div 2) + (Width % 2) /\ Width % 2 \in 0 .. 1
          /\ Width \div 2 \in Int
      BY <1>1, DivMod
    <2>2. d \in 1 .. (Width \div 2) - 1
      BY DelayAssumption
    <2> QED
      BY <1>1, <2>1, <2>2
  <1>3. CASE now + d < Width
    <2>1. now + d = Width * 0 + (now + d) /\ now + d \in 0 .. Width - 1 /\ now + d \in Int
      BY <1>1, <1>2, <1>3
    <2>2. (now + d) % Width = now + d
      BY <1>1, <2>1, DivModUnique
    <2> QED
      BY <1>1, <1>2, <2>1, <2>2 DEF Times
  <1>4. CASE ~(now + d < Width)
    <2> DEFINE r == now + d - Width
               q == 1
               x == now + d
    <2>1. q \in Int /\ x = Width * q + r /\ r \in 0 .. Width - 1 /\ x \in Int /\ r # now
      BY <1>1, <1>2, <1>4
    <2> HIDE DEF r, q, x
    <2>2. x % Width = r
      BY ONLY <1>1, <2>1, DivModUnique
    <2> QED
      BY <1>1, <2>1, <2>2 DEF Times, x
  <1> QED
    BY <1>3, <1>4

\* In the slot of now there is room only for now.
LEMMA NowOnly ==
  ASSUME NEW now \in Times, NEW when \in Times,
         (when - now) % Width < TIME_NEAR, when % TIME_NEAR = now % TIME_NEAR
  PROVE  when = now
  <1>1. /\ TIME_NEAR \in Nat \ {0} /\ Width \in Nat \ {0}
        /\ now \in 0 .. Width - 1 /\ when \in 0 .. Width - 1
    BY UnitsAre DEF Times
  <1>2. PICK k \in Nat \ {0} : Width = TIME_NEAR * k
    BY NearDivides
  <1> QED
    BY ONLY <1>1, <1>2, (when - now) % Width < TIME_NEAR,
            when % TIME_NEAR = now % TIME_NEAR, NearOnly

LEMMA NowSlot ==
  ASSUME NEW now \in Times
  PROVE  now % TIME_NEAR \in NearSlots
  <1>1. now \in Int /\ TIME_NEAR \in Nat \ {0}
    BY UnitsAre DEF Times
  <1> QED
    BY ONLY <1>1, DivMod DEF NearSlots

LEMMA AddKeepsWheel ==
  ASSUME WheelInv, NEW n \in Nodes, NEW d \in Delays, AddTimer(n, d)
  PROVE  WheelInv'
  <1> DEFINE when == Expiry(d)
             now == time
             F == Lists(wheel, batch)
             G == Lists(wheel', batch)
             p == PlaceFor(now, when)
             first == <<Near, now % TIME_NEAR>>
  <1>1. /\ wheel \in Wheels /\ batch \in Seq(Nodes) /\ now \in Times
        /\ expire \in [Nodes -> Times] /\ status \in [Nodes -> {"free", "live", "deleted"}]
        /\ EachOnce(F, Linked) /\ AllPlaced(F, expire, now)
        /\ wheel.near[now % TIME_NEAR] = <<>>
    BY DEF WheelInv, TypeOK, Kept
  <1>2. /\ expire' = [expire EXCEPT ![n] = when] /\ wheel' = AddNode(wheel, now, n, when)
        /\ status' = [status EXCEPT ![n] = "live"] /\ status[n] = "free"
        /\ batch' = batch /\ time' = time /\ cancel' = cancel /\ turning' = turning
    BY DEF AddTimer
  <1>3. when \in Times /\ when # now
    BY <1>1, LaterThanNow DEF Expiry
  <1>4. n \notin Linked /\ Linked' = Linked \cup {n}
    BY <1>1, <1>2 DEF Linked
  <1> HIDE DEF when, now
  <1>5. wheel' \in Wheels /\ G = Put(F, p, Append(F[p], n))
    BY <1>1, <1>2, <1>3, AddNodeLists
  <1>6. p \in Places /\ p # TakenPlace /\ RightPlace(p, when, now)
    BY <1>1, <1>3, PlaceRight
  <1>7. ListAt(F, wheel, batch) /\ ListAt(G, wheel', batch)
    BY <1>1, <1>5, ListsAre
  <1>8. F \in [Places -> Seq(Nodes)] /\ G \in [Places -> Seq(Nodes)]
    BY <1>7 DEF ListAt
  <1> HIDE DEF F, G, p
  <1>9. EachOnce(G, Linked')
    BY <1>1, <1>4, <1>5, <1>6, <1>8, LinkOnce DEF Put
  <1>10. /\ expire' \in [Nodes -> Times] /\ expire'[n] = when
         /\ \A m \in Linked : expire'[m] = expire[m]
    BY <1>1, <1>2, <1>3, <1>4 DEF Linked
  <1>11. AllPlaced(G, expire', now)
    <2>1. AllPlaced(F, expire', now)
      BY <1>1, <1>8, <1>10, PlacedAgree
    <2> QED
      BY <1>5, <1>6, <1>8, <1>10, <2>1, LinkPlaced
  <1>12. wheel'.near[now % TIME_NEAR] = <<>>
    <2>1. first \in Places /\ now % TIME_NEAR \in NearSlots
      BY <1>1, NowSlot, PlacesAre
    <2>2. p # first
      <3>1. SUFFICES ASSUME p = first PROVE FALSE
        OBVIOUS
      <3>2. p[1] = Near /\ p[2] = now % TIME_NEAR
        BY <3>1
      <3>3. when % TIME_NEAR = now % TIME_NEAR /\ (when - now) % Width < TIME_NEAR
        BY <1>6, <3>2 DEF RightPlace
      <3> QED
        BY <1>1, <1>3, <3>3, NowOnly
    <2>3. G[first] = F[first]
      <3> DEFINE s == Append(F[p], n)
      <3>1. G = [F EXCEPT ![p] = s]
        BY <1>5 DEF Put
      <3> HIDE DEF s, first
      <3> QED
        BY <1>8, <2>1, <2>2, <3>1
    <2>4. G[first] = wheel'.near[now % TIME_NEAR] /\ F[first] = wheel.near[now % TIME_NEAR]
      BY <1>7, <2>1 DEF ListAt
    <2> QED
      BY <1>1, <2>3, <2>4
  <1>13. TypeOK'
    <2>1. status' \in [Nodes -> {"free", "live", "deleted"}]
      BY <1>1, <1>2
    <2> QED
      BY <1>2, <1>5, <1>10, <2>1 DEF WheelInv, TypeOK
  <1>14. OnTime'
    <2>1. \A m \in Range(batch) : m \in Linked
      BY <1>1, <1>7, <1>8, PlacesAre DEF EachOnce, ListAt
    <2> QED
      BY <1>2, <1>10, <2>1 DEF WheelInv, OnTime
  <1>15. Kept(wheel', batch, Linked', expire', now)
    BY <1>1, <1>5, <1>9, <1>11 DEF Kept, G
  <1> QED
    BY <1>2, <1>12, <1>13, <1>14, <1>15 DEF WheelInv, now

LEMMA DelKeepsWheel ==
  ASSUME WheelInv, NEW n \in Nodes, DelTimer(n)
  PROVE  WheelInv'
  <1>1. /\ status[n] # "free" /\ cancel' = [cancel EXCEPT ![n] = 1]
        /\ status' = [status EXCEPT ![n] = "deleted"]
        /\ wheel' = wheel /\ time' = time /\ expire' = expire
        /\ batch' = batch /\ turning' = turning
    BY DEF DelTimer
  <1>2. status \in [Nodes -> {"free", "live", "deleted"}] /\ cancel \in [Nodes -> {0, 1}]
    BY DEF WheelInv, TypeOK
  <1>3. /\ status' \in [Nodes -> {"free", "live", "deleted"}] /\ cancel' \in [Nodes -> {0, 1}]
        /\ Linked' = Linked
    BY <1>1, <1>2 DEF Linked
  <1>4. TypeOK' /\ OnTime'
    BY <1>1, <1>3 DEF WheelInv, TypeOK, OnTime
  <1> QED
    BY <1>1, <1>3, <1>4 DEF WheelInv

LEMMA UpdateKeepsWheel ==
  ASSUME WheelInv, TimerUpdate
  PROVE  WheelInv'
  <1> DEFINE ct == (time + 1) % Width
             w == TimerShift(wheel, ct)
             F == Lists(w, <<>>)
             p == <<Near, ct % TIME_NEAR>>
             b == Due(w, ct)
             v == WithoutDue(w, ct)
             G == Lists(v, b)
  <1>1. /\ time \in Times /\ expire \in [Nodes -> Times]
        /\ Kept(wheel, <<>>, Linked, expire, time)
        /\ Due(wheel, time) = <<>> /\ wheel.near[time % TIME_NEAR] = <<>> /\ batch = <<>>
    BY DEF WheelInv, TypeOK, TimerUpdate, Due
  <1>2. /\ expire' = expire /\ cancel' = cancel /\ status' = status
        /\ \/ turning' = FALSE /\ batch' = batch /\ wheel' = wheel /\ time' = time
           \/ time' = ct /\ batch' = b /\ wheel' = v /\ turning' \in BOOLEAN
    BY <1>1 DEF TimerUpdate
  <1>3. Linked' = Linked
    BY <1>2 DEF Linked
  <1>4. CASE turning' = FALSE /\ batch' = batch /\ wheel' = wheel /\ time' = time
    <2>1. TypeOK' /\ OnTime'
      BY <1>2, <1>4 DEF WheelInv, TypeOK, OnTime
    <2> QED
      BY <1>2, <1>3, <1>4, <2>1 DEF WheelInv
  <1>5. CASE time' = ct /\ batch' = b /\ wheel' = v /\ turning' \in BOOLEAN
    <2>1. ct \in Times
      <3>1. Width \in Nat \ {0} /\ time + 1 \in Int
        BY <1>1, UnitsAre DEF Times
      <3> QED
        BY <3>1, DivMod DEF Times
    <2>2. Kept(w, <<>>, Linked, expire, ct)
      BY <1>1, ShiftKeeps
    <2> HIDE DEF ct, w
    <2>3. /\ w \in Wheels /\ <<>> \in Seq(Nodes) /\ EachOnce(F, Linked)
          /\ AllPlaced(F, expire, ct)
      BY <2>2 DEF Kept
    <2>4. /\ p \in Places \ {TakenPlace} /\ b = F[p] /\ b \in Seq(Nodes) /\ v \in Wheels
          /\ v.near[ct % TIME_NEAR] = <<>> /\ G = Take(F, p)
      BY <2>1, <2>3, DueLists DEF Take
    <2>5. F \in [Places -> Seq(Nodes)] /\ F[TakenPlace] = <<>> /\ TakenPlace \in Places
      BY <2>3, ListsAre, PlacesAre DEF ListAt
    <2>6. \A n \in Range(b) : expire[n] = ct
      <3>1. SUFFICES ASSUME NEW n \in Range(b) PROVE expire[n] = ct
        OBVIOUS
      <3>2. PICK i \in 1 .. Len(b) : b[i] = n
        BY <2>4 DEF Range
      <3>3. RightPlace(p, expire[n], ct)
        BY <2>3, <2>4, <3>2 DEF AllPlaced
      <3>4. expire[n] \in Times
        BY <1>1, <2>4, <3>2
      <3>5. expire[n] % TIME_NEAR = ct % TIME_NEAR /\ (expire[n] - ct) % Width < TIME_NEAR
        BY <3>3 DEF RightPlace
      <3> QED
        BY <2>1, <3>4, <3>5, NowOnly
    <2> HIDE DEF F, G, v, b, p
    <2>7. /\ G \in [Places -> Seq(Nodes)] /\ G[p] = <<>> /\ G[TakenPlace] = F[p]
          /\ \A q \in Places \ {p, TakenPlace} : G[q] = F[q]
      BY <2>4, <2>5, TakeIs
    <2>8. EachOnce(G, Linked)
      <3>1. F \in [Places -> Seq(Nodes)] /\ EachOnce(F, Linked) /\ F[TakenPlace] = <<>>
        BY <2>3, <2>5
      <3>2. p \in Places /\ p # TakenPlace /\ TakenPlace \in Places
        BY <2>4, <2>5
      <3> QED
        BY ONLY <2>7, <3>1, <3>2, TakeOnce
    <2>9. AllPlaced(G, expire, ct)
      BY <2>3, <2>4, <2>5, TakePlaced
    <2>10. Kept(v, b, Linked, expire, ct)
      BY <2>4, <2>8, <2>9 DEF Kept, G
    <2>11. TypeOK' /\ OnTime'
      BY <1>2, <1>5, <2>1, <2>4, <2>6 DEF WheelInv, TypeOK, OnTime
    <2> QED
      BY <1>2, <1>3, <1>5, <2>4, <2>10, <2>11 DEF WheelInv
  <1> QED
    BY <1>2, <1>4, <1>5

LEMMA DispatchKeepsWheel ==
  ASSUME WheelInv, Dispatch
  PROVE  WheelInv'
  <1> DEFINE n == Head(batch)
             c == Tail(batch)
             F == Lists(wheel, batch)
             G == Lists(wheel, c)
  <1>1. /\ wheel \in Wheels /\ batch \in Seq(Nodes) /\ time \in Times
        /\ expire \in [Nodes -> Times] /\ status \in [Nodes -> {"free", "live", "deleted"}]
        /\ EachOnce(F, Linked) /\ AllPlaced(F, expire, time) /\ OnTime
    BY DEF WheelInv, TypeOK, Kept
  <1>2. /\ batch # <<>> /\ batch' = c /\ expire' = [expire EXCEPT ![n] = 0]
        /\ status' = [status EXCEPT ![n] = "free"]
        /\ wheel' = wheel /\ time' = time /\ cancel' = cancel /\ turning' = turning
    BY DEF Dispatch
  <1>3. c \in Seq(Nodes) /\ G = Put(F, TakenPlace, Tail(F[TakenPlace]))
    BY <1>1, <1>2, TailLists
  <1>4. ListAt(F, wheel, batch) /\ ListAt(G, wheel, c)
    BY <1>1, <1>3, ListsAre
  <1>5. F \in [Places -> Seq(Nodes)] /\ G \in [Places -> Seq(Nodes)]
        /\ F[TakenPlace] = batch /\ G[TakenPlace] = c /\ TakenPlace \in Places
    BY <1>4, PlacesAre DEF ListAt
  <1>6. \A m \in Range(c) : m \in Range(batch)
    BY <1>1, <1>2 DEF Range
  <1> HIDE DEF F, G, c
  <1>7. EachOnce(G, Linked \ {n}) /\ n \in Linked /\ n \in Nodes
    BY <1>1, <1>2, <1>3, <1>5, DropOnce DEF Put
  <1> HIDE DEF n
  <1>8. Linked' = Linked \ {n}
    BY <1>1, <1>2, <1>7 DEF Linked
  <1>9. 0 \in Times
    BY UnitsAre DEF Times
  <1>10. expire' \in [Nodes -> Times] /\ \A m \in Linked \ {n} : expire'[m] = expire[m]
    BY <1>1, <1>2, <1>7, <1>9 DEF Linked
  <1>11. AllPlaced(G, expire', time)
    <2>1. AllPlaced(G, expire, time)
      BY <1>1, <1>2, <1>3, <1>5, TailPlaced
    <2> QED
      BY <1>5, <1>7, <1>10, <2>1, PlacedAgree
  <1>12. OnTime'
    <2>1. \A m \in Range(c) : m \in Linked \ {n}
      BY <1>5, <1>7 DEF EachOnce
    <2> QED
      BY <1>1, <1>2, <1>6, <1>10, <2>1 DEF OnTime
  <1>13. TypeOK'
    <2>1. status' \in [Nodes -> {"free", "live", "deleted"}]
      BY <1>1, <1>2
    <2> QED
      BY <1>2, <1>3, <1>10, <2>1 DEF WheelInv, TypeOK
  <1>14. Kept(wheel, c, Linked', expire', time)
    BY <1>1, <1>3, <1>7, <1>8, <1>11 DEF Kept, G
  <1> QED
    BY <1>2, <1>12, <1>13, <1>14 DEF WheelInv

LEMMA WheelNext == WheelInv /\ [Next]_vars => WheelInv'
  <1> SUFFICES ASSUME WheelInv, [Next]_vars PROVE WheelInv'
    OBVIOUS
  <1>1. CASE UNCHANGED vars
    <2>1. Linked' = Linked
      BY <1>1 DEF vars, Linked
    <2> QED
      BY <1>1, <2>1 DEF vars, WheelInv, TypeOK, OnTime
  <1> QED
    BY <1>1, AddKeepsWheel, DelKeepsWheel, UpdateKeepsWheel, DispatchKeepsWheel DEF Next

\* A time that is not the wheel's own is still to come.
LEMMA StillAhead ==
  ASSUME NEW now \in Times, NEW when \in Times
  PROVE  /\ (when - now) % Width \in 0 .. Width - 1
         /\ (when - now) % Width = 0 <=> when = now
  <1>1. /\ Width \in Nat \ {0} /\ now \in 0 .. Width - 1 /\ when \in 0 .. Width - 1
    BY UnitsAre DEF Times
  <1> QED
    BY ONLY <1>1, AheadSmall

\* A timer in near is within one turn of it, and one in a slot of a level expires in or after
\* that slot, which is still to begin if it is one that is moved (timerwheel.c:74-139).
LEMMA InPlace == WheelInv => Placed
  <1> SUFFICES ASSUME WheelInv PROVE Placed
    OBVIOUS
  <1> DEFINE F == Lists(wheel, batch)
  <1>1. /\ wheel \in Wheels /\ batch \in Seq(Nodes) /\ time \in Times
        /\ expire \in [Nodes -> Times] /\ AllPlaced(F, expire, time)
        /\ wheel.near[time % TIME_NEAR] = <<>>
    BY DEF WheelInv, TypeOK, Kept
  <1>2. ListAt(F, wheel, batch)
    BY <1>1, ListsAre
  <1> HIDE DEF F
  <1>3. ASSUME NEW i \in NearSlots, NEW n \in Range(wheel.near[i])
        PROVE  expire[n] % TIME_NEAR = i /\ Ahead(expire[n]) \in 1 .. TIME_NEAR - 1
    <2> DEFINE p == <<Near, i>>
               when == expire[n]
    <2>1. F[p] = wheel.near[i] /\ wheel.near[i] \in Seq(Nodes) /\ p \in Places
      BY <1>2, PlacesAre DEF ListAt
    <2>2. PICK j \in 1 .. Len(F[p]) : F[p][j] = n
      BY <2>1 DEF Range
    <2>3. RightPlace(p, when, time) /\ when \in Times
      <3>1. n \in Nodes
        BY <2>1, <2>2
      <3> QED
        BY <1>1, <2>1, <2>2, <3>1 DEF AllPlaced
    <2> HIDE DEF when
    <2>4. when % TIME_NEAR = i /\ (when - time) % Width < TIME_NEAR
      BY <2>3 DEF RightPlace
    <2>5. when # time
      <3>1. SUFFICES ASSUME when = time PROVE FALSE
        OBVIOUS
      <3>2. F[p] = <<>>
        BY <1>1, <2>1, <2>4, <3>1
      <3>3. Len(F[p]) = 0
        BY ONLY <3>2
      <3>4. j \in 1 .. Len(F[p])
        OBVIOUS
      <3> QED
        BY ONLY <3>3, <3>4
    <2>6. /\ Width \in Nat \ {0} /\ TIME_NEAR \in Nat \ {0}
          /\ time \in 0 .. Width - 1 /\ when \in 0 .. Width - 1
      BY <1>1, <2>3, UnitsAre DEF Times
    <2>7. (when - time) % Width \in 0 .. Width - 1 /\ (when - time) % Width # 0
      BY <1>1, <2>3, <2>5, StillAhead
    <2>8. Ahead(when) \in 1 .. TIME_NEAR - 1
      BY <2>4, <2>6, <2>7 DEF Ahead
    <2> QED
      BY <2>4, <2>8 DEF when
  <1>4. ASSUME NEW l \in Levels, NEW i \in LevelSlots, NEW n \in Range(wheel.t[l][i])
        PROVE  /\ Slot(l, expire[n]) = i
               /\ ~InDeadSlot(n) =>
                    Ahead(expire[n] - (expire[n] % Unit(l))) \in 1 .. Ahead(expire[n])
    <2> DEFINE p == <<l, i>>
    <2>1. F[p] = wheel.t[l][i] /\ wheel.t[l][i] \in Seq(Nodes) /\ p \in Places
      BY <1>2, PlacesAre DEF ListAt
    <2>2. PICK j \in 1 .. Len(F[p]) : F[p][j] = n
      BY <2>1 DEF Range
    <2>3. RightPlace(p, expire[n], time)
      BY <1>1, <2>1, <2>2 DEF AllPlaced
    <2>4. l = 3 \/ i # 0 \/ InDeadSlot(n)
      BY DEF InDeadSlot, Levels
    <2> QED
      BY <2>3, <2>4 DEF RightPlace, Ahead
  <1> QED
    BY <1>3, <1>4 DEF Placed

\* What the wheel is made of is never anything else (timerwheel.c:36-139).
THEOREM WheelTypes == SafetySpec => []TypeOK
  <1>1. WheelInv => TypeOK
    BY DEF WheelInv
  <1> QED
    BY <1>1, WheelStarts, WheelNext, PTL DEF SafetySpec

\* Whatever is added, moved down and dispatched in whatever order, every timer in use is in
\* exactly one list, once: none is lost, dispatched twice or freed twice (timerwheel.c:92-205).
THEOREM WheelLosesNoTimer == SafetySpec => []LinkedOnce
  <1>1. WheelInv => LinkedOnce
    BY DEF WheelInv, Kept, LinkedOnce
  <1> QED
    BY <1>1, WheelStarts, WheelNext, PTL DEF SafetySpec

LEMMA PartsKeepWheel ==
  WheelInv /\ [WheelStep \/ HeapStep \/ ListStep \/ Stopped]_allVars => WheelInv'
  <1> SUFFICES ASSUME WheelInv, [WheelStep \/ HeapStep \/ ListStep \/ Stopped]_allVars
               PROVE  WheelInv'
    OBVIOUS
  <1>1. [Next]_vars
    BY DEF WheelStep, HeapStep, ListStep, Stopped, allVars
  <1> QED
    BY <1>1, WheelNext

\* No turn of the wheel passes a timer by, slots 0 that are never moved apart
\* (timerwheel.c:74-139).
THEOREM WheelPlacesTimers == PartsSpec => []Placed
  <1>1. PartsInit => WheelInv
    BY WheelStarts DEF PartsInit
  <1> QED
    BY <1>1, InPlace, PartsKeepWheel, PTL DEF PartsSpec

\* A timer is dispatched in the very tick it expires, however often it was moved down and
\* however often the clock wrapped meanwhile (timerwheel.c:119-205).
THEOREM WheelInTime == PartsSpec => []OnTime
  <1>1. PartsInit => WheelInv
    BY WheelStarts DEF PartsInit
  <1>2. WheelInv => OnTime
    BY DEF WheelInv
  <1> QED
    BY <1>1, <1>2, PartsKeepWheel, PTL DEF PartsSpec
===============================================================================
