-------------------------------- MODULE Dict --------------------------------
(***************************************************************************)
(* The hash table of dict.c, which keeps the subscription callbacks of      *)
(* AsyncContext: chains of entries, a table that doubles when it is full,   *)
(* and an iterator whose current entry may be deleted.                      *)
(***************************************************************************)
EXTENDS Integers, SequencesExt, TLC

CONSTANTS Keys, Vals,   \* keys are natural numbers
          Hash,          \* the hash of each key
          InitialSize    \* DICT_HT_INITIAL_SIZE

VARIABLES table,   \* the chain of each slot; no slot before the first use
          used,
          iter,    \* the iterator: its slot, its entry and the one after it
          seen,    \* keys the iterator has returned, and those deleted while it ran
          found    \* what the last call returned

vars == <<table, used, iter, seen, found>>

NoKey == -1
Ok == <<"ok">>
Err == <<>>
Idle == [index |-> -1, entry |-> NoKey, next |-> NoKey, on |-> FALSE]

size == Len(table)
Slot(k, n) == (Hash[k] % n) + 1
Entry(k, v) == [key |-> k, val |-> v]
At(chain, k) == CHOOSE i \in DOMAIN chain : chain[i].key = k
In(chain, k) == \E i \in DOMAIN chain : chain[i].key = k

Init == table = <<>> /\ used = 0 /\ iter = Idle /\ seen = <<>> /\ found = Ok

-----------------------------------------------------------------------------
Entries == FlattenSeq(table)

\* An entry goes before those already in its slot.
Linked(t, e) == [t EXCEPT ![Slot(e.key, Len(t))] = <<e>> \o @]

\* dictExpand: every entry, slot by slot, is linked into the new table.
Rehashed(n) ==
  LET after[i \in 0 .. Len(Entries)] ==
        IF i = 0 THEN [j \in 1 .. n |-> <<>>] ELSE Linked(after[i - 1], Entries[i])
  IN  after[Len(Entries)]

\* Slip: the table is larger and its entries stay in their old slots.
ExpandedInPlace ==
  IF size = 0 THEN Rehashed(InitialSize)
  ELSE IF used = size THEN table \o [i \in 1 .. size |-> <<>>]
  ELSE table

\* _dictExpandIfNeeded, which every dictAdd calls first, of a new key or not.
Expanded == IF size = 0 THEN Rehashed(InitialSize)
            ELSE IF used = size THEN Rehashed(2 * size)
            ELSE table

Quiet == ~iter.on /\ UNCHANGED <<iter, seen>>

dictAdd(k, v) ==
  /\ Quiet
  /\ LET t == Expanded
         s == Slot(k, Len(t))
     IN  IF In(t[s], k)
         THEN table' = t /\ used' = used /\ found' = Err
         ELSE /\ table' = Linked(t, Entry(k, v))
              /\ used' = used + 1 /\ found' = Ok

dictReplace(k, v) ==
  /\ Quiet
  /\ LET t == Expanded
         s == Slot(k, Len(t))
     IN  IF In(t[s], k)
         THEN /\ table' = [t EXCEPT ![s][At(t[s], k)].val = v]
              /\ used' = used /\ found' = Err
         ELSE /\ table' = Linked(t, Entry(k, v))
              /\ used' = used + 1 /\ found' = Ok

Unlinked(chain, k) == RemoveAt(chain, At(chain, k))

DeleteEntry(k) ==
  LET s == Slot(k, size)
  IN  IF size # 0 /\ In(table[s], k)
      THEN /\ table' = [table EXCEPT ![s] = Unlinked(@, k)]
           /\ used' = used - 1 /\ found' = Ok
      ELSE UNCHANGED <<table, used>> /\ found' = Err

dictDelete(k) == Quiet /\ DeleteEntry(k)

dictFind(k) ==
  /\ Quiet
  /\ found' = LET s == Slot(k, size)
              IN  IF size # 0 /\ In(table[s], k) THEN <<table[s][At(table[s], k)].val>> ELSE <<>>
  /\ UNCHANGED <<table, used>>

dictClear == Quiet /\ table' = <<>> /\ used' = 0 /\ found' = Ok

-----------------------------------------------------------------------------
dictGetIterator == /\ ~iter.on
                   /\ iter' = [Idle EXCEPT !.on = TRUE] /\ seen' = <<>>
                   /\ UNCHANGED <<table, used, found>>

\* The key after k in its chain.
Follower(chain, k) == IF At(chain, k) = Len(chain) THEN NoKey ELSE chain[At(chain, k) + 1].key

Filled(from) == {i \in from .. size - 1 : table[i + 1] # <<>>}

\* dictNext: the entry saved as the next one, else the first of the next slot
\* that has any.
dictNext ==
  /\ iter.on
  /\ IF iter.entry # NoKey /\ iter.next # NoKey
     THEN /\ iter' = [iter EXCEPT !.entry = iter.next,
                                  !.next = Follower(table[iter.index + 1], iter.next)]
          /\ seen' = Append(seen, iter.next)
     ELSE IF Filled(iter.index + 1) = {}
     THEN iter' = Idle /\ seen' = <<>>
     ELSE LET i == CHOOSE j \in Filled(iter.index + 1) : \A l \in Filled(iter.index + 1) : j <= l
              k == Head(table[i + 1]).key
          IN  /\ iter' = [iter EXCEPT !.index = i, !.entry = k, !.next = Follower(table[i + 1], k)]
              /\ seen' = Append(seen, k)
  /\ UNCHANGED <<table, used, found>>

\* The user of the iterator deletes the entry it was given.
DeleteCurrent == /\ iter.on /\ iter.entry # NoKey
                 /\ In(table[iter.index + 1], iter.entry)
                 /\ DeleteEntry(iter.entry)
                 /\ UNCHANGED <<iter, seen>>

Next == \/ \E k \in Keys, v \in Vals : dictAdd(k, v) \/ dictReplace(k, v)
        \/ \E k \in Keys : dictDelete(k) \/ dictFind(k)
        \/ dictClear
        \/ dictGetIterator \/ dictNext \/ DeleteCurrent

Spec == Init /\ [][Next]_vars

-----------------------------------------------------------------------------
KeysOf == {Entries[i].key : i \in DOMAIN Entries}

TypeOK == /\ used = Len(Entries) /\ used = Cardinality(KeysOf)
          /\ used <= size
          /\ \A i \in DOMAIN table, j \in 1 .. used :
               j \in DOMAIN table[i] => Slot(table[i][j].key, size) = i

\* However keys collide and whenever the table grows, the chains are the map.
Map == INSTANCE DictMap WITH m <- [k \in KeysOf |-> Entries[At(Entries, k)].val], result <- found
ImplementsMap == Map!Spec

\* An iterator returns every entry once, also when its user deletes the entries
\* it returns: at its end nothing is left out.
IteratesAll == /\ [](IsInjective(seen))
               /\ [][iter.on /\ ~iter'.on => KeysOf \subseteq ToSet(seen)]_vars
=============================================================================
