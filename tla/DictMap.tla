------------------------------- MODULE DictMap -------------------------------
(***************************************************************************)
(* What a dictionary of dict.c promises: a finite map, whose calls return   *)
(* whether they found their key.                                            *)
(***************************************************************************)
CONSTANTS Keys, Vals

VARIABLES m,        \* the map
          result    \* what the last call returned: <<a value>>, <<"ok">> or <<>>

Answer(b) == IF b THEN <<"ok">> ELSE <<>>
With(k, v) == [x \in DOMAIN m \cup {k} |-> IF x = k THEN v ELSE m[x]]
Without(k) == [x \in DOMAIN m \ {k} |-> m[x]]

Init == m = <<>> /\ result = Answer(TRUE)

Add(k, v) == IF k \in DOMAIN m THEN m' = m /\ result' = Answer(FALSE)
                               ELSE m' = With(k, v) /\ result' = Answer(TRUE)

Replace(k, v) == m' = With(k, v) /\ result' = Answer(k \notin DOMAIN m)

Delete(k) == m' = Without(k) /\ result' = Answer(k \in DOMAIN m)

Find(k) == m' = m /\ result' = IF k \in DOMAIN m THEN <<m[k]>> ELSE <<>>

Clear == m' = <<>> /\ result' = Answer(TRUE)

Next == \/ \E k \in Keys, v \in Vals : Add(k, v) \/ Replace(k, v)
        \/ \E k \in Keys : Delete(k) \/ Find(k)
        \/ Clear

Spec == Init /\ [][Next]_<<m, result>>
=============================================================================
