------------------------------ MODULE ObjectPool ------------------------------
(***************************************************************************)
(* What the free lists of memory_pool/ promise: an object that is taken is   *)
(* nobody else's until it is given back.                                    *)
(***************************************************************************)
EXTENDS Integers

CONSTANT Objects

VARIABLE users   \* users[o]: how many users have object o

Init == users = [o \in Objects |-> 0]

Take(o) == users[o] = 0 /\ users' = [users EXCEPT ![o] = 1]

Give(o) == users[o] = 1 /\ users' = [users EXCEPT ![o] = 0]

GiveAll == users' = [o \in Objects |-> 0]

Next == (\E o \in Objects : Take(o) \/ Give(o)) \/ GiveAll

Spec == Init /\ [][Next]_users
===============================================================================
