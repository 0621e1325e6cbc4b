----------------------------- MODULE LeasePool -----------------------------
(***************************************************************************)
(* What a connection pool promises: a connection is opened once, leased to  *)
(* one client at a time, given back by the client that has it, and deleted  *)
(* only while nobody has it; once the pool closes it leases nothing.        *)
(***************************************************************************)
CONSTANTS Clients,
          Conns,
          Unopened, Idle, Deleted  \* the states of a connection nobody has

VARIABLES owner,  \* owner[k]: the client that has connection k, or its state
          open    \* the pool still leases connections

vars == <<owner, open>>

Init == /\ owner \in [Conns -> {Unopened, Idle}]
        /\ open = TRUE

HasNone(c) == \A k \in Conns : owner[k] # c

\* Client c is leased k, which is idle or opened for it.
Lease(c, k) == /\ open
               /\ HasNone(c)
               /\ owner[k] \in {Idle, Unopened}
               /\ owner' = [owner EXCEPT ![k] = c]
               /\ UNCHANGED open

Return(c, k) == /\ owner[k] = c
                /\ owner' = [owner EXCEPT ![k] = Idle]
                /\ UNCHANGED open

Close == /\ open
         /\ open' = FALSE
         /\ owner' = [k \in Conns |-> IF owner[k] = Idle THEN Deleted ELSE owner[k]]

Next == \/ \E c \in Clients, k \in Conns : Lease(c, k) \/ Return(c, k)
        \/ Close

Spec == Init /\ [][Next]_vars
=============================================================================
