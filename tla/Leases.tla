-------------------------------- MODULE Leases --------------------------------
(***************************************************************************)
(* What a connection pool promises to its clients, whatever its class: a   *)
(* connection is leased to one client at a time, never in the transaction  *)
(* of the client that had it before, and no more than a number of them     *)
(* are leased at the same time.                                            *)
(***************************************************************************)
EXTENDS Integers, FiniteSets

CONSTANTS Clients, Conns, NoConn

VARIABLES
    lease,      \* the connection each client has
    dirty,      \* the connections given back in a transaction, or busy
    capacity    \* how many connections may be leased

vars == <<lease, dirty, capacity>>

Leased == {lease[k] : k \in Clients} \ {NoConn}

Init ==
    /\ lease = [k \in Clients |-> NoConn]
    /\ dirty = {}
    /\ capacity \in Nat

\* getconn() returns connection c to client k
Grant(k, c) ==
    /\ lease[k] = NoConn
    /\ c \notin Leased \cup dirty
    /\ Cardinality(Leased) < capacity
    /\ lease' = [lease EXCEPT ![k] = c]
    /\ UNCHANGED <<dirty, capacity>>

\* putconn(), with the connection in any state
GiveBack(k) ==
    /\ lease[k] # NoConn
    /\ lease' = [lease EXCEPT ![k] = NoConn]
    /\ dirty' \in {dirty, dirty \cup {lease[k]}}
    /\ UNCHANGED capacity

\* The pool rolls back, checks or closes connections that nobody has
Maintain ==
    /\ dirty' \in SUBSET (Conns \ Leased)
    /\ UNCHANGED <<lease, capacity>>

\* resize()
Resize ==
    /\ capacity' \in Nat
    /\ UNCHANGED <<lease, dirty>>

Next ==
    \/ \E k \in Clients, c \in Conns : Grant(k, c)
    \/ \E k \in Clients : GiveBack(k)
    \/ Maintain
    \/ Resize

Spec == Init /\ [][Next]_vars
=============================================================================
