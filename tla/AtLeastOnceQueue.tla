-------------------------- MODULE AtLeastOnceQueue --------------------------
(***************************************************************************)
(* What the transport promises a module that subscribes to the events of   *)
(* an aggregate (docs/ARCHITECTURE.md 6.5.4): it is told of each of them,  *)
(* after its predecessors and perhaps several times, but never of one when *)
(* it has been told of a later one; and a message counts as published only *)
(* when everybody has been told.  Nothing here fails, is marked, or runs   *)
(* beside something else.                                                  *)
(***************************************************************************)
EXTENDS Integers

CONSTANTS
    Messages,     \* integration events, numbered in their order
    Subscribers   \* who has to be told

VARIABLES
    status,   \* of a message: absent, pending, published
    applied   \* how often a message has taken effect at a subscriber

queueVars == <<status, applied>>

Init ==
    /\ status = [m \in Messages |-> "absent"]
    /\ applied = [m \in Messages |-> [s \in Subscribers |-> 0]]

\* A command announces the next event of the aggregate.
Announce(m) ==
    /\ status[m] = "absent"
    /\ \A k \in Messages : k < m => status[k] # "absent"
    /\ status' = [status EXCEPT ![m] = "pending"]
    /\ UNCHANGED applied

\* A subscriber takes the next one, or once more the one it took last.
Take(m, s) ==
    /\ status[m] = "pending"
    /\ \A k \in Messages : k < m => applied[k][s] > 0
    /\ \A k \in Messages : k > m => applied[k][s] = 0
    /\ applied' = [applied EXCEPT ![m][s] = @ + 1]
    /\ UNCHANGED status

\* Everybody has had it.
Finish(m) ==
    /\ status[m] = "pending"
    /\ \A s \in Subscribers : applied[m][s] > 0
    /\ status' = [status EXCEPT ![m] = "published"]
    /\ UNCHANGED applied

Next ==
    \E m \in Messages : Announce(m) \/ Finish(m) \/ \E s \in Subscribers : Take(m, s)

Spec == Init /\ [][Next]_queueVars

=============================================================================
