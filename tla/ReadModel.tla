------------------------------ MODULE ReadModel ------------------------------
(***************************************************************************)
(* What the read models on top of module Delivery have in common: which of *)
(* them the messages are for, and a history variable that remembers        *)
(* whether the delivery has been disturbed by overlapping ticks or by an   *)
(* error that the bus has swallowed.                                       *)
(***************************************************************************)
EXTENDS Delivery

VARIABLES
    which,      \* the read model whose subscriber the messages are for
    disturbed

watchVars == <<which, disturbed>>

WatchInit(readModel) == which = readModel /\ disturbed = FALSE

Overlapping == \E t, u \in Ticks : t # u /\ ~Idle(t) /\ ~Idle(u)

Watch ==
    /\ disturbed' = \/ disturbed
                    \/ Overlapping'
                    \/ \E t \in Ticks, s \in Subscribers : HandlerFails(t, s)
    /\ UNCHANGED which

=============================================================================
