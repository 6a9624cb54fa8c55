------------------------------ MODULE EventLog ------------------------------
(***************************************************************************)
(* What the write side gives to the rest of the platform, whatever the     *)
(* interleaving of its commands and wherever one of them fails: one        *)
(* append-only log per aggregate, to which a command appends its events    *)
(* one by one, each directly behind what it has read and written itself,   *)
(* and then the messages that announce them, in their order.  A command    *)
(* may stop anywhere; what it has appended stays.  (The documents promise  *)
(* more: all of the batch with its messages or nothing.)                   *)
(***************************************************************************)
EXTENDS Integers

CONSTANTS
    Commands,   \* executions of command handlers
    Streams,    \* aggregates: (tenant_id, aggregate_type, aggregate_id)
    MaxEvents   \* bound on the events one command emits

VARIABLES
    log,        \* entries [stream, version, by]
    announced,  \* messages [by, n]: the n-th event of a command is announced
    seen,       \* how many events a command found when it read its aggregate
    written     \* how many entries a command has appended

vars == <<log, announced, seen, written>>

NothingRead == -1

Versions(s) == { e.version : e \in { x \in log : x.stream = s } }

\* How long the log of an aggregate is; it has no gaps.
Length(s) == CHOOSE k \in Versions(s) \cup {0} : Versions(s) = 1 .. k

Init ==
    /\ log = {}
    /\ announced = {}
    /\ seen = [c \in Commands |-> NothingRead]
    /\ written = [c \in Commands |-> 0]

\* A command starts from a new aggregate (nothing precedes its events) ...
StartFresh(c) ==
    /\ seen[c] = NothingRead
    /\ seen' = [seen EXCEPT ![c] = 0]
    /\ UNCHANGED <<log, announced, written>>

\* ... or from everything an existing aggregate went through so far.
ReadAll(c, s) ==
    /\ seen[c] = NothingRead
    /\ seen' = [seen EXCEPT ![c] = Length(s)]
    /\ UNCHANGED <<log, announced, written>>

\* The next event enters the log only if the log holds exactly what the command
\* has read and what it has itself appended, and before any announcement.
AppendNext(c, s) ==
    /\ seen[c] # NothingRead
    /\ written[c] < MaxEvents
    /\ Versions(s) = 1 .. seen[c] + written[c]
    /\ \A e \in log : e.by = c => e.stream = s
    /\ \A m \in announced : m.by # c
    /\ log' = log \cup {[stream |-> s, version |-> seen[c] + written[c] + 1, by |-> c]}
    /\ written' = [written EXCEPT ![c] = @ + 1]
    /\ UNCHANGED <<announced, seen>>

\* The announcements of the entries follow, in the order of the entries.
AnnounceNext(c, n) ==
    /\ n <= written[c]
    /\ { m \in announced : m.by = c } = { [by |-> c, n |-> i] : i \in 1 .. n - 1 }
    /\ announced' = announced \cup {[by |-> c, n |-> n]}
    /\ UNCHANGED <<log, seen, written>>

Next ==
    \E c \in Commands :
        \/ StartFresh(c)
        \/ \E s \in Streams : ReadAll(c, s) \/ AppendNext(c, s)
        \/ \E n \in 1 .. MaxEvents : AnnounceNext(c, n)

Spec == Init /\ [][Next]_vars

=============================================================================
