--------------------------- MODULE CommandPipeline ---------------------------
(***************************************************************************)
(* The command and query buses: handlers are found and registered when the *)
(* application starts; a command runs down the composed pipes to its       *)
(* handler, and its outcome up again.  Audit and metrics record on the way *)
(* up, inside a try of their own, and a collector of metrics may throw.    *)
(* What a log entry says beyond success or error is left out.              *)
(***************************************************************************)
EXTENDS Naturals, Sequences

CONSTANTS
    Commands,      \* executions of a command
    CommandTypes,
    QueryTypes,
    ProviderLists  \* the handlers the modules may provide, in the order they are found

ASSUME CommandTypesAssumption == CommandTypes # {}
\* Each bus has a map of its own, so a command and a query may have one name.
Handlers == [bus : {"command"}, type : CommandTypes] \cup [bus : {"query"}, type : QueryTypes]

ASSUME ProvidersAssumption == ProviderLists \subseteq Seq(Handlers)

VARIABLES
    providers,   \* the handlers there are
    options,     \* the pipes that were switched on
    explored,    \* providers the explorer has been through
    registered,  \* the handlers on the two buses
    startup,     \* "starting", "started", or "refused" by a second handler
    execution,   \* where each command is
    handled,     \* how often its handler was run
    audit,       \* what the audit log says of it
    metrics      \* what was collected of it

pipelineVars ==
    <<providers, options, explored, registered, startup, execution, handled, audit, metrics>>

Optional == {"ValidationPipe", "AuthorizationPipe", "AuditPipe", "MetricsPipe"}
Outcome == {"success", "error"}

\* dto: whether the command has a class to be validated by and passes;
\* permission: whether it requires one and the user has it.
Requests ==
    [type : CommandTypes, dto : {"none", "valid", "invalid"},
     permission : {"none", "granted", "denied"}]

Unasked == [type |-> CHOOSE t \in CommandTypes : TRUE, dto |-> "none", permission |-> "none"]
Unstarted == [phase |-> "idle", at |-> 0, outcome |-> "success", request |-> Unasked]

PipelineTypeOK ==
    /\ providers \in ProviderLists
    /\ options \subseteq Optional
    /\ explored \in 0 .. Len(providers)
    /\ registered \subseteq Handlers
    /\ startup \in {"starting", "started", "refused"}
    /\ execution \in [Commands -> [phase : {"idle", "down", "up", "done"}, at : 0 .. 5,
                                   outcome : Outcome, request : Requests]]
    /\ handled \in [Commands -> Nat]
    /\ audit \in [Commands -> Seq(Outcome)]
    /\ metrics \in [Commands -> Seq(Outcome)]

-----------------------------------------------------------------------------
Pushed(pipe) == IF pipe \in options THEN <<pipe>> ELSE <<>>

\* Faulty form: metrics are taken around the audit.
PipesMetricsFirst ==
    Pushed("ValidationPipe") \o Pushed("AuthorizationPipe") \o Pushed("MetricsPipe")
        \o Pushed("AuditPipe")

\* forRoot pushes the pipes in this order, whatever the order of its options.
Pipes ==
    Pushed("ValidationPipe") \o Pushed("AuthorizationPipe") \o Pushed("AuditPipe")
        \o Pushed("MetricsPipe")

PipelineInit ==
    /\ providers \in ProviderLists
    /\ options \in SUBSET Optional
    /\ explored = 0
    /\ registered = {}
    /\ startup = "starting"
    /\ execution = [c \in Commands |-> Unstarted]
    /\ handled = [c \in Commands |-> 0]
    /\ audit = [c \in Commands |-> <<>>]
    /\ metrics = [c \in Commands |-> <<>>]

-----------------------------------------------------------------------------
(* Start-up. *)

\* A second handler of a type on one bus throws, which ends the start.
ExploreAndRegister ==
    /\ startup = "starting"
    /\ explored < Len(providers)
    /\ explored' = explored + 1
    /\ LET handler == providers[explored'] IN
       \/ handler \in registered /\ startup' = "refused" /\ UNCHANGED registered
       \/ handler \notin registered /\ registered' = registered \cup {handler} /\ UNCHANGED startup
    /\ UNCHANGED <<providers, options, execution, handled, audit, metrics>>

Started ==
    /\ startup = "starting"
    /\ explored = Len(providers)
    /\ startup' = "started"
    /\ UNCHANGED <<providers, options, explored, registered, execution, handled, audit, metrics>>

-----------------------------------------------------------------------------
(* A command. *)

In(c, phase) == execution[c].phase = phase
Moves(c, phase, at, outcome) ==
    execution' = [execution EXCEPT ![c].phase = phase, ![c].at = at, ![c].outcome = outcome]

\* Without a handler the command fails before any pipe.
Execute(c, request) ==
    /\ startup = "started"
    /\ In(c, "idle")
    /\ execution' = [execution EXCEPT ![c] =
         IF [bus |-> "command", type |-> request.type] \in registered
         THEN [phase |-> "down", at |-> 1, outcome |-> "success", request |-> request]
         ELSE [phase |-> "done", at |-> 0, outcome |-> "error", request |-> request]]
    /\ UNCHANGED <<providers, options, explored, registered, startup, handled, audit, metrics>>

Validates(request) == request.dto # "invalid"
Permits(request) == request.permission # "denied"

\* The pipes that are not in the way of a command only pass it on.
Admits(pipe, request) ==
    /\ pipe = "ValidationPipe" => Validates(request)
    /\ pipe = "AuthorizationPipe" => Permits(request)

EnterPipe(c) ==
    LET at == execution[c].at IN
    /\ In(c, "down")
    /\ at <= Len(Pipes)
    /\ IF Admits(Pipes[at], execution[c].request)
       THEN Moves(c, "down", at + 1, "success")
       ELSE Moves(c, "up", at - 1, "error")
    /\ UNCHANGED <<providers, options, explored, registered, startup, handled, audit, metrics>>

RunHandler(c, outcome) ==
    /\ In(c, "down")
    /\ execution[c].at = Len(Pipes) + 1
    /\ handled' = [handled EXCEPT ![c] = @ + 1]
    /\ Moves(c, "up", Len(Pipes), outcome)
    /\ UNCHANGED <<providers, options, explored, registered, startup, audit, metrics>>

Audits(c, outcome) == audit' = [audit EXCEPT ![c] = Append(@, outcome)]
Collects(c, outcome) == metrics' = [metrics EXCEPT ![c] = Append(@, outcome)]

LeavePipe(c) ==
    LET at == execution[c].at
        outcome == execution[c].outcome
    IN
    /\ In(c, "up")
    /\ at > 0
    /\ Moves(c, "up", at - 1, outcome)
    /\ IF Pipes[at] = "AuditPipe" THEN Audits(c, outcome) ELSE UNCHANGED audit
    /\ IF Pipes[at] = "MetricsPipe" THEN Collects(c, outcome) ELSE UNCHANGED metrics
    /\ UNCHANGED <<providers, options, explored, registered, startup, handled>>

\* recordMetrics throws inside the try: a success is collected as an error as
\* well, if the collector can now, and the command fails although its handler
\* is done.
CollectorThrows(c) ==
    LET at == execution[c].at IN
    /\ In(c, "up")
    /\ at > 0
    /\ Pipes[at] = "MetricsPipe"
    /\ Moves(c, "up", at - 1, "error")
    /\ \/ /\ execution[c].outcome = "success"
          /\ Collects(c, "error")
       \/ UNCHANGED metrics
    /\ UNCHANGED <<providers, options, explored, registered, startup, handled, audit>>

Return(c) ==
    /\ In(c, "up")
    /\ execution[c].at = 0
    /\ Moves(c, "done", 0, execution[c].outcome)
    /\ UNCHANGED <<providers, options, explored, registered, startup, handled, audit, metrics>>

PipelineNext ==
    \/ ExploreAndRegister
    \/ Started
    \/ \E c \in Commands :
        \/ \E request \in Requests : Execute(c, request)
        \/ EnterPipe(c)
        \/ \E outcome \in Outcome : RunHandler(c, outcome)
        \/ LeavePipe(c)
        \/ CollectorThrows(c)
        \/ Return(c)

PipelineSpec == PipelineInit /\ [][PipelineNext]_pipelineVars

-----------------------------------------------------------------------------
\* A command's handler runs once at most, and only for a command that passed
\* the validation and has the permission it requires, where those pipes are
\* switched on; and the audit log then holds one entry, which says what the
\* caller was told, also when the collector of metrics throws
\* (cqrs.module.ts:78).
AuditTellsCaller ==
    \A c \in Commands :
        LET e == execution[c] IN
        /\ handled[c] > 0 =>
            /\ handled[c] = 1
            /\ "ValidationPipe" \in options => e.request.dto # "invalid"
            /\ "AuthorizationPipe" \in options => e.request.permission # "denied"
        /\ handled[c] > 0 /\ e.phase = "done" /\ "AuditPipe" \in options =>
            audit[c] = <<e.outcome>>
=============================================================================
