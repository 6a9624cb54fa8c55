--------------------------- MODULE RequestContext ---------------------------
(***************************************************************************)
(* The context of a request: its tenant and user in a store of its own,    *)
(* filled by the middleware and by the session, read by guards, abilities  *)
(* and the outbox, and carried by the message to what subscribers write.   *)
(* Request id and locale travel like the user and are left out.  A new     *)
(* tenant's id is fresh: here it is the request that creates the tenant.   *)
(***************************************************************************)
EXTENDS FiniteSets

CONSTANTS
    HttpRequests,
    People,
    RequiredRoutes,   \* the options of the tenant guard, by route
    DefaultRequired,
    IgnoredRoutes

VARIABLES
    http,      \* what each request is and where it stands
    cls,       \* its store
    sent,      \* the outbox
    tenantRows,  \* read model of tenants: id and the tenant the row tells of
    roles      \* assignments: user, tenant and role

contextVars == <<http, cls, sent, tenantRows, roles>>

Unset == "unset"  \* undefined

ASSUME NamesAssumption == Unset \notin HttpRequests \cup People
Routes == {"POST tenants", "GET tenants/me", "POST sign-up"}
MaybeTenant == HttpRequests \cup {Unset}
MaybeUser == People \cup {Unset}

\* header: the tenant it names; session: whose session cookie it has, or who
\* signs up.
Http ==
    [phase : {"idle", "arrived", "guarded", "known", "allowed", "ready", "saved",
              "refused", "done"},
     route : Routes, header : MaybeTenant, session : MaybeUser, answer : MaybeTenant]

Message ==
    [type : {"TenantCreated", "AuthUserSignedUp"}, about : HttpRequests \cup People,
     tenant : MaybeTenant, user : MaybeUser]

ContextTypeOK ==
    /\ http \in [HttpRequests -> Http]
    /\ cls \in [HttpRequests -> [tenant : MaybeTenant, user : MaybeUser]]
    /\ sent \subseteq Message
    /\ tenantRows \subseteq HttpRequests \X HttpRequests
    /\ roles \subseteq People \X MaybeTenant \X {"PlatformAdmin", "TenantOwner"}

ContextInit ==
    /\ http = [r \in HttpRequests |->
                 [phase |-> "idle", route |-> "POST tenants", header |-> Unset,
                  session |-> Unset, answer |-> Unset]]
    /\ cls = [r \in HttpRequests |-> [tenant |-> Unset, user |-> Unset]]
    /\ sent = {}
    /\ tenantRows = {}
    /\ roles = {}

-----------------------------------------------------------------------------
At(r, phase) == http[r].phase = phase
On(r, route) == http[r].route = route
Goes(r, phase) == http' = [http EXCEPT ![r].phase = phase]

\* setupOksaiClsModule's middleware; the user id is not taken from a header.
Setup(r, route, header, session) ==
    /\ At(r, "idle")
    /\ http' = [http EXCEPT ![r] = [phase |-> "arrived", route |-> route, header |-> header,
                                    session |-> session, answer |-> Unset]]
    /\ cls' = [cls EXCEPT ![r].tenant = header]
    /\ UNCHANGED <<sent, tenantRows, roles>>

\* The mark of a route goes before the options, and a list of required routes
\* before the default.
TenantIsRequired(route) ==
    /\ route # "POST tenants"
    /\ \/ route = "GET tenants/me"
       \/ RequiredRoutes # {} /\ route \in RequiredRoutes
       \/ RequiredRoutes = {} /\ DefaultRequired /\ route \notin IgnoredRoutes

TenantRequiredGuard(r) ==
    /\ At(r, "arrived")
    /\ IF TenantIsRequired(http[r].route) /\ cls[r].tenant = Unset
       THEN Goes(r, "refused") ELSE Goes(r, "guarded")
    /\ UNCHANGED <<cls, sent, tenantRows, roles>>

\* The session is asked for once; an error leaves the user undefined.
TrySetUserIdFromSession(r) ==
    IF cls[r].user # Unset THEN UNCHANGED cls
    ELSE \E user \in {http[r].session, Unset} : cls' = [cls EXCEPT ![r].user = user]

\* AuthSessionGuard stands before the policies, AuthContextInterceptor before
\* the handlers but those of the authentication itself.
AuthSessionGuard(r) ==
    /\ At(r, "guarded")
    /\ On(r, "GET tenants/me")
    /\ TrySetUserIdFromSession(r)
    /\ Goes(r, "known")
    /\ UNCHANGED <<sent, tenantRows, roles>>

AuthContextInterceptor(r) ==
    /\ (At(r, "guarded") /\ On(r, "POST tenants")) \/ At(r, "allowed")
    /\ Goes(r, "ready")
    /\ TrySetUserIdFromSession(r)
    /\ UNCHANGED <<sent, tenantRows, roles>>

-----------------------------------------------------------------------------
\* What createForRequest lets a user do, and in which tenant: everything, since
\* nobody is ever assigned a lesser role.
Ability(user, tenant) ==
    {<<"manage", IF a[3] = "TenantOwner" THEN "Tenant" ELSE "Platform", a[2]>> :
        a \in {x \in roles : x[1] = user /\ x[2] \in {tenant, Unset}}}

PoliciesGuard(r) ==
    LET user == cls[r].user
        tenant == cls[r].tenant
    IN
    /\ At(r, "known")
    /\ On(r, "GET tenants/me")
    /\ IF user # Unset /\ <<"manage", "Tenant", tenant>> \in Ability(user, tenant)
       THEN Goes(r, "allowed") ELSE Goes(r, "refused")
    /\ UNCHANGED <<cls, sent, tenantRows, roles>>

Found(tenant) ==
    IF \E row \in tenantRows : row[1] = tenant
    THEN {row[2] : row \in {x \in tenantRows : x[1] = tenant}}
    ELSE {Unset}

\* getMe reads the row of the context's tenant, or none yet.
GetMe(r) ==
    /\ At(r, "ready")
    /\ On(r, "GET tenants/me")
    /\ \E answer \in Found(cls[r].tenant) :
           http' = [http EXCEPT ![r].phase = "done", ![r].answer = answer]
    /\ UNCHANGED <<cls, sent, tenantRows, roles>>

-----------------------------------------------------------------------------
\* ContextAwareOutbox: the context's tenant may not be overridden, and its
\* values go before the envelope's.
AppendWithContext(r, envelope) ==
    /\ cls[r].tenant # Unset /\ envelope.tenant # Unset => envelope.tenant = cls[r].tenant
    /\ sent' = sent \cup
         {[type |-> envelope.type, about |-> envelope.about,
           tenant |-> IF cls[r].tenant # Unset THEN cls[r].tenant ELSE envelope.tenant,
           user |-> IF cls[r].user # Unset THEN cls[r].user ELSE envelope.user]}

Envelope(type, about) == [type |-> type, about |-> about, tenant |-> Unset, user |-> Unset]

\* Faulty form: the request stays in the tenant its header names.
CreateInHeadersTenant(r) ==
    /\ At(r, "ready")
    /\ On(r, "POST tenants")
    /\ Goes(r, "saved")
    /\ UNCHANGED <<cls, sent, tenantRows, roles>>

\* The handler of CreateTenant moves the request to the new tenant, and saves.
ExecuteCreateTenant(r) ==
    /\ At(r, "ready")
    /\ On(r, "POST tenants")
    /\ cls' = [cls EXCEPT ![r].tenant = r]
    /\ Goes(r, "saved")
    /\ UNCHANGED <<sent, tenantRows, roles>>

AppendTenantCreated(r) ==
    /\ At(r, "saved")
    /\ On(r, "POST tenants")
    /\ AppendWithContext(r, Envelope("TenantCreated", r))
    /\ Goes(r, "done")
    /\ UNCHANGED <<cls, tenantRows, roles>>

\* A name may be refused, before the request moves, or the unit of work fail.
CreateTenantFails(r) ==
    /\ At(r, "ready") \/ At(r, "saved")
    /\ On(r, "POST tenants")
    /\ Goes(r, "refused")
    /\ UNCHANGED <<cls, sent, tenantRows, roles>>

TryAppendAuthSignedUpEvent(r) ==
    /\ At(r, "guarded")
    /\ On(r, "POST sign-up")
    /\ http[r].session # Unset
    /\ AppendWithContext(r, Envelope("AuthUserSignedUp", http[r].session))
    /\ Goes(r, "done")
    /\ UNCHANGED <<cls, tenantRows, roles>>

-----------------------------------------------------------------------------
\* The publisher's plain object is no IntegrationEventEnvelope: the bus adds
\* nothing of the context it is called in, and passes it on.
OnTheBus(m) == m

\* Subscribers handle a message in any order, or never (module Delivery).
HandleTenantCreated(m) ==
    LET env == OnTheBus(m) IN
    /\ env.type = "TenantCreated"
    /\ env.tenant # Unset
    /\ tenantRows' = {row \in tenantRows : row[1] # env.tenant} \cup {<<env.tenant, env.about>>}
    /\ UNCHANGED <<http, cls, sent, roles>>

OnTenantCreated(m) ==
    LET env == OnTheBus(m) IN
    /\ env.type = "TenantCreated"
    /\ env.tenant # Unset /\ env.user # Unset
    /\ roles' = roles \cup {<<env.user, env.tenant, "TenantOwner">>}
    /\ UNCHANGED <<http, cls, sent, tenantRows>>

OnAuthUserSignedUp(m) ==
    /\ m.type = "AuthUserSignedUp"
    /\ \A a \in roles : a[3] # "PlatformAdmin"
    /\ roles' = roles \cup {<<m.about, Unset, "PlatformAdmin">>}
    /\ UNCHANGED <<http, cls, sent, tenantRows>>

ContextNext ==
    \/ \E r \in HttpRequests :
        \/ \E route \in Routes, header \in MaybeTenant, session \in MaybeUser :
               Setup(r, route, header, session)
        \/ TenantRequiredGuard(r)
        \/ AuthSessionGuard(r)
        \/ AuthContextInterceptor(r)
        \/ PoliciesGuard(r)
        \/ GetMe(r)
        \/ ExecuteCreateTenant(r)
        \/ AppendTenantCreated(r)
        \/ CreateTenantFails(r)
        \/ TryAppendAuthSignedUpEvent(r)
    \/ \E m \in sent : HandleTenantCreated(m) \/ OnTenantCreated(m) \/ OnAuthUserSignedUp(m)

ContextSpec == ContextInit /\ [][ContextNext]_contextVars

-----------------------------------------------------------------------------
\* What a request does, it does for its own user and in the right tenant,
\* whatever tenant its header names and whichever requests run beside it:
\* the message of a new tenant is the new tenant's and its creator's, whoever
\* owns a tenant has created it, and whoever is told of a tenant owns it and
\* is told of the one that was asked for (create-tenant.command-handler.ts:50).
ContextKept ==
    /\ \A m \in sent : m.type = "TenantCreated" =>
           m.tenant = m.about /\ m.user \in {http[m.about].session, Unset}
    /\ \A a \in roles : a[3] = "TenantOwner" => a[1] = http[a[2]].session
    /\ \A r \in HttpRequests : http[r].answer # Unset =>
           /\ http[r].answer = http[r].header
           /\ http[http[r].answer].session = http[r].session

=============================================================================
