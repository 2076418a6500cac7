----------------------------- MODULE AuthScope ------------------------------
(***************************************************************************)
(* Who a request acts for (auth/middleware.py, auth/jwt.py,                *)
(* server/context.py, server/executor.py where it reads the identity).     *)
(*                                                                         *)
(* The middleware authenticates a request and publishes the identity in a  *)
(* ContextVar; two readers pick it up later and apart from each other: the *)
(* context builder, which turns it into the owner of the tasks the request *)
(* touches, and the executor, which puts it on the apcore Context.  The    *)
(* executor runs in a producer task of the SDK, whose context is a copy    *)
(* made when the task was created: usually long before the read, with      *)
(* other requests set and reset in between, and the request that started   *)
(* it possibly gone.                                                       *)
(*                                                                         *)
(* A context variable has one value per asyncio task.  Requests run in     *)
(* Handlers, asyncio tasks that serve one request after another; whether   *)
(* the SDK runs the next turn of an open task in a new producer or in the  *)
(* first one is left open.                                                 *)
(***************************************************************************)
EXTENDS FiniteSets

CONSTANTS
  Requests,     \* HTTP requests
  Handlers,     \* asyncio tasks that serve them
  Tasks,        \* A2A tasks
  Headers,      \* what an Authorization header may amount to
  RequireAuth,  \* the middleware's require_auth
  Nobody,       \* no identity
  NoTask, NoRequest, Unread

Scalars == {"string", "number", "bool"}

ASSUME RequireAuthAssumption == RequireAuth \in BOOLEAN
ASSUME ScopeAssumption == NoRequest \notin Requests /\ NoTask \notin Tasks

VARIABLES
  phase,      \* of a request: "new", "bound", "routed", "refused", "done"
  cred,       \* the identity the authenticator gave it, or Nobody
  user,       \* the owner key of its ServerCallContext
  seen,       \* the tasks it has been answered about
  serving,    \* the request a handler is serving, or NoRequest
  var,        \* auth_identity_var in a handler
  owner,      \* the owner bucket a task is stored in, or NoTask
  senders,    \* the requests that have sent a task a message
  context,    \* auth_identity_var in the producer of a task
  turn,       \* the executor has a turn of the task to run
  principal   \* the identity the executor last put on the apcore Context

requestVars == <<phase, cred, user, seen>>
handlerVars == <<serving, var>>
taskVars    == <<owner, senders, context, turn, principal>>
vars == <<requestVars, handlerVars, taskVars>>

-----------------------------------------------------------------------------
(* JWTAuthenticator *)

NoString == "<none>"

(* A claim is [kind, text]: text is what str() or true/false prints. *)
ClaimToString(c) == IF c.kind \in Scalars THEN c.text ELSE NoString

(* A slip: roles that are no scalars are kept. *)
PayloadToIdentityKeepingRoles(p) ==
  IF ClaimToString(p.id) = NoString THEN Nobody
  ELSE [id    |-> ClaimToString(p.id),
        type  |-> IF ClaimToString(p.type) = NoString
                    THEN "user" ELSE ClaimToString(p.type),
        roles |-> {ClaimToString(r) : r \in p.roles}]

PayloadToIdentity(p) ==
  IF ClaimToString(p.id) = NoString THEN Nobody
  ELSE [id    |-> ClaimToString(p.id),
        type  |-> IF ClaimToString(p.type) = NoString
                    THEN "user" ELSE ClaimToString(p.type),
        roles |-> {ClaimToString(r) : r \in p.roles} \ {NoString}]

(* Anything but a bearer scheme with a token that decodes is Nobody. *)
Authenticate(h) ==
  IF h.bearer /\ h.valid THEN PayloadToIdentity(h.payload) ELSE Nobody

-----------------------------------------------------------------------------
(* AuthIdentityServerCallContextBuilder *)

AnonymousOwner == ""

OwnerOf(identity) == IF identity = Nobody THEN AnonymousOwner ELSE identity.id

(* A slip: no context builder is passed to the routes. *)
BuildUserUnscoped(identity) == AnonymousOwner

BuildUser(identity) == OwnerOf(identity)

(* No caller's owner key is the mark of a task nobody has sent. *)
ASSUME OwnerAssumption ==
  AnonymousOwner # NoTask /\ \A h \in Headers : OwnerOf(Authenticate(h)) # NoTask

-----------------------------------------------------------------------------
(* The middleware *)

Free(h) == serving[h] = NoRequest

(* A slip: the identity is kept in a module global. *)
BindGlobally(h, identity) == var' = [g \in Handlers |-> identity]

Bind(h, identity) == var' = [var EXCEPT ![h] = identity]

(* A slip: the variable is not reset when the request ends. *)
UnbindNothing(h) == var' = var

Unbind(h) == var' = [var EXCEPT ![h] = Nobody]

(* Exempt paths reach the application without touching the variable. *)
ArriveExempt(h, r) ==
  /\ Free(h) /\ phase[r] = "new"
  /\ serving' = [serving EXCEPT ![h] = r]
  /\ phase' = [phase EXCEPT ![r] = "bound"]
  /\ UNCHANGED <<cred, user, seen, var, taskVars>>

Arrive(h, r, header) ==
  LET identity == Authenticate(header) IN
  /\ Free(h) /\ phase[r] = "new"
  /\ identity # Nobody \/ ~RequireAuth
  /\ serving' = [serving EXCEPT ![h] = r]
  /\ phase' = [phase EXCEPT ![r] = "bound"]
  /\ cred' = [cred EXCEPT ![r] = identity]
  /\ Bind(h, identity)
  /\ UNCHANGED <<user, seen, taskVars>>

Refuse401(h, r, header) ==
  /\ Free(h) /\ phase[r] = "new"
  /\ Authenticate(header) = Nobody /\ RequireAuth
  /\ phase' = [phase EXCEPT ![r] = "refused"]
  /\ UNCHANGED <<cred, user, seen, handlerVars, taskVars>>

(* The request is over, answered or not, and the handler has the context   *)
(* it had before it.  An exempt request has set nothing and resets nothing: *)
(* for it, Unbind changes nothing because of NoResidue.                    *)
Finish(h) ==
  /\ ~Free(h)
  /\ phase' = [phase EXCEPT ![serving[h]] = "done"]
  /\ serving' = [serving EXCEPT ![h] = NoRequest]
  /\ Unbind(h)
  /\ UNCHANGED <<cred, user, seen, taskVars>>

-----------------------------------------------------------------------------
(* The routes and the SDK behind them *)

Route(h) ==
  /\ ~Free(h) /\ phase[serving[h]] = "bound"
  /\ phase' = [phase EXCEPT ![serving[h]] = "routed"]
  /\ user' = [user EXCEPT ![serving[h]] = BuildUser(var[h])]
  /\ UNCHANGED <<cred, seen, handlerVars, taskVars>>

Routed(h) == ~Free(h) /\ phase[serving[h]] = "routed"

Bucket(u) == {t \in Tasks : owner[t] = u}

NewTask(h, t) ==
  /\ Routed(h) /\ owner[t] = NoTask
  /\ owner' = [owner EXCEPT ![t] = user[serving[h]]]
  /\ senders' = [senders EXCEPT ![t] = {serving[h]}]
  /\ context' = [context EXCEPT ![t] = var[h]]
  /\ turn' = [turn EXCEPT ![t] = TRUE]
  /\ UNCHANGED <<requestVars, handlerVars, principal>>

FollowUp(h, t) ==
  /\ Routed(h) /\ t \in Bucket(user[serving[h]]) /\ ~turn[t]
  /\ serving[h] \notin senders[t]
  /\ senders' = [senders EXCEPT ![t] = @ \cup {serving[h]}]
  /\ context' \in {context, [context EXCEPT ![t] = var[h]]}
  /\ turn' = [turn EXCEPT ![t] = TRUE]
  /\ UNCHANGED <<requestVars, handlerVars, owner, principal>>

(* tasks/get, tasks/cancel, ListTasks: from the caller's bucket only. *)
ReadTasks(h) ==
  /\ Routed(h)
  /\ seen' = [seen EXCEPT ![serving[h]] = @ \cup Bucket(user[serving[h]])]
  /\ UNCHANGED <<phase, cred, user, handlerVars, taskVars>>

-----------------------------------------------------------------------------
(* The executor *)

Execute(t) ==
  /\ turn[t]
  /\ turn' = [turn EXCEPT ![t] = FALSE]
  /\ principal' = [principal EXCEPT ![t] = context[t]]
  /\ UNCHANGED <<requestVars, handlerVars, owner, senders, context>>

-----------------------------------------------------------------------------

Init ==
  /\ phase = [r \in Requests |-> "new"]
  /\ cred = [r \in Requests |-> Nobody]
  /\ user = [r \in Requests |-> AnonymousOwner]
  /\ seen = [r \in Requests |-> {}]
  /\ serving = [h \in Handlers |-> NoRequest]
  /\ var = [h \in Handlers |-> Nobody]
  /\ owner = [t \in Tasks |-> NoTask]
  /\ senders = [t \in Tasks |-> {}]
  /\ context = [t \in Tasks |-> Nobody]
  /\ turn = [t \in Tasks |-> FALSE]
  /\ principal = [t \in Tasks |-> Unread]

(* Every request has been served and every turn run. *)
Rest ==
  /\ \A r \in Requests : phase[r] \in {"refused", "done"}
  /\ \A t \in Tasks : ~turn[t]
  /\ UNCHANGED vars

Next ==
  \/ \E h \in Handlers, r \in Requests :
       \/ ArriveExempt(h, r)
       \/ \E header \in Headers : Arrive(h, r, header) \/ Refuse401(h, r, header)
  \/ \E h \in Handlers :
       \/ Finish(h) \/ Route(h) \/ ReadTasks(h)
       \/ \E t \in Tasks : NewTask(h, t) \/ FollowUp(h, t)
  \/ \E t \in Tasks : Execute(t)
  \/ Rest

Spec == Init /\ [][Next]_vars

-----------------------------------------------------------------------------
(* Properties *)

(* The types: an identity always has an id, a type and only scalar roles.  *)
Identities == {PayloadToIdentity(h.payload) : h \in Headers} \ {Nobody}

TypeOK ==
  /\ phase \in [Requests -> {"new", "bound", "routed", "refused", "done"}]
  /\ cred \in [Requests -> Identities \cup {Nobody}]
  /\ seen \in [Requests -> SUBSET Tasks]
  /\ serving \in [Handlers -> Requests \cup {NoRequest}]
  /\ var \in [Handlers -> Identities \cup {Nobody}]
  /\ senders \in [Tasks -> SUBSET Requests]
  /\ context \in [Tasks -> Identities \cup {Nobody}]
  /\ turn \in [Tasks -> BOOLEAN]
  /\ \A i \in Identities : NoString \notin {i.id, i.type} \cup i.roles

(* The identity on the apcore Context is that of a request that sent this  *)
(* task a message, and it names the owner the task is stored under, however *)
(* late the executor reads it (IdentityUser: "governance and task scoping  *)
(* name the same caller").                                                 *)
GovernanceAndScopingAgree ==
  \A t \in Tasks : principal[t] # Unread =>
    /\ \E r \in senders[t] : principal[t] = cred[r]
    /\ owner[t] = OwnerOf(principal[t])

(* A request is only answered about tasks that requests of the same owner  *)
(* have sent (a2a-sdk's stores, scoped through the context builder).       *)
OwnTasksOnly ==
  \A r \in Requests : \A t \in seen[r] : \A s \in senders[t] :
    OwnerOf(cred[s]) = OwnerOf(cred[r])

(* Between requests a handler acts for nobody: an exempt request never     *)
(* inherits the identity of the one before it.                             *)
NoResidue == \A h \in Handlers : Free(h) => var[h] = Nobody
=============================================================================
