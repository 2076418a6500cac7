-------------------------- MODULE AuthScopeProofs ---------------------------
(***************************************************************************)
(* Whom a request acts for, for any number of requests, handlers and       *)
(* tasks, any tokens and both settings of require_auth.                    *)
(*                                                                         *)
(* The properties relate what two late readers saw (the owner of a task,   *)
(* the principal of its turn, the tasks in an answer) to the credentials   *)
(* of the requests behind them.  The link is the variable itself: while a  *)
(* handler serves a request it holds exactly that request's identity, and  *)
(* what is copied from it (user, owner, context) therefore stays that of   *)
(* a sender of the task.                                                   *)
(***************************************************************************)
EXTENDS AuthScope, TLAPS

(* The variables are functions over their actors. *)
Shape ==
  /\ phase \in [Requests -> {"new", "bound", "routed", "refused", "done"}]
  /\ cred = [r \in Requests |-> cred[r]]
  /\ user = [r \in Requests |-> user[r]]
  /\ seen \in [Requests -> SUBSET Tasks]
  /\ serving \in [Handlers -> Requests \cup {NoRequest}]
  /\ var = [h \in Handlers |-> var[h]]
  /\ owner = [t \in Tasks |-> owner[t]]
  /\ senders \in [Tasks -> SUBSET Requests]
  /\ context = [t \in Tasks |-> context[t]]
  /\ turn \in [Tasks -> BOOLEAN]
  /\ principal = [t \in Tasks |-> principal[t]]

(* A handler holds the identity of the request it serves and no other.     *)
VarIsCred ==
  \A h \in Handlers : ~Free(h) =>
    /\ var[h] = cred[serving[h]]
    /\ phase[serving[h]] \in {"bound", "routed"}

(* No request is served by two handlers. *)
OneHandlerEach ==
  \A h, g \in Handlers : h # g /\ ~Free(h) => serving[h] # serving[g]

(* An owner key is never the mark of an unsent task. *)
OwnersExist == \A r \in Requests : OwnerOf(cred[r]) # NoTask

NewAreNobody == \A r \in Requests : phase[r] = "new" => cred[r] = Nobody

UserIsOwner ==
  \A r \in Requests : phase[r] = "routed" => user[r] = OwnerOf(cred[r])

(* Every sender of a task belongs to its owner, and has long been read. *)
SendersOwn ==
  \A t \in Tasks : \A r \in senders[t] :
    phase[r] # "new" /\ owner[t] = OwnerOf(cred[r])

Unsent ==
  \A t \in Tasks : owner[t] = NoTask =>
    senders[t] = {} /\ ~turn[t] /\ principal[t] = Unread

ContextOfSender ==
  \A t \in Tasks : owner[t] # NoTask => \E r \in senders[t] : context[t] = cred[r]

PrincipalOfSender ==
  \A t \in Tasks : principal[t] # Unread => \E r \in senders[t] : principal[t] = cred[r]

(* What a request has been answered about belongs to its owner. *)
SeenOwn ==
  \A r \in Requests : \A t \in seen[r] :
    phase[r] # "new" /\ owner[t] # NoTask /\ owner[t] = OwnerOf(cred[r])

IInv ==
  /\ Shape /\ NoResidue /\ VarIsCred /\ OneHandlerEach /\ OwnersExist
  /\ NewAreNobody /\ UserIsOwner
  /\ SendersOwn /\ Unsent /\ ContextOfSender /\ PrincipalOfSender /\ SeenOwn

-----------------------------------------------------------------------------

(* What the invariant says once it holds. *)
LEMMA Consequences == IInv => GovernanceAndScopingAgree /\ OwnTasksOnly /\ NoResidue
<1>1. SUFFICES ASSUME IInv PROVE GovernanceAndScopingAgree /\ OwnTasksOnly
  BY DEF IInv
<1>2. GovernanceAndScopingAgree
  <2>1. SUFFICES ASSUME NEW t \in Tasks, principal[t] # Unread
                 PROVE  /\ \E r \in senders[t] : principal[t] = cred[r]
                        /\ owner[t] = OwnerOf(principal[t])
    BY DEF GovernanceAndScopingAgree
  <2>2. PICK r \in senders[t] : principal[t] = cred[r]
    BY <1>1, <2>1 DEF IInv, PrincipalOfSender
  <2>3. owner[t] = OwnerOf(cred[r])
    BY <1>1 DEF IInv, SendersOwn
  <2>4. QED
    BY <2>2, <2>3
<1>3. OwnTasksOnly
  <2>1. SUFFICES ASSUME NEW r \in Requests, NEW t \in seen[r], NEW s \in senders[t]
                 PROVE  OwnerOf(cred[s]) = OwnerOf(cred[r])
    BY DEF OwnTasksOnly
  <2>2. t \in Tasks
    BY <1>1 DEF IInv, Shape
  <2>3. owner[t] = OwnerOf(cred[r]) /\ owner[t] = OwnerOf(cred[s])
    BY <1>1, <2>2 DEF IInv, SeenOwn, SendersOwn
  <2>4. QED
    BY <2>3
<1>4. QED
  BY <1>2, <1>3

(* Authentication never yields the mark of an unsent task. *)
LEMMA IdentityOwns ==
  ASSUME NEW header \in Headers
  PROVE  OwnerOf(Authenticate(header)) # NoTask
BY OwnerAssumption

-----------------------------------------------------------------------------

(* A request being served has been seen before. *)
LEMMA ServedIsNotNew ==
  ASSUME IInv, NEW g \in Handlers, ~Free(g)
  PROVE  serving[g] \in Requests /\ phase[serving[g]] # "new"
<1>1. serving[g] \in Requests
  BY DEF IInv, Shape, Free
<1>2. phase[serving[g]] \in {"bound", "routed"}
  BY DEF IInv, VarIsCred
<1>3. QED
  BY <1>1, <1>2

(* One lemma per group of actions. *)

(* A request is taken on: its handler was free, and nobody had served it. *)
LEMMA ArriveKeeps ==
  ASSUME IInv, NEW h \in Handlers, NEW r \in Requests,
         \/ ArriveExempt(h, r)
         \/ \E header \in Headers : Arrive(h, r, header)
  PROVE  IInv'
<1>1. Shape /\ Free(h) /\ phase[r] = "new"
  BY DEF IInv, ArriveExempt, Arrive
<1>2. /\ serving' = [serving EXCEPT ![h] = r]
      /\ phase' = [phase EXCEPT ![r] = "bound"]
      /\ UNCHANGED <<user, seen, taskVars>>
  BY DEF ArriveExempt, Arrive
<1>3. cred' = [q \in Requests |-> cred'[q]] /\ \A q \in Requests : q # r => cred'[q] = cred[q]
  BY <1>1 DEF ArriveExempt, Arrive, Shape
<1>4. var' = [g \in Handlers |-> var'[g]] /\ \A g \in Handlers : g # h => var'[g] = var[g]
  BY <1>1 DEF ArriveExempt, Arrive, Bind, Shape
<1>5. OwnerOf(cred'[r]) # NoTask
  BY <1>1, IdentityOwns DEF IInv, OwnersExist, ArriveExempt, Arrive, Shape
<1>6. var'[h] = cred'[r]
  BY <1>1 DEF IInv, NewAreNobody, NoResidue, ArriveExempt, Arrive, Bind, Shape
<1>7. phase'[r] = "bound" /\ \A q \in Requests : q # r => phase'[q] = phase[q]
  BY <1>1, <1>2 DEF Shape
<1>8. serving'[h] = r /\ \A g \in Handlers : g # h => serving'[g] = serving[g]
  BY <1>1, <1>2 DEF Shape
<1>9. r # NoRequest /\ \A g \in Handlers : ~Free(g) => serving[g] \in Requests /\ serving[g] # r
  <2>1. r # NoRequest
    BY ScopeAssumption
  <2>2. QED
    BY <1>1, <2>1, ServedIsNotNew
<1>10. Shape'
  BY <1>1, <1>2, <1>3, <1>4 DEF Shape, taskVars
<1>11. NoResidue' /\ VarIsCred' /\ OneHandlerEach'
  BY <1>3, <1>4, <1>6, <1>7, <1>8, <1>9 DEF IInv, NoResidue, VarIsCred, OneHandlerEach, Free
<1>12. OwnersExist' /\ NewAreNobody' /\ UserIsOwner'
  BY <1>2, <1>3, <1>5, <1>7 DEF IInv, OwnersExist, NewAreNobody, UserIsOwner
<1>13. \A t \in Tasks : r \notin senders[t] /\ senders[t] \subseteq Requests
  BY <1>1 DEF IInv, SendersOwn, Shape
<1>14. seen[r] = {} /\ \A q \in Requests : seen[q] \subseteq Tasks
  BY <1>1 DEF IInv, SeenOwn, Shape
<1>15. UNCHANGED <<owner, senders, context, turn, principal, seen>>
  BY <1>2 DEF taskVars
<1>16. SendersOwn' /\ Unsent' /\ ContextOfSender' /\ PrincipalOfSender' /\ SeenOwn'
  <2>1. SendersOwn' /\ SeenOwn'
    BY <1>3, <1>7, <1>13, <1>14, <1>15 DEF IInv, SendersOwn, SeenOwn
  <2>2. Unsent'
    BY <1>15 DEF IInv, Unsent
  <2>3. ContextOfSender' /\ PrincipalOfSender'
    BY <1>3, <1>13, <1>15 DEF IInv, ContextOfSender, PrincipalOfSender
  <2>4. QED
    BY <2>1, <2>2, <2>3
<1>17. QED
  BY <1>10, <1>11, <1>12, <1>16 DEF IInv

(* What an action leaves alone when it touches no task, no credential and  *)
(* makes no request new again.                                             *)
LEMMA TasksKeep ==
  ASSUME IInv, UNCHANGED <<cred, seen, taskVars>>,
         \A r \in Requests : phase'[r] = "new" => phase[r] = "new"
  PROVE  /\ OwnersExist' /\ NewAreNobody'
         /\ SendersOwn' /\ Unsent' /\ ContextOfSender' /\ PrincipalOfSender' /\ SeenOwn'
<1>1. UNCHANGED <<cred, seen, owner, senders, context, turn, principal>>
  BY DEF taskVars
<1>2. \A t \in Tasks : senders[t] \subseteq Requests
  BY DEF IInv, Shape
<1>3. OwnersExist' /\ NewAreNobody'
  BY <1>1 DEF IInv, OwnersExist, NewAreNobody
<1>4. SendersOwn' /\ SeenOwn'
  BY <1>1, <1>2 DEF IInv, SendersOwn, SeenOwn
<1>5. Unsent' /\ ContextOfSender' /\ PrincipalOfSender'
  BY <1>1 DEF IInv, Unsent, ContextOfSender, PrincipalOfSender
<1>6. QED
  BY <1>3, <1>4, <1>5

LEMMA Refuse401Keeps ==
  ASSUME IInv, NEW h \in Handlers, NEW r \in Requests, NEW header \in Headers,
         Refuse401(h, r, header)
  PROVE  IInv'
<1>1. Shape /\ phase[r] = "new" /\ phase' = [phase EXCEPT ![r] = "refused"]
  BY DEF IInv, Refuse401
<1>2. phase'[r] = "refused" /\ \A q \in Requests : q # r => phase'[q] = phase[q]
  BY <1>1 DEF Shape
<1>3. UNCHANGED <<cred, user, seen, serving, var, taskVars>>
  BY DEF Refuse401, handlerVars
<1>4. Shape'
  BY <1>1, <1>3 DEF Shape, taskVars
<1>5. \A g \in Handlers : ~Free(g) => serving[g] \in Requests /\ serving[g] # r
  BY <1>1, ServedIsNotNew
<1>6. NoResidue' /\ VarIsCred' /\ OneHandlerEach' /\ UserIsOwner'
  BY <1>2, <1>3, <1>5 DEF IInv, NoResidue, VarIsCred, OneHandlerEach, UserIsOwner, Free
<1>7. QED
  BY <1>2, <1>3, <1>4, <1>6, TasksKeep DEF IInv

(* The finally clause: the variable goes with the request.                 *)
LEMMA FinishKeeps ==
  ASSUME IInv, NEW h \in Handlers, Finish(h)
  PROVE  IInv'
<1>1. Shape /\ serving[h] \in Requests
  BY DEF IInv, Finish, Free, Shape
<1>2. /\ phase'[serving[h]] = "done"
      /\ \A q \in Requests : q # serving[h] => phase'[q] = phase[q]
  BY <1>1 DEF Finish, Shape
<1>3. /\ serving'[h] = NoRequest /\ var'[h] = Nobody
      /\ \A g \in Handlers : g # h => serving'[g] = serving[g] /\ var'[g] = var[g]
  BY <1>1 DEF Finish, Unbind, Shape
<1>4. UNCHANGED <<cred, user, seen, taskVars>>
  BY DEF Finish
<1>5. Shape'
  BY <1>1, <1>4 DEF Shape, Finish, Unbind, taskVars
<1>6. \A g \in Handlers : g # h /\ ~Free(g) => serving[g] \in Requests /\ serving[g] # serving[h]
  BY <1>1 DEF IInv, OneHandlerEach, Free, Shape
<1>7. NoResidue' /\ VarIsCred' /\ OneHandlerEach' /\ UserIsOwner'
  BY <1>2, <1>3, <1>4, <1>6 DEF IInv, NoResidue, VarIsCred, OneHandlerEach, UserIsOwner, Free
<1>8. QED
  BY <1>2, <1>4, <1>5, <1>7, TasksKeep DEF IInv

(* The context builder reads the variable of the request being routed.     *)
LEMMA RouteKeeps ==
  ASSUME IInv, NEW h \in Handlers, Route(h)
  PROVE  IInv'
<1>1. Shape /\ serving[h] \in Requests /\ var[h] = cred[serving[h]]
  BY DEF IInv, Route, Free, Shape, VarIsCred
<1>2. /\ phase'[serving[h]] = "routed" /\ user'[serving[h]] = OwnerOf(cred[serving[h]])
      /\ \A q \in Requests : q # serving[h] => phase'[q] = phase[q] /\ user'[q] = user[q]
  BY <1>1 DEF Route, BuildUser, Shape
<1>3. UNCHANGED <<cred, seen, serving, var, taskVars>>
  BY DEF Route, handlerVars
<1>4. Shape'
  BY <1>1, <1>3 DEF Shape, Route, taskVars
<1>5. \A g \in Handlers : ~Free(g) => serving[g] \in Requests
  BY <1>1 DEF Free, Shape
<1>6. NoResidue' /\ VarIsCred' /\ OneHandlerEach' /\ UserIsOwner'
  BY <1>2, <1>3, <1>5 DEF IInv, NoResidue, VarIsCred, OneHandlerEach, UserIsOwner, Free
<1>7. QED
  BY <1>2, <1>3, <1>4, <1>6, TasksKeep DEF IInv

(* The actions that leave requests and handlers as they are.               *)
LEMMA RequestsKeep ==
  ASSUME IInv, UNCHANGED <<phase, cred, user, handlerVars>>
  PROVE  NoResidue' /\ VarIsCred' /\ OneHandlerEach' /\ OwnersExist' /\ NewAreNobody' /\ UserIsOwner'
BY DEF IInv, handlerVars, NoResidue, VarIsCred, OneHandlerEach, OwnersExist, NewAreNobody,
   UserIsOwner, Free

(* A new task, or the next message of one: what is copied is the sender's. *)
LEMMA NewTaskKeeps ==
  ASSUME IInv, NEW h \in Handlers, NEW t \in Tasks, NewTask(h, t)
  PROVE  IInv'
<1> DEFINE r == serving[h]
<1>1. Shape /\ r \in Requests /\ var[h] = cred[r] /\ user[r] = OwnerOf(cred[r])
      /\ phase[r] = "routed" /\ owner[t] = NoTask /\ OwnerOf(cred[r]) # NoTask
  BY DEF IInv, NewTask, Routed, Free, Shape, VarIsCred, UserIsOwner, OwnersExist
<1>2. UNCHANGED <<phase, cred, user, seen, handlerVars, principal>>
  BY DEF NewTask, requestVars
<1>3. /\ owner'[t] = OwnerOf(cred[r]) /\ senders'[t] = {r} /\ context'[t] = cred[r] /\ turn'[t]
      /\ \A s \in Tasks : s # t => /\ owner'[s] = owner[s] /\ senders'[s] = senders[s]
                                  /\ context'[s] = context[s] /\ turn'[s] = turn[s]
  BY <1>1 DEF NewTask, Shape
<1>4. Shape'
  BY <1>1, <1>2 DEF Shape, NewTask, handlerVars
<1>5. principal[t] = Unread
  BY <1>1 DEF IInv, Unsent
<1>6. SendersOwn' /\ Unsent' /\ ContextOfSender' /\ PrincipalOfSender'
  BY <1>1, <1>2, <1>3, <1>5 DEF IInv, SendersOwn, Unsent, ContextOfSender, PrincipalOfSender
<1>7. SeenOwn'
  <2>1. \A q \in Requests : seen[q] \subseteq Tasks \ {t}
    BY <1>1 DEF IInv, SeenOwn, Shape
  <2>2. QED
    BY <1>2, <1>3, <2>1 DEF IInv, SeenOwn
<1>8. QED
  BY <1>2, <1>4, <1>6, <1>7, RequestsKeep DEF IInv

LEMMA FollowUpKeeps ==
  ASSUME IInv, NEW h \in Handlers, NEW t \in Tasks, FollowUp(h, t)
  PROVE  IInv'
<1> DEFINE r == serving[h]
<1>1. Shape /\ r \in Requests /\ var[h] = cred[r] /\ user[r] = OwnerOf(cred[r])
      /\ phase[r] = "routed" /\ owner[t] = OwnerOf(cred[r]) /\ owner[t] # NoTask
  <2>1. Shape /\ r \in Requests /\ phase[r] = "routed" /\ var[h] = cred[r]
    BY DEF IInv, FollowUp, Routed, Free, Shape, VarIsCred
  <2>2. user[r] = OwnerOf(cred[r]) /\ OwnerOf(cred[r]) # NoTask
    BY <2>1 DEF IInv, UserIsOwner, OwnersExist
  <2>3. owner[t] = user[r]
    BY DEF FollowUp, Bucket
  <2>4. QED
    BY <2>1, <2>2, <2>3
<1>2. UNCHANGED <<phase, cred, user, seen, handlerVars, owner, principal>>
  BY DEF FollowUp, requestVars
<1>3. /\ senders'[t] = senders[t] \cup {r} /\ context'[t] \in {context[t], cred[r]} /\ turn'[t]
      /\ \A s \in Tasks : s # t => /\ senders'[s] = senders[s]
                                  /\ context'[s] = context[s] /\ turn'[s] = turn[s]
  BY <1>1 DEF FollowUp, Shape
<1>4. Shape'
  BY <1>1, <1>2 DEF Shape, FollowUp, handlerVars
<1>5. SendersOwn' /\ Unsent'
  BY <1>1, <1>2, <1>3 DEF IInv, SendersOwn, Unsent
<1>6. ContextOfSender' /\ PrincipalOfSender'
  BY <1>1, <1>2, <1>3 DEF IInv, ContextOfSender, PrincipalOfSender
<1>7. SeenOwn'
  BY <1>2 DEF IInv, SeenOwn
<1>8. QED
  BY <1>2, <1>4, <1>5, <1>6, <1>7, RequestsKeep DEF IInv

LEMMA ReadTasksKeeps ==
  ASSUME IInv, NEW h \in Handlers, ReadTasks(h)
  PROVE  IInv'
<1> DEFINE r == serving[h]
<1>1. Shape /\ r \in Requests /\ user[r] = OwnerOf(cred[r]) /\ phase[r] = "routed"
      /\ OwnerOf(cred[r]) # NoTask
  BY DEF IInv, ReadTasks, Routed, Free, Shape, UserIsOwner, OwnersExist
<1>2. UNCHANGED <<phase, cred, user, handlerVars, taskVars>>
  BY DEF ReadTasks
<1>3. /\ seen'[r] = seen[r] \cup {t \in Tasks : owner[t] = OwnerOf(cred[r])}
      /\ \A q \in Requests : q # r => seen'[q] = seen[q]
  BY <1>1 DEF ReadTasks, Bucket, Shape
<1>4. Shape'
  BY <1>1, <1>2 DEF Shape, ReadTasks, Bucket, handlerVars, taskVars
<1>5. SeenOwn'
  BY <1>1, <1>2, <1>3 DEF IInv, SeenOwn, taskVars
<1>6. SendersOwn' /\ Unsent' /\ ContextOfSender' /\ PrincipalOfSender'
  BY <1>2 DEF IInv, SendersOwn, Unsent, ContextOfSender, PrincipalOfSender, taskVars
<1>7. QED
  BY <1>2, <1>4, <1>5, <1>6, RequestsKeep DEF IInv

(* The executor reads the producer's copy, however late.                   *)
LEMMA ExecuteKeeps ==
  ASSUME IInv, NEW t \in Tasks, Execute(t)
  PROVE  IInv'
<1>1. Shape /\ turn[t] /\ owner[t] # NoTask
  BY DEF IInv, Execute, Unsent
<1>2. UNCHANGED <<phase, cred, user, seen, handlerVars, owner, senders, context>>
  BY DEF Execute, requestVars
<1>3. /\ principal'[t] = context[t]
      /\ \A s \in Tasks : s # t => principal'[s] = principal[s] /\ turn'[s] = turn[s]
  BY <1>1 DEF Execute, Shape
<1>4. Shape'
  BY <1>1, <1>2 DEF Shape, Execute, handlerVars
<1>5. SendersOwn' /\ ContextOfSender' /\ SeenOwn'
  BY <1>2 DEF IInv, SendersOwn, ContextOfSender, SeenOwn
<1>6. Unsent' /\ PrincipalOfSender'
  BY <1>1, <1>2, <1>3 DEF IInv, Unsent, ContextOfSender, PrincipalOfSender
<1>7. QED
  BY <1>2, <1>4, <1>5, <1>6, RequestsKeep DEF IInv

-----------------------------------------------------------------------------

LEMMA Invariant == Spec => []IInv
<1>1. Init => IInv
  BY OwnerAssumption DEF Init, IInv, Shape, NoResidue, VarIsCred, OneHandlerEach, OwnersExist,
     NewAreNobody, UserIsOwner, SendersOwn, Unsent, ContextOfSender, PrincipalOfSender, SeenOwn,
     Free, OwnerOf
<1>2. IInv /\ [Next]_vars => IInv'
  <2>1. SUFFICES ASSUME IInv, [Next]_vars PROVE IInv'
    OBVIOUS
  <2>2. CASE UNCHANGED vars
    <3>1. UNCHANGED <<phase, cred, user, seen, handlerVars, taskVars>>
      BY <2>2 DEF vars, requestVars
    <3>2. Shape'
      BY <2>1, <3>1 DEF IInv, Shape, handlerVars, taskVars
    <3>3. QED
      BY <2>1, <3>1, <3>2, TasksKeep, RequestsKeep DEF IInv
  <2>3. CASE Next
    BY <2>1, <2>2, <2>3, ArriveKeeps, Refuse401Keeps, FinishKeeps, RouteKeeps, NewTaskKeeps,
       FollowUpKeeps, ReadTasksKeeps, ExecuteKeeps DEF Next, Rest
  <2>4. QED
    BY <2>1, <2>2, <2>3
<1>3. QED
  BY <1>1, <1>2, PTL DEF Spec

(* The identity the executor acts for is a sender's and names the owner of *)
(* the task, however many requests and handlers there are.                 *)
THEOREM PrincipalsAgree == Spec => []GovernanceAndScopingAgree
<1>1. IInv => GovernanceAndScopingAgree
  BY Consequences
<1>2. QED
  BY <1>1, Invariant, PTL

(* No request is answered about another owner's task.                      *)
THEOREM TasksStayPrivate == Spec => []OwnTasksOnly
<1>1. IInv => OwnTasksOnly
  BY Consequences
<1>2. QED
  BY <1>1, Invariant, PTL

(* A handler between two requests acts for nobody.                         *)
THEOREM NothingIsLeft == Spec => []NoResidue
<1>1. IInv => NoResidue
  BY Consequences
<1>2. QED
  BY <1>1, Invariant, PTL

-----------------------------------------------------------------------------

Callers == Identities \cup {Nobody}

(* Everything an identity is copied to holds a caller. *)
CallersOnly ==
  /\ cred \in [Requests -> Callers]
  /\ var \in [Handlers -> Callers]
  /\ context \in [Tasks -> Callers]

(* A token's claims only become an identity with an id, a type and scalar  *)
(* roles (PayloadToIdentity).                                              *)
LEMMA IdentitiesAreWhole == \A i \in Identities : NoString \notin {i.id, i.type} \cup i.roles
<1> SUFFICES ASSUME NEW h \in Headers, PayloadToIdentity(h.payload) # Nobody
             PROVE  LET i == PayloadToIdentity(h.payload)
                    IN  NoString \notin {i.id, i.type} \cup i.roles
  BY DEF Identities
<1> DEFINE p == h.payload
<1>1. PayloadToIdentity(p) =
        [id    |-> ClaimToString(p.id),
         type  |-> IF ClaimToString(p.type) = NoString THEN "user" ELSE ClaimToString(p.type),
         roles |-> {ClaimToString(r) : r \in p.roles} \ {NoString}]
      /\ ClaimToString(p.id) # NoString
  BY DEF PayloadToIdentity
<1>2. "user" # NoString
  BY DEF NoString
<1> QED
  BY <1>1, <1>2

(* The types, for any tokens: what stands for a caller is one.             *)
THEOREM TypeCorrect == Spec => []TypeOK
<1>1. Init => CallersOnly
  BY DEF Init, CallersOnly, Callers
<1>2. IInv /\ CallersOnly /\ [Next]_vars => CallersOnly'
  <2> SUFFICES ASSUME IInv, CallersOnly, [Next]_vars PROVE CallersOnly'
    OBVIOUS
  <2> USE DEF CallersOnly
  <2>0. Nobody \in Callers /\ \A h \in Headers : Authenticate(h) \in Callers
    BY DEF Callers, Identities, Authenticate
  <2>1. ASSUME NEW h \in Handlers, NEW r \in Requests, NEW header \in Headers,
               ArriveExempt(h, r) \/ Arrive(h, r, header) \/ Refuse401(h, r, header)
        PROVE  CallersOnly'
    BY <2>0, <2>1 DEF ArriveExempt, Arrive, Refuse401, Bind, handlerVars, taskVars
  <2>2. ASSUME NEW h \in Handlers, Finish(h) \/ Route(h) \/ ReadTasks(h) PROVE CallersOnly'
    BY <2>0, <2>2 DEF Finish, Route, ReadTasks, Unbind, handlerVars, taskVars
  <2>3. ASSUME NEW h \in Handlers, NEW t \in Tasks, NewTask(h, t) \/ FollowUp(h, t)
        PROVE  CallersOnly'
    BY <2>3 DEF NewTask, FollowUp, requestVars, handlerVars
  <2>4. ASSUME NEW t \in Tasks, Execute(t) PROVE CallersOnly'
    BY <2>4 DEF Execute, requestVars, handlerVars
  <2>5. ASSUME NEW h \in Handlers, NEW r \in Requests, ArriveExempt(h, r) PROVE CallersOnly'
    BY <2>5 DEF ArriveExempt, taskVars
  <2>6. CASE UNCHANGED vars
    BY <2>6 DEF vars, requestVars, handlerVars, taskVars
  <2> QED
    BY <2>1, <2>2, <2>3, <2>4, <2>5, <2>6 DEF Next, Rest
<1>3. IInv /\ CallersOnly => TypeOK
  BY IdentitiesAreWhole DEF IInv, Shape, CallersOnly, Callers, TypeOK
<1> QED
  BY <1>1, <1>2, <1>3, Invariant, PTL DEF Spec
=============================================================================
