---------------------------- MODULE ErrorSurface ----------------------------
(***************************************************************************)
(* One apcore error on its three ways out: the status message of the task  *)
(* (server/executor.py), the JSON-RPC error (adapters/errors.py, the       *)
(* formatter "a2a" of apcore's registry) and the exception the client      *)
(* raises for that (client/client.py).  The three are computed in          *)
(* different files from the same code, and have to tell the same story.    *)
(*                                                                         *)
(* There are two mappers: the formatter is registered by __init__ with the *)
(* default policy, create() gives the executor another one.                *)
(***************************************************************************)
EXTENDS JsonRpcErrors

CONSTANT NoError   \* nothing has been raised yet

ASSUME NoErrorAssumption == NoError \notin Errors

VARIABLES
  disclose,  \* disclose_refusal_reason of the executor's mapper, fixed at start
  error,     \* the error being reported, or NoError
  status,    \* the task status: state, message, and whether it was widened
  frame,     \* the JSON-RPC error
  raised     \* the client's exception

vars == <<disclose, error, status, frame, raised>>

NoStatus == [state |-> "working", message |-> "none", widened |-> FALSE]
NoFrame == [code |-> 0, message |-> "none"]
NotRaised == "none"

(* A2AServerFactory.__init__ registers ErrorMapper(), and create() does not *)
(* register its own.                                                        *)
RegisteredPolicy == FALSE

-----------------------------------------------------------------------------

(* A slip: guidance is appended whenever there is some. *)
FailureTextAlwaysWidened(e, d) ==
  [message |-> ToJsonRpcError(e, d).message, widened |-> e.guidance = "text"]

(* The mapper's message, with ai_guidance appended where the class allows. *)
FailureText(e, d) ==
  [message |-> ToJsonRpcError(e, d).message,
   widened |-> CarriesCallerDetail(e, d) /\ e.guidance = "text"]

Status(state, text) ==
  [state |-> state, message |-> text.message, widened |-> text.widened]

Fixed == [message |-> "fixed", widened |-> FALSE]

(* APPROVAL_PENDING forwards str(exc): it carries the approval_id. *)
ReportedStatus(e, d) ==
  CASE e.code = "MODULE_TIMEOUT"         -> Status("failed", Fixed)
    [] e.code = "EXECUTION_CANCELLED"    -> Status("canceled", Fixed)
    [] e.code = "APPROVAL_PENDING"       ->
         Status("input_required", [message |-> "own", widened |-> FALSE])
    [] e.code \in GovernanceRefusals     -> Status("rejected", FailureText(e, d))
    [] OTHER                             -> Status("failed", FailureText(e, d))

Init ==
  /\ disclose \in BOOLEAN
  /\ error = NoError /\ status = NoStatus /\ frame = NoFrame /\ raised = NotRaised

Raise(e) ==
  /\ error' = e
  /\ status' = NoStatus /\ frame' = NoFrame /\ raised' = NotRaised
  /\ UNCHANGED disclose

Report ==
  /\ error # NoError
  /\ status' = ReportedStatus(error, disclose)
  /\ UNCHANGED <<disclose, error, frame, raised>>

Format ==
  /\ error # NoError
  /\ frame' = ToJsonRpcError(error, RegisteredPolicy)
  /\ UNCHANGED <<disclose, error, status, raised>>

Receive ==
  /\ frame # NoFrame
  /\ raised' = RaiseJsonRpcError(frame.code)
  /\ UNCHANGED <<disclose, error, status, frame>>

Next == (\E e \in Errors : Raise(e)) \/ Report \/ Format \/ Receive

Spec == Init /\ [][Next]_vars

-----------------------------------------------------------------------------
(* Properties *)

(* The task is rejected exactly when the client raises a governance        *)
(* refusal, whether or not the reason is disclosed: a refusal never looks  *)
(* like a failure to retry or an unknown task (execute() and               *)
(* _raise_jsonrpc_error partition the codes apart).                        *)
RefusalsAgree ==
  status # NoStatus /\ raised # NotRaised =>
    (status.state = "rejected" <=>
       raised \in {"AccessDeniedError", "ApprovalDeniedError", "ApprovalTimeoutError"})

(* With the default policy a message is only widened with guidance when    *)
(* the JSON-RPC surface forwards the error's own message too: the fixed    *)
(* strings stay fixed (carries_caller_detail, _failure_text).              *)
FixedStaysFixed ==
  status.widened /\ ~disclose /\ frame # NoFrame => frame.message = "own"

(* "The task-status surface forwards exactly what the JSON-RPC surface     *)
(* does under either setting" (carries_caller_detail): for a refusal the   *)
(* two messages have one origin.                                           *)
SurfacesDiscloseAlike ==
  error # NoError /\ error.code \in GovernanceRefusals
    /\ status # NoStatus /\ frame # NoFrame
    => status.message = frame.message

(* For a refusal the two messages come apart exactly when disclosure is on *)
(* and there is a reason to disclose: with the default policy, and for a   *)
(* reason the sanitizer empties, they never do (_refusal_message, and      *)
(* factory.py, which builds two mappers).                                  *)
SurfacesPartOnlyOnDisclosure ==
  error # NoError /\ error.code \in GovernanceRefusals
    /\ status # NoStatus /\ frame # NoFrame
    => (status.message # frame.message <=> disclose /\ ~error.blank)
=============================================================================
