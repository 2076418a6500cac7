--------------------------- MODULE JsonRpcErrors ----------------------------
(***************************************************************************)
(* The error policy: what an apcore error becomes as a JSON-RPC error      *)
(* (adapters/errors.py) and which exception a client raises for one        *)
(* (client/client.py).  A message is named by its origin: "own" is the     *)
(* error's own text through the sanitizer, "fixed" a per-class string.     *)
(***************************************************************************)
EXTENDS Integers

MethodNotFound == -32601
InvalidParams == -32602
InternalError == -32603
TaskNotFound == -32001
TaskNotCancelable == -32002

GovernanceCodes ==
  [c \in {"ACL_DENIED", "APPROVAL_DENIED", "APPROVAL_TIMEOUT"} |->
     CASE c = "ACL_DENIED"       -> -32040
       [] c = "APPROVAL_DENIED"  -> -32041
       [] c = "APPROVAL_TIMEOUT" -> -32042]

GovernanceRefusals == DOMAIN GovernanceCodes

(* One code for every branch of the mapper; the last two stand for an      *)
(* exception without a code and for a code the mapper does not know.       *)
Codes == GovernanceRefusals \cup
  {"MODULE_NOT_FOUND", "SCHEMA_VALIDATION_ERROR", "GENERAL_INVALID_INPUT",
   "APPROVAL_PENDING", "MODULE_TIMEOUT", "EXECUTION_CANCELLED",
   "CALL_DEPTH_EXCEEDED", "CIRCUIT_BREAKER_OPEN", "MODULE_DISABLED",
   "CONFIG_MOUNT_ERROR", "none", "DEPENDENCY_NOT_FOUND"}

(* blank: nothing is left of the message once sanitized.  output: it       *)
(* starts with "Output validation failed".                                 *)
Errors == [code : Codes, blank : BOOLEAN, output : BOOLEAN,
           guidance : {"none", "blank", "text"}]

-----------------------------------------------------------------------------
(* ErrorMapper *)

IsServerSideSchemaError(e) == e.output

(* A slip: a reason of which the sanitizer left nothing is forwarded. *)
RefusalMessageUnchecked(e, disclose) == IF disclose THEN "own" ELSE "fixed"

RefusalMessage(e, disclose) == IF disclose /\ ~e.blank THEN "own" ELSE "fixed"

(* A slip: every schema validation error is the caller's to fix. *)
ToJsonRpcErrorBlamingTheCaller(e, disclose) ==
  CASE e.code = "MODULE_NOT_FOUND" ->
         [code |-> MethodNotFound, message |-> "own"]
    [] e.code \in {"GENERAL_INVALID_INPUT", "SCHEMA_VALIDATION_ERROR"} ->
         [code |-> InvalidParams, message |-> "own"]
    [] e.code \in GovernanceRefusals ->
         [code |-> GovernanceCodes[e.code], message |-> RefusalMessage(e, disclose)]
    [] OTHER -> [code |-> InternalError, message |-> "fixed"]

(* A slip: an ACL denial is an unknown task, as it was before FR-ERR-003. *)
ToJsonRpcErrorMasking(e, disclose) ==
  IF e.code = "ACL_DENIED" THEN [code |-> TaskNotFound, message |-> "fixed"]
  ELSE ToJsonRpcErrorBlamingTheCaller(e, disclose)

ToJsonRpcError(e, disclose) ==
  CASE e.code = "MODULE_NOT_FOUND" ->
         [code |-> MethodNotFound, message |-> "own"]
    [] e.code = "SCHEMA_VALIDATION_ERROR" /\ ~IsServerSideSchemaError(e) ->
         [code |-> InvalidParams, message |-> "own"]
    [] e.code = "GENERAL_INVALID_INPUT" ->
         [code |-> InvalidParams, message |-> "own"]
    [] e.code \in GovernanceRefusals ->
         [code |-> GovernanceCodes[e.code], message |-> RefusalMessage(e, disclose)]
    [] OTHER -> [code |-> InternalError, message |-> "fixed"]

(* A slip: whatever the module's author marked as fixable may be widened. *)
CarriesCallerDetailOfDependencies(e, disclose) ==
  \/ e.code \in {"MODULE_NOT_FOUND", "GENERAL_INVALID_INPUT", "DEPENDENCY_NOT_FOUND"}
  \/ e.code = "SCHEMA_VALIDATION_ERROR" /\ ~IsServerSideSchemaError(e)
  \/ e.code \in GovernanceRefusals /\ disclose

CarriesCallerDetail(e, disclose) ==
  \/ e.code \in {"MODULE_NOT_FOUND", "GENERAL_INVALID_INPUT"}
  \/ e.code = "SCHEMA_VALIDATION_ERROR" /\ ~IsServerSideSchemaError(e)
  \/ e.code \in GovernanceRefusals /\ disclose

-----------------------------------------------------------------------------
(* The client *)

GovernanceErrors ==
  [c \in {-32040, -32041, -32042} |->
     CASE c = -32040 -> "AccessDeniedError"
       [] c = -32041 -> "ApprovalDeniedError"
       [] c = -32042 -> "ApprovalTimeoutError"]

JsonRpcErrors == [c \in {-32001, -32002} |->
  IF c = -32001 THEN "TaskNotFoundError" ELSE "TaskNotCancelableError"]

RaiseJsonRpcError(code) ==
  IF code \in DOMAIN GovernanceErrors THEN GovernanceErrors[code]
  ELSE IF code \in DOMAIN JsonRpcErrors THEN JsonRpcErrors[code]
  ELSE "A2AServerError"
=============================================================================
