------------------------------ MODULE Exchange ------------------------------
(***************************************************************************)
(* One message through the server: its parts become the module's input     *)
(* (PartConverter.parts_to_input, as the input schema has it), the module  *)
(* returns or raises, its output becomes an artifact (output_to_parts) or  *)
(* its error takes the three ways out of ErrorSurface.  What the Agent     *)
(* Card says of the skill (SkillMapper._compute_input_modes) is computed   *)
(* elsewhere from the same schema.                                         *)
(*                                                                         *)
(* A value is what the conversions tell apart: which JSON type it has, or  *)
(* "prose" for a text that is no JSON, or "opaque" for a Python object     *)
(* JSON has no form for.                                                   *)
(***************************************************************************)
EXTENDS ErrorSurface

Json == {"object", "list", "scalar"}

(* The one part of a message; "file" has a url or raw bytes.               *)
Messages ==
  [content : {"none", "several", "file", "empty"}, value : {"nothing"}]
    \cup [content : {"text"}, value : Json \cup {"prose"}]
    \cup [content : {"data"}, value : Json]

(* An input schema by its root: type string, type object, no type but      *)
(* properties, anything else, or no schema.                                *)
Schemas == {"absent", "string", "object", "properties", "other"}

(* What a module may return.  "holding" an opaque object: inside a dict or *)
(* a list.                                                                 *)
Outputs == {"nothing", "text", "opaque", "objectHoldingOpaque", "listHoldingOpaque"}
             \cup Json

VARIABLES
  message,  \* the message
  schema,   \* the input schema of the skill
  input,    \* what parts_to_input made of it, "none" before
  artifact  \* the parts of the artifact, "none" before

messageVars == <<message, schema, input, artifact>>
exchangeVars == <<vars, messageVars>>

-----------------------------------------------------------------------------
(* Conversions *)

DetectRootType(s) ==
  CASE s = "string"                    -> "string"
    [] s \in {"object", "properties"}  -> "object"
    [] OTHER                           -> "unknown"

(* A slip: any module with a schema gets its text as JSON. *)
PartsToInputAlwaysJson(m, s) ==
  CASE m.content = "data"                  -> m.value
    [] m.content = "text" /\ s = "absent"  -> "text"
    [] m.content = "text" /\ s # "absent"  -> IF m.value = "prose" THEN "refused" ELSE m.value
    [] OTHER                               -> "refused"

(* "refused" is a ValueError; a text is parsed for an object schema only.  *)
PartsToInput(m, s) ==
  CASE m.content = "data"                                  -> m.value
    [] m.content = "text" /\ DetectRootType(s) # "object"  -> "text"
    [] m.content = "text" /\ DetectRootType(s) = "object"  ->
         IF m.value = "prose" THEN "refused" ELSE m.value
    [] OTHER                                               -> "refused"

(* The artifact has no part, one data part or one text part; JSON and      *)
(* protobuf raise for what they have no form for, except at the top level. *)
OutputToParts(o) ==
  CASE o = "nothing"                                        -> "empty"
    [] o = "object"                                         -> "data"
    [] o \in {"objectHoldingOpaque", "listHoldingOpaque"}   -> "unconvertible"
    [] OTHER                                                -> "text"

ComputeInputModes(s) ==
  CASE s = "absent"                    -> {"text/plain"}
    [] DetectRootType(s) = "string"    -> {"application/json", "text/plain"}
    [] OTHER                           -> {"application/json"}

(* The mode a message with one part is in. *)
ModeOf(m) ==
  CASE m.content = "text" -> "text/plain"
    [] m.content = "data" -> "application/json"
    [] OTHER              -> "none"

-----------------------------------------------------------------------------

ExchangeInit ==
  /\ Init
  /\ message \in Messages /\ schema \in Schemas
  /\ input = "none" /\ artifact = "none"

(* get_definition may raise: the message is then read without a schema.    *)
ParseParts(seen) ==
  /\ input = "none" /\ PartsToInput(message, seen) # "refused"
  /\ input' = PartsToInput(message, seen)
  /\ UNCHANGED <<vars, message, schema, artifact>>

(* The caller gets the ValueError's own text. *)
RefuseParts(seen) ==
  /\ input = "none" /\ PartsToInput(message, seen) = "refused"
  /\ input' = "refused"
  /\ status' = Status("failed", [message |-> "own", widened |-> FALSE])
  /\ UNCHANGED <<disclose, error, frame, raised, message, schema, artifact>>

Called == input \notin {"none", "refused"} /\ artifact = "none" /\ error = NoError

ModuleRaises(e) ==
  /\ Called /\ Raise(e)
  /\ UNCHANGED messageVars

Returns(o) ==
  /\ Called /\ OutputToParts(o) # "unconvertible"
  /\ artifact' = OutputToParts(o)
  /\ status' = Status("completed", [message |-> "none", widened |-> FALSE])
  /\ UNCHANGED <<disclose, error, frame, raised, message, schema, input>>

(* A slip: the conversion's complaint is raised as an invalid input. *)
ConversionErrorOfTheCaller ==
  [code |-> "GENERAL_INVALID_INPUT", blank |-> FALSE, output |-> FALSE, guidance |-> "none"]

(* TypeError or protobuf's ParseError: no code, no guidance. *)
ConversionError ==
  [code |-> "none", blank |-> FALSE, output |-> FALSE, guidance |-> "none"]

Unconvertible(o) ==
  /\ Called /\ OutputToParts(o) = "unconvertible"
  /\ Raise(ConversionError)
  /\ artifact' = "unconvertible"
  /\ UNCHANGED <<message, schema, input>>

Answered == status # NoStatus /\ UNCHANGED exchangeVars

ExchangeNext ==
  \/ \E seen \in {schema, "absent"} : ParseParts(seen) \/ RefuseParts(seen)
  \/ \E e \in Errors : ModuleRaises(e)
  \/ \E o \in Outputs : Returns(o) \/ Unconvertible(o)
  \/ (Report \/ Format \/ Receive) /\ UNCHANGED messageVars
  \/ Answered

ExchangeSpec == ExchangeInit /\ [][ExchangeNext]_exchangeVars

-----------------------------------------------------------------------------
(* Properties *)

(* The types.  A completed task has an artifact; nothing that happens to   *)
(* a message has the code of an unknown task.                              *)
ExchangeTypeOK ==
  /\ disclose \in BOOLEAN
  /\ error \in Errors \cup {NoError}
  /\ status \in [state : {"working", "completed", "failed", "canceled", "rejected",
                          "input_required"},
                 message : {"none", "own", "fixed"}, widened : BOOLEAN]
  /\ frame \in [code : {0, MethodNotFound, InvalidParams, InternalError, -32040,
                        -32041, -32042},
                message : {"none", "own", "fixed"}]
  /\ message \in Messages /\ schema \in Schemas
  /\ input \in {"none", "refused", "text"} \cup Json
  /\ artifact \in {"none", "empty", "text", "data", "unconvertible"}
  /\ status.state = "completed" <=> artifact \in {"empty", "text", "data"}

(* What is wrong with an output is never blamed on the caller: neither an  *)
(* output that fails validation (is_server_side_schema_error) nor one that *)
(* has no form in an artifact is reported as invalid parameters, and the   *)
(* status says nothing but the fixed string.                               *)
OutputFault ==
  \/ artifact = "unconvertible"
  \/ error # NoError /\ error.code = "SCHEMA_VALIDATION_ERROR" /\ error.output

OutputFaultsAreOurs ==
  OutputFault =>
    /\ frame.code # InvalidParams
    /\ status # NoStatus => status = Status("failed", Fixed)

(* A message in a mode the card advertises for the skill is never refused  *)
(* for its form: _compute_input_modes and parts_to_input read the schema's *)
(* root alike, even when the message is read without the schema.           *)
AdvertisedModesAccepted ==
  ModeOf(message) \in ComputeInputModes(schema) /\ message.value # "nothing" =>
    input # "refused"
=============================================================================
