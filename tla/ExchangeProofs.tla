--------------------------- MODULE ExchangeProofs ---------------------------
(***************************************************************************)
(* One error tells one story on its three ways out, and one message is     *)
(* blamed on whom it concerns, whatever is raised, returned or sent.       *)
(*                                                                         *)
(* SurfaceInv ties each way out to the error itself: the frame and the     *)
(* exception are those of the registered mapper, the status that of the    *)
(* executor's.  It is inductive for ErrorSurface alone, where errors follow*)
(* one another; for Exchange it needs ExchangeInv, which says which answer *)
(* is given before a module is called, which after it returned, and that   *)
(* neither overwrites the report of an error.                              *)
(***************************************************************************)
EXTENDS Exchange, TLAPS

FrameSet ==
  [code : {0, MethodNotFound, InvalidParams, InternalError, -32040, -32041, -32042},
   message : {"none", "own", "fixed"}]

StatusSet ==
  [state : {"working", "completed", "failed", "canceled", "rejected", "input_required"},
   message : {"none", "own", "fixed"}, widened : BOOLEAN]

Refusals == {"AccessDeniedError", "ApprovalDeniedError", "ApprovalTimeoutError"}

SurfaceInv ==
  /\ disclose \in BOOLEAN
  /\ error \in Errors \cup {NoError}
  /\ frame # NoFrame =>
       error # NoError /\ frame = ToJsonRpcError(error, RegisteredPolicy)
  /\ raised # NotRaised => frame # NoFrame /\ raised = RaiseJsonRpcError(frame.code)
  /\ error # NoError => status \in {NoStatus, ReportedStatus(error, disclose)}

Parsed == \E seen \in {schema, "absent"} : input = PartsToInput(message, seen)

Refused == Status("failed", [message |-> "own", widened |-> FALSE])
Completed == Status("completed", [message |-> "none", widened |-> FALSE])

Converted == {"empty", "text", "data"}

ExchangeInv ==
  /\ message \in Messages /\ schema \in Schemas
  /\ input = "none" \/ Parsed
  /\ input \in {"none", "refused"} => error = NoError /\ artifact = "none"
  /\ artifact \in {"none", "unconvertible"} \cup Converted
  /\ artifact = "unconvertible" => error = ConversionError
  /\ artifact \in Converted => error = NoError /\ status = Completed
  /\ artifact \notin Converted /\ error = NoError => status \in {NoStatus, Refused}

IInv == SurfaceInv /\ ExchangeInv

-----------------------------------------------------------------------------
(* The mapper and the client, for every error. *)

(* No error is mapped to the frame that stands for none.                   *)
LEMMA FrameType ==
  ASSUME NEW e \in Errors, NEW d \in BOOLEAN
  PROVE  /\ ToJsonRpcError(e, d) \in FrameSet /\ ToJsonRpcError(e, d).code # 0
         /\ ToJsonRpcError(e, d).message \in {"own", "fixed"}
<1> DEFINE code == ToJsonRpcError(e, d).code
           text == ToJsonRpcError(e, d).message
<1> USE DEF ToJsonRpcError, GovernanceCodes, GovernanceRefusals, MethodNotFound,
            InvalidParams, InternalError
<1>1. ToJsonRpcError(e, d) = [code |-> code, message |-> text]
  OBVIOUS
<1>2. code \in {MethodNotFound, InvalidParams, InternalError, -32040, -32041, -32042}
  OBVIOUS
<1>3. text \in {"own", "fixed"}
  BY DEF RefusalMessage
<1>4. QED
  <2> HIDE DEF code, text, ToJsonRpcError
  <2>1. code # 0
    BY <1>2
  <2>2. [code |-> code, message |-> text] \in FrameSet
    BY <1>2, <1>3 DEF FrameSet
  <2>3. QED
    BY <1>1, <1>3, <2>1, <2>2 DEF code, text

(* Governance refusals, and they alone, have a code the client raises a    *)
(* refusal for, under either policy.                                       *)
LEMMA RefusalsRaised ==
  ASSUME NEW e \in Errors, NEW d \in BOOLEAN
  PROVE  RaiseJsonRpcError(ToJsonRpcError(e, d).code) \in Refusals
           <=> e.code \in GovernanceRefusals
BY DEF ToJsonRpcError, RefusalMessage, GovernanceCodes, GovernanceRefusals, Errors, Codes,
       MethodNotFound, InvalidParams, InternalError, RaiseJsonRpcError, GovernanceErrors,
       JsonRpcErrors, Refusals

LEMMA StatusType ==
  ASSUME NEW e \in Errors, NEW d \in BOOLEAN
  PROVE  /\ ReportedStatus(e, d) \in StatusSet /\ ReportedStatus(e, d).state # "completed"
         /\ ReportedStatus(e, d).state = "rejected" <=> e.code \in GovernanceRefusals
<1>1. /\ ToJsonRpcError(e, d).message \in {"own", "fixed"}
      /\ CarriesCallerDetail(e, d) \in BOOLEAN
  BY FrameType DEF CarriesCallerDetail
<1>2. QED
  BY <1>1 DEF StatusSet, ReportedStatus, Status, Fixed, FailureText, GovernanceCodes,
              GovernanceRefusals

(* What may be widened by default is what is forwarded by default.         *)
LEMMA DetailIsForwarded ==
  ASSUME NEW e \in Errors, CarriesCallerDetail(e, FALSE)
  PROVE  ToJsonRpcError(e, FALSE).message = "own"
<1>1. \/ e.code = "MODULE_NOT_FOUND"
      \/ e.code = "SCHEMA_VALIDATION_ERROR" /\ ~IsServerSideSchemaError(e)
      \/ e.code = "GENERAL_INVALID_INPUT"
  BY DEF CarriesCallerDetail
<1>2. CASE e.code = "MODULE_NOT_FOUND"
  BY <1>2 DEF ToJsonRpcError, GovernanceRefusals, GovernanceCodes
<1>3. CASE e.code = "SCHEMA_VALIDATION_ERROR" /\ ~IsServerSideSchemaError(e)
  BY <1>3 DEF ToJsonRpcError, GovernanceRefusals, GovernanceCodes
<1>4. CASE e.code = "GENERAL_INVALID_INPUT"
  BY <1>4 DEF ToJsonRpcError, GovernanceRefusals, GovernanceCodes
<1>5. QED
  BY <1>1, <1>2, <1>3, <1>4

-----------------------------------------------------------------------------
(* The three ways out *)

LEMMA SurfaceInit == Init => SurfaceInv
BY DEF Init, SurfaceInv

LEMMA RaiseKeeps ==
  ASSUME SurfaceInv, NEW e \in Errors, Raise(e)
  PROVE  SurfaceInv'
BY DEF Raise, SurfaceInv

(* What each of the three handlers does to its own way out. *)
LEMMA WaysOutKeep ==
  ASSUME SurfaceInv, Report \/ Format \/ Receive
  PROVE  SurfaceInv'
<1>1. CASE Report
  BY <1>1 DEF Report, SurfaceInv
<1>2. CASE Format
  <2>1. error \in Errors /\ error # NoError /\ UNCHANGED <<disclose, error, status, raised>>
        /\ frame' = ToJsonRpcError(error, RegisteredPolicy)
    BY <1>2 DEF Format, SurfaceInv
  <2>2. raised # NotRaised => frame = frame'
    BY <2>1 DEF SurfaceInv
  <2>3. raised # NotRaised => frame # NoFrame /\ raised = RaiseJsonRpcError(frame.code)
    BY DEF SurfaceInv
  <2>4. QED
    BY <2>1, <2>2, <2>3 DEF SurfaceInv
<1>3. CASE Receive
  BY <1>3 DEF Receive, SurfaceInv
<1>4. QED
  BY <1>1, <1>2, <1>3

LEMMA SurfaceInvariant == Spec => []SurfaceInv
<1>1. SurfaceInv /\ [Next]_vars => SurfaceInv'
  <2>1. SUFFICES ASSUME SurfaceInv, [Next]_vars PROVE SurfaceInv'
    OBVIOUS
  <2>2. CASE \E e \in Errors : Raise(e)
    BY <2>1, <2>2, RaiseKeeps
  <2>3. CASE Report \/ Format \/ Receive
    BY <2>1, <2>3, WaysOutKeep
  <2>4. CASE UNCHANGED vars
    BY <2>1, <2>4 DEF vars, SurfaceInv
  <2>5. QED
    BY <2>1, <2>2, <2>3, <2>4 DEF Next
<1>2. QED
  BY <1>1, SurfaceInit, PTL DEF Spec

(* What follows when both the status and the frame are those of one error. *)
LEMMA OneStory ==
  ASSUME SurfaceInv, error # NoError, status # NoStatus
  PROVE  /\ error \in Errors /\ disclose \in BOOLEAN
         /\ status = ReportedStatus(error, disclose)
         /\ frame # NoFrame => frame = ToJsonRpcError(error, FALSE)
         /\ raised # NotRaised =>
              frame # NoFrame /\ raised = RaiseJsonRpcError(ToJsonRpcError(error, FALSE).code)
BY DEF SurfaceInv, RegisteredPolicy

(* A refusal is rejected on the one side and raised as a refusal on the    *)
(* other.                                                                  *)
LEMMA RefusalsAgreeOn == SurfaceInv => RefusalsAgree
<1>1. SUFFICES ASSUME SurfaceInv, error # NoError, status # NoStatus, raised # NotRaised
               PROVE  status.state = "rejected" <=> raised \in Refusals
  BY DEF RefusalsAgree, Refusals, SurfaceInv
<1>2. status.state = "rejected" <=> error.code \in GovernanceRefusals
  BY <1>1, OneStory, StatusType
<1>3. raised \in Refusals <=> error.code \in GovernanceRefusals
  BY <1>1, OneStory, RefusalsRaised
<1>4. QED
  BY <1>2, <1>3

LEMMA FixedStaysFixedOn == SurfaceInv => FixedStaysFixed
<1>1. SUFFICES ASSUME SurfaceInv, error # NoError, status.widened, ~disclose, frame # NoFrame
               PROVE  frame.message = "own"
  BY DEF FixedStaysFixed, SurfaceInv
<1>2. status # NoStatus
  BY <1>1 DEF NoStatus
<1>3. error \in Errors /\ status = ReportedStatus(error, FALSE)
      /\ frame = ToJsonRpcError(error, FALSE)
  BY <1>1, <1>2, OneStory
<1>4. CarriesCallerDetail(error, FALSE)
  BY <1>1, <1>3 DEF ReportedStatus, Status, Fixed, FailureText
<1>5. QED
  BY <1>3, <1>4, DetailIsForwarded

LEMMA SurfacesPartOn == SurfaceInv => SurfacesPartOnlyOnDisclosure
<1>1. SUFFICES ASSUME SurfaceInv, error # NoError, error.code \in GovernanceRefusals,
                      status # NoStatus, frame # NoFrame
               PROVE  status.message # frame.message <=> disclose /\ ~error.blank
  BY DEF SurfacesPartOnlyOnDisclosure
<1>2. /\ error \in Errors /\ disclose \in BOOLEAN
      /\ status = ReportedStatus(error, disclose)
      /\ frame = ToJsonRpcError(error, FALSE)
  BY <1>1, OneStory
<1>3. \A d \in BOOLEAN : ToJsonRpcError(error, d).message = RefusalMessage(error, d)
  BY <1>1 DEF ToJsonRpcError, GovernanceRefusals, GovernanceCodes
<1>4. status.message = RefusalMessage(error, disclose)
  BY <1>1, <1>2, <1>3 DEF ReportedStatus, Status, FailureText, GovernanceRefusals,
                          GovernanceCodes
<1>5. frame.message = RefusalMessage(error, FALSE)
  BY <1>2, <1>3
<1>6. error.blank \in BOOLEAN
  BY <1>2 DEF Errors
<1>7. QED
  BY <1>2, <1>4, <1>5, <1>6 DEF RefusalMessage

(* Errors that follow one another, without the exchange around them.       *)
THEOREM SurfacesTellOneStory ==
  Spec => [](RefusalsAgree /\ FixedStaysFixed /\ SurfacesPartOnlyOnDisclosure)
BY SurfaceInvariant, RefusalsAgreeOn, FixedStaysFixedOn, SurfacesPartOn, PTL

-----------------------------------------------------------------------------
(* The exchange around them *)

(* Whatever parts_to_input is given, it refuses or makes an input of it.   *)
LEMMA InputType ==
  ASSUME NEW m \in Messages, NEW s
  PROVE  PartsToInput(m, s) \in {"refused", "text"} \cup Json
BY DEF PartsToInput, Messages, Json

LEMMA OutputType ==
  ASSUME NEW o
  PROVE  OutputToParts(o) \in Converted \cup {"unconvertible"}
BY DEF OutputToParts, Converted

LEMMA ConversionErrorType == ConversionError \in Errors
BY DEF ConversionError, Errors, Codes

(* The statuses a server gives without an error. *)
LEMMA PlainStatuses ==
  /\ NoStatus = [state |-> "working", message |-> "none", widened |-> FALSE]
  /\ Refused = [state |-> "failed", message |-> "own", widened |-> FALSE]
  /\ Completed = [state |-> "completed", message |-> "none", widened |-> FALSE]
  /\ {NoStatus, Refused, Completed} \subseteq StatusSet
BY DEF NoStatus, Refused, Completed, Status, StatusSet

LEMMA ParsePartsKeeps ==
  ASSUME IInv, NEW seen \in {schema, "absent"}, ParseParts(seen)
  PROVE  IInv'
<1>1. /\ UNCHANGED <<vars, message, schema, artifact>>
      /\ input = "none" /\ input' = PartsToInput(message, seen) /\ input' # "refused"
  BY DEF ParseParts
<1>2. SurfaceInv'
  BY <1>1 DEF IInv, SurfaceInv, vars
<1>3. Parsed' /\ input' \notin {"none", "refused"}
  BY <1>1, InputType DEF IInv, ExchangeInv, Parsed, Json
<1>4. ExchangeInv'
  BY <1>1, <1>3 DEF IInv, ExchangeInv, vars
<1>5. QED
  BY <1>2, <1>4 DEF IInv

LEMMA RefusePartsKeeps ==
  ASSUME IInv, NEW seen \in {schema, "absent"}, RefuseParts(seen)
  PROVE  IInv'
<1>1. /\ UNCHANGED <<disclose, error, frame, raised, message, schema, artifact>>
      /\ input' = "refused" /\ PartsToInput(message, seen) = "refused"
      /\ status' = Refused /\ error = NoError /\ artifact = "none"
  BY DEF RefuseParts, Refused, IInv, ExchangeInv
<1>2. SurfaceInv'
  BY <1>1 DEF IInv, SurfaceInv
<1>3. Parsed'
  BY <1>1 DEF Parsed
<1>4. ExchangeInv'
  BY <1>1, <1>3 DEF IInv, ExchangeInv, Converted
<1>5. QED
  BY <1>2, <1>4 DEF IInv

(* A module is called once, before there is any error.                     *)
LEMMA ModuleRaisesKeeps ==
  ASSUME IInv, NEW e \in Errors, ModuleRaises(e)
  PROVE  IInv'
<1>1. /\ UNCHANGED <<message, schema, input, artifact>> /\ error' = e
      /\ input \notin {"none", "refused"} /\ artifact = "none" /\ Raise(e)
  BY DEF ModuleRaises, Called, Raise, messageVars
<1>2. SurfaceInv'
  BY <1>1, RaiseKeeps DEF IInv
<1>3. error' # NoError
  BY <1>1, NoErrorAssumption
<1>4. ExchangeInv'
  BY <1>1, <1>3 DEF IInv, ExchangeInv, Parsed, Converted
<1>5. QED
  BY <1>2, <1>4 DEF IInv

LEMMA ReturnsKeeps ==
  ASSUME IInv, NEW o \in Outputs, Returns(o)
  PROVE  IInv'
<1>1. /\ UNCHANGED <<disclose, error, frame, raised, message, schema, input>>
      /\ input \notin {"none", "refused"} /\ error = NoError
      /\ artifact' \in Converted /\ status' = Completed
  BY OutputType DEF Returns, Called, Completed
<1>2. SurfaceInv'
  BY <1>1 DEF IInv, SurfaceInv
<1>3. ExchangeInv'
  BY <1>1 DEF IInv, ExchangeInv, Parsed, Converted
<1>4. QED
  BY <1>2, <1>3 DEF IInv

LEMMA UnconvertibleKeeps ==
  ASSUME IInv, NEW o \in Outputs, Unconvertible(o)
  PROVE  IInv'
<1>1. /\ UNCHANGED <<message, schema, input>> /\ artifact' = "unconvertible"
      /\ input \notin {"none", "refused"} /\ Raise(ConversionError)
      /\ error' = ConversionError
  BY DEF Unconvertible, Called, Raise
<1>2. SurfaceInv'
  BY <1>1, RaiseKeeps, ConversionErrorType DEF IInv
<1>3. error' # NoError
  BY <1>1, ConversionErrorType, NoErrorAssumption
<1>4. ExchangeInv'
  BY <1>1, <1>3 DEF IInv, ExchangeInv, Parsed, Converted
<1>5. QED
  BY <1>2, <1>4 DEF IInv

(* An error is reported, formatted and received after the exchange has     *)
(* taken its course.                                                       *)
LEMMA ReportingKeeps ==
  ASSUME IInv, Report \/ Format \/ Receive, UNCHANGED messageVars
  PROVE  IInv'
<1>1. SurfaceInv'
  BY WaysOutKeep DEF IInv
<1>2. UNCHANGED <<message, schema, input, artifact, error>>
      /\ (error = NoError => status' = status)
  BY DEF Report, Format, Receive, messageVars
<1>3. ExchangeInv'
  BY <1>2 DEF IInv, ExchangeInv, Parsed
<1>4. QED
  BY <1>1, <1>3 DEF IInv

LEMMA Invariant == ExchangeSpec => []IInv
<1>1. ExchangeInit => IInv
  <2>1. ExchangeInit => ExchangeInv
    BY DEF ExchangeInit, Init, ExchangeInv, Converted
  <2>2. QED
    BY <2>1, SurfaceInit DEF ExchangeInit, IInv
<1>2. IInv /\ [ExchangeNext]_exchangeVars => IInv'
  <2>1. SUFFICES ASSUME IInv, [ExchangeNext]_exchangeVars PROVE IInv'
    OBVIOUS
  <2>2. CASE \E seen \in {schema, "absent"} : ParseParts(seen) \/ RefuseParts(seen)
    BY <2>1, <2>2, ParsePartsKeeps, RefusePartsKeeps
  <2>3. CASE \E e \in Errors : ModuleRaises(e)
    BY <2>1, <2>3, ModuleRaisesKeeps
  <2>4. CASE \E o \in Outputs : Returns(o) \/ Unconvertible(o)
    BY <2>1, <2>4, ReturnsKeeps, UnconvertibleKeeps
  <2>5. CASE (Report \/ Format \/ Receive) /\ UNCHANGED messageVars
    BY <2>1, <2>5, ReportingKeeps
  <2>6. CASE UNCHANGED exchangeVars
    BY <2>1, <2>6 DEF IInv, SurfaceInv, ExchangeInv, Parsed, exchangeVars, vars, messageVars
  <2>7. QED
    BY <2>1, <2>2, <2>3, <2>4, <2>5, <2>6 DEF ExchangeNext, Answered
<1>3. QED
  BY <1>1, <1>2, PTL DEF ExchangeSpec

(* The types: a completed task, and no other, has an artifact, and nothing *)
(* that happens to a message has the code of an unknown task.              *)
THEOREM ExchangeTypeCorrect == ExchangeSpec => []ExchangeTypeOK
<1>1. IInv => ExchangeTypeOK
  <2>1. SUFFICES ASSUME IInv PROVE ExchangeTypeOK
    OBVIOUS
  <2>2. disclose \in BOOLEAN /\ error \in Errors \cup {NoError}
        /\ message \in Messages /\ schema \in Schemas
        /\ artifact \in {"none", "empty", "text", "data", "unconvertible"}
    BY <2>1 DEF IInv, SurfaceInv, ExchangeInv, Converted
  <2>3. input \in {"none", "refused", "text"} \cup Json
    BY <2>1, InputType DEF IInv, ExchangeInv, Parsed
  <2>4. frame \in FrameSet
    <3>1. CASE frame = NoFrame
      BY <3>1 DEF NoFrame, FrameSet
    <3>2. CASE frame # NoFrame
      BY <2>1, <3>2, FrameType DEF IInv, SurfaceInv, RegisteredPolicy
    <3>3. QED
      BY <3>1, <3>2
  <2>5. status \in StatusSet
    <3>1. CASE error # NoError
      <4>1. error \in Errors /\ status \in {NoStatus, ReportedStatus(error, disclose)}
        BY <2>1, <3>1 DEF IInv, SurfaceInv
      <4>2. QED
        BY <2>2, <4>1, StatusType, PlainStatuses
    <3>2. CASE error = NoError
      <4>1. status \in {NoStatus, Refused, Completed}
        BY <2>1, <3>2 DEF IInv, ExchangeInv
      <4>2. QED
        BY <4>1, PlainStatuses
    <3>3. QED
      BY <3>1, <3>2
  <2>6. status.state = "completed" <=> artifact \in Converted
    <3>1. CASE error # NoError
      <4>1. error \in Errors /\ status \in {NoStatus, ReportedStatus(error, disclose)}
            /\ artifact \notin Converted
        BY <2>1, <3>1 DEF IInv, SurfaceInv, ExchangeInv
      <4>2. status.state # "completed"
        BY <2>2, <4>1, StatusType, PlainStatuses
      <4>3. QED
        BY <4>1, <4>2
    <3>2. CASE error = NoError
      <4>1. /\ artifact \in Converted => status = Completed
            /\ artifact \notin Converted => status \in {NoStatus, Refused}
        BY <2>1, <3>2 DEF IInv, ExchangeInv
      <4>2. QED
        BY <4>1, PlainStatuses
    <3>3. QED
      BY <3>1, <3>2
  <2>7. QED
    BY <2>2, <2>3, <2>4, <2>5, <2>6 DEF ExchangeTypeOK, FrameSet, StatusSet, Converted
<1>2. QED
  BY <1>1, Invariant, PTL

(* A task is rejected exactly when the client raises a refusal, and for a  *)
(* refusal the messages of task and JSON-RPC error come apart exactly      *)
(* where disclosure is on and there is a reason to disclose.               *)
THEOREM OneStoryPerExchange ==
  ExchangeSpec => [](RefusalsAgree /\ SurfacesPartOnlyOnDisclosure)
<1>1. IInv => SurfaceInv
  BY DEF IInv
<1>2. QED
  BY <1>1, Invariant, RefusalsAgreeOn, SurfacesPartOn, PTL

(* With the default policy a fixed string is never widened by an error's   *)
(* guidance.                                                               *)
THEOREM FixedTextsStayFixed == ExchangeSpec => []FixedStaysFixed
<1>1. IInv => SurfaceInv
  BY DEF IInv
<1>2. QED
  BY <1>1, Invariant, FixedStaysFixedOn, PTL

OursToFix(e) ==
  e.code = "none" \/ (e.code = "SCHEMA_VALIDATION_ERROR" /\ e.output)

(* An output that fails validation, or has no form in an artifact, is      *)
(* never reported as the caller's mistake, on any surface.                 *)
THEOREM OutputsAreOurs == ExchangeSpec => []OutputFaultsAreOurs
<1>1. ASSUME NEW e \in Errors, NEW d \in BOOLEAN,
             OursToFix(e)
      PROVE  /\ ToJsonRpcError(e, d) = [code |-> InternalError, message |-> "fixed"]
             /\ ReportedStatus(e, d) = Status("failed", Fixed)
  <2>1. ToJsonRpcError(e, d) = [code |-> InternalError, message |-> "fixed"]
    BY <1>1 DEF OursToFix, ToJsonRpcError, IsServerSideSchemaError, GovernanceRefusals,
                GovernanceCodes
  <2>2. ~CarriesCallerDetail(e, d)
    BY <1>1 DEF OursToFix, CarriesCallerDetail, IsServerSideSchemaError,
                GovernanceRefusals, GovernanceCodes
  <2>3. FailureText(e, d) = Fixed
    <3>1. (CarriesCallerDetail(e, d) /\ e.guidance = "text") = FALSE
      BY <2>2, Zenon
    <3>2. ToJsonRpcError(e, d).message = "fixed"
      BY <2>1
    <3>3. QED
      BY <3>1, <3>2, Zenon DEF FailureText, Fixed
  <2>4. QED
    BY <1>1, <2>1, <2>3 DEF OursToFix, ReportedStatus, GovernanceRefusals, GovernanceCodes
<1>2. IInv => OutputFaultsAreOurs
  <2>1. SUFFICES ASSUME IInv, OutputFault
                 PROVE  frame.code # InvalidParams
                        /\ (status # NoStatus => status = Status("failed", Fixed))
    BY DEF OutputFaultsAreOurs
  <2>2. /\ error \in Errors /\ error # NoError /\ disclose \in BOOLEAN
        /\ OursToFix(error)
    <3>1. artifact = "unconvertible" => error = ConversionError
      BY <2>1 DEF IInv, ExchangeInv
    <3>2. disclose \in BOOLEAN /\ error \in Errors \cup {NoError}
      BY <2>1 DEF IInv, SurfaceInv
    <3>3. ConversionError # NoError /\ ConversionError.code = "none"
      BY ConversionErrorType, NoErrorAssumption DEF ConversionError
    <3>4. QED
      BY <2>1, <3>1, <3>2, <3>3, ConversionErrorType DEF OutputFault, OursToFix
  <2>3. frame = NoFrame \/ frame = ToJsonRpcError(error, RegisteredPolicy)
    BY <2>1 DEF IInv, SurfaceInv
  <2>4. frame.code # InvalidParams
    <3>1. ToJsonRpcError(error, RegisteredPolicy) =
            [code |-> InternalError, message |-> "fixed"]
      BY <1>1, <2>2 DEF RegisteredPolicy
    <3>2. ToJsonRpcError(error, RegisteredPolicy).code = InternalError
      BY <3>1
    <3>3. NoFrame.code = 0
      BY DEF NoFrame
    <3>4. InternalError # InvalidParams /\ 0 # InvalidParams
      BY DEF InternalError, InvalidParams
    <3>5. QED
      BY <2>3, <3>2, <3>3, <3>4
  <2>5. status # NoStatus => status = Status("failed", Fixed)
    BY <1>1, <2>1, <2>2 DEF IInv, SurfaceInv
  <2>6. QED
    BY <2>4, <2>5
<1>3. QED
  BY <1>2, Invariant, PTL

(* A message in a mode the card advertises for the skill is not refused    *)
(* for its form, even when it is read without the skill's schema.          *)
THEOREM AdvertisedIsAccepted == ExchangeSpec => []AdvertisedModesAccepted
<1>1. ASSUME NEW m \in Messages, NEW s \in Schemas, NEW seen \in {s, "absent"},
             ModeOf(m) \in ComputeInputModes(s), m.value # "nothing"
      PROVE  PartsToInput(m, seen) # "refused"
  <2>1. CASE m.content = "data"
    BY <2>1 DEF Messages, PartsToInput, Json
  <2>2. CASE m.content = "text"
    <3>1. DetectRootType(seen) # "object"
      BY <1>1, <2>2 DEF ModeOf, ComputeInputModes, DetectRootType, Schemas
    <3>2. QED
      BY <2>2, <3>1 DEF PartsToInput
  <2>3. QED
    BY <1>1, <2>1, <2>2 DEF Messages
<1>2. IInv => AdvertisedModesAccepted
  <2>1. SUFFICES ASSUME IInv, ModeOf(message) \in ComputeInputModes(schema),
                        message.value # "nothing", input = "refused"
                 PROVE  FALSE
    BY DEF AdvertisedModesAccepted
  <2>2. message \in Messages /\ schema \in Schemas /\ Parsed
    BY <2>1 DEF IInv, ExchangeInv
  <2>3. QED
    BY <1>1, <2>1, <2>2 DEF Parsed
<1>3. QED
  BY <1>2, Invariant, PTL
=============================================================================
