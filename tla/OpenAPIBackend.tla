--------------------------- MODULE OpenAPIBackend ---------------------------
(***************************************************************************)
(* Building modules from an OpenAPI document (openapi_backend.py): a run   *)
(* of checks, any of which raises, then a scan, a repair of what the scan  *)
(* returned, a preflight against the registry the modules go to, and one   *)
(* write per module, which may fail on its own without stopping the rest.  *)
(*                                                                         *)
(* A host may build several backends into one registry, with modules of    *)
(* its own registered before and between.  One build is a synchronous      *)
(* call: nothing else touches the registry while it runs.                  *)
(***************************************************************************)
EXTENDS Naturals

CONSTANTS
  LegalIds,     \* module ids whose segments apcore's registry accepts
  IllegalIds,   \* ids with a segment it does not, left by the scanner or a hook
  Operations,   \* what the scanner may return for an id
  Configs,      \* what a call may be given
  MaxBuilds     \* calls (a bound)

(* write: an http_method that changes state.  gated: requires_approval.    *)
(* text: its description.  proxy: the writer can build a proxy for it.     *)
OperationSpace ==
  [write : BOOLEAN, gated : BOOLEAN, text : {"absent", "blank", "own"}, proxy : BOOLEAN]

(* The openapi section and the other arguments; "direct" is a call of      *)
(* openapi_backend itself.  ack is the raw value of                        *)
(* acknowledge_unapproved_writes, a (non-empty) string when it comes from  *)
(* the environment or from a careless caller; fresh: no registry is given; other: has_other_backend_source. *)
ConfigSpace ==
  [shape : {"absent", "scalar", "mapping", "direct"},
   spec : {"absent", "blank", "location", "document"},
   prefix : {"absent", "empty", "given"}, base : BOOLEAN,
   ack : {"absent", "true", "false", "string"}, fresh : BOOLEAN, other : BOOLEAN]

ASSUME IdsAssumption == LegalIds \cap IllegalIds = {}
ASSUME SpacesAssumption == Operations \subseteq OperationSpace /\ Configs \subseteq ConfigSpace
ASSUME BuildsAssumption == MaxBuilds \in Nat

VARIABLES
  registry,   \* the modules of the target registry, by id
  builds,     \* calls so far
  pc,         \* "idle", then the stages of a call, "returned", "none" or "raised"
  config,     \* of the call
  before,     \* the target registry when the call began
  fetched,    \* load_spec has been called
  scanned,    \* what the scanner returned, by id
  modules,    \* the local of that name, by id
  unwritten,  \* the ids the writer has still to handle
  skipped,    \* ids the log says are skipped
  errors,     \* ids the log says failed to register
  announced   \* ids the unapproved-write warning stands for

callVars == <<config, before, fetched, scanned, modules, unwritten>>
logVars == <<skipped, errors, announced>>
vars == <<registry, builds, pc, callVars, logVars>>

Empty == [id \in {} |-> 0]
HostModule == [origin |-> "host", write |-> FALSE, gated |-> FALSE, text |-> "own"]
NoConfig == [shape |-> "absent", spec |-> "absent", prefix |-> "absent",
             base |-> FALSE, ack |-> "absent", fresh |-> FALSE, other |-> FALSE]
Entry(op) == [origin |-> "proxy", write |-> op.write, gated |-> op.gated, text |-> op.text]

-----------------------------------------------------------------------------
(* Reading the configuration *)

(* A slip: the value is coerced with bool(). *)
AsBoolCoercing(raw) == raw \in {"true", "string"}

AsBool(raw) == raw = "true"

(* A section is read through _as_bool; a direct call is taken at its word, *)
(* and anything but an empty string is true.                               *)
Acknowledged(c) == AsBool(c.ack) \/ (c.shape = "direct" /\ c.ack = "string")

(* A slip: only a missing prefix is refused. *)
NeedsPrefixUnlessSet(c) == c.other /\ c.prefix = "absent"

NeedsPrefix(c) == c.other /\ c.prefix \in {"absent", "empty"}

(* A slip: only a missing description is repaired. *)
UndescribedIfAbsent(op) == op.text = "absent"

Undescribed(op) == op.text \in {"absent", "blank"}

(* "{METHOD} {path}", or what there is of it, or the id: never blank. *)
Synthesized(op) == [op EXCEPT !.text = "own"]

HasIllegalSegment(id) == id \in IllegalIds

(* resolve_spec_location: a blank text resolves to nothing and is never    *)
(* joined to the project root; a document is not a location.               *)
Resolved(c) == IF c.spec \in {"absent", "blank"} THEN "nothing" ELSE c.spec

-----------------------------------------------------------------------------

Raise ==
  /\ pc' = "raised"
  /\ UNCHANGED <<registry, builds, callVars, logVars>>

Stage(from, to) ==
  /\ pc = from /\ pc' = to
  /\ UNCHANGED <<registry, builds, logVars>>

(* The locals and the log of a call are its own. *)
ClearLocals ==
  /\ fetched' = FALSE
  /\ scanned' = Empty /\ modules' = Empty /\ unwritten' = {}
  /\ skipped' = {} /\ errors' = {} /\ announced' = {}

(* The caller has what the call returned or raised. *)
Forget ==
  /\ pc \in {"returned", "none", "raised"} /\ pc' = "idle"
  /\ config' = NoConfig /\ before' = Empty /\ ClearLocals
  /\ UNCHANGED <<registry, builds>>

(* The host registers a module of its own, between two calls. *)
HostRegister(id) ==
  /\ pc = "idle" /\ builds < MaxBuilds
  /\ id \in LegalIds \ DOMAIN registry
  /\ registry' = [i \in DOMAIN registry \cup {id} |->
                    IF i = id THEN HostModule ELSE registry[i]]
  /\ UNCHANGED <<builds, pc, callVars, logVars>>

(* build_openapi_backend_from_config: no section is an ordinary outcome, a *)
(* section of the wrong shape or without a spec is not.                    *)
Call(c) ==
  /\ pc = "idle" /\ builds < MaxBuilds
  /\ builds' = builds + 1
  /\ config' = c
  /\ registry' = IF c.fresh THEN Empty ELSE registry
  /\ before' = registry'
  /\ ClearLocals
  /\ pc' = CASE c.shape = "absent" -> "none"
             [] c.shape = "scalar" -> "raised"
             [] c.shape = "mapping" /\ c.spec \in {"absent", "blank"} -> "raised"
             [] OTHER -> "called"

(* Checked first, before any fetch or scan. *)
RefuseWithoutPrefix ==
  /\ pc = "called" /\ NeedsPrefix(config)
  /\ Raise

RefuseWithoutSpec ==
  /\ pc = "called" /\ ~NeedsPrefix(config) /\ Resolved(config) = "nothing"
  /\ Raise

Load ==
  /\ ~NeedsPrefix(config) /\ Resolved(config) # "nothing"
  /\ Stage("called", "loaded")
  /\ fetched' = (Resolved(config) = "location")
  /\ UNCHANGED <<config, before, scanned, modules, unwritten>>

LoadFails ==
  /\ pc = "called" /\ ~NeedsPrefix(config) /\ Resolved(config) = "location"
  /\ fetched' = TRUE
  /\ pc' = "raised"
  /\ UNCHANGED <<registry, builds, config, before, scanned, modules, unwritten, logVars>>

(* OpenAPIScanner.scan, its hooks included: ids are unique in one scan. *)
Scan ==
  /\ Stage("loaded", "scanned")
  /\ \E ids \in SUBSET (LegalIds \cup IllegalIds) : scanned' \in [ids -> Operations]
  /\ UNCHANGED <<config, before, fetched, modules, unwritten>>

(* It, or a hook of the caller's, rejects the document. *)
ScanFails ==
  /\ pc = "loaded"
  /\ Raise

(* The loop over scanned, and the warnings after it: illegal ids are       *)
(* skipped, missing descriptions synthesized as "{METHOD} {path}".         *)
Repair ==
  /\ pc = "scanned" /\ pc' = "repaired"
  /\ modules' = [id \in {i \in DOMAIN scanned : ~HasIllegalSegment(i)} |->
                   IF Undescribed(scanned[id])
                     THEN Synthesized(scanned[id]) ELSE scanned[id]]
  /\ skipped' = {id \in DOMAIN scanned : HasIllegalSegment(id)}
  /\ UNCHANGED <<registry, builds, config, before, fetched, scanned, unwritten, errors, announced>>

Collisions == DOMAIN modules \cap DOMAIN registry

RefuseCollisions ==
  /\ pc = "repaired" /\ Collisions # {}
  /\ Raise

(* A slip: the ids are left to the writer to compare. *)
PreflightNothing ==
  /\ Stage("repaired", "preflighted")
  /\ UNCHANGED callVars

Preflight ==
  /\ Collisions = {}
  /\ Stage("repaired", "preflighted")
  /\ UNCHANGED callVars

(* base_url or servers[0].url; the document may have none that is usable. *)
RefuseWithoutBase ==
  /\ pc = "preflighted" /\ ~config.base
  /\ Raise

StartWriting ==
  /\ config.base
  /\ Stage("preflighted", "writing")
  /\ unwritten' = DOMAIN modules
  /\ UNCHANGED <<config, before, fetched, scanned, modules>>

(* The writer reports per module and never aborts; it registers nothing    *)
(* under an id that is taken.                                              *)
CanWrite(id) == modules[id].proxy /\ id \notin DOMAIN registry

WriteModule(id) ==
  /\ pc = "writing" /\ id \in unwritten /\ CanWrite(id)
  /\ registry' = [i \in DOMAIN registry \cup {id} |->
                    IF i = id THEN Entry(modules[id]) ELSE registry[i]]
  /\ unwritten' = unwritten \ {id}
  /\ UNCHANGED <<builds, pc, config, before, fetched, scanned, modules, logVars>>

(* A slip: a WriteResult is not looked at. *)
FailModuleQuietly(id) ==
  /\ pc = "writing" /\ id \in unwritten /\ ~CanWrite(id)
  /\ unwritten' = unwritten \ {id}
  /\ UNCHANGED <<registry, builds, pc, config, before, fetched, scanned, modules, logVars>>

FailModule(id) ==
  /\ pc = "writing" /\ id \in unwritten /\ ~CanWrite(id)
  /\ errors' = errors \cup {id}
  /\ unwritten' = unwritten \ {id}
  /\ UNCHANGED <<registry, builds, pc, config, before, fetched, scanned, modules,
                 skipped, announced>>

Unapproved == {id \in DOMAIN modules : modules[id].write /\ ~modules[id].gated}

WarnUnapprovedWrites ==
  /\ pc = "writing" /\ unwritten = {}
  /\ pc' = "returned"
  /\ announced' = IF Acknowledged(config) THEN {} ELSE Unapproved
  /\ UNCHANGED <<registry, builds, callVars, skipped, errors>>

-----------------------------------------------------------------------------

Init ==
  /\ registry = Empty /\ builds = 0 /\ pc = "idle"
  /\ config = NoConfig
  /\ before = Empty /\ fetched = FALSE
  /\ scanned = Empty /\ modules = Empty /\ unwritten = {}
  /\ skipped = {} /\ errors = {} /\ announced = {}

Rest == pc = "idle" /\ builds = MaxBuilds /\ UNCHANGED vars

(* A call, from its first check to what it returns or raises. *)
Build ==
  \/ \E id \in LegalIds : WriteModule(id) \/ FailModule(id)
  \/ RefuseWithoutPrefix \/ RefuseWithoutSpec \/ Load \/ LoadFails
  \/ Scan \/ ScanFails \/ Repair
  \/ RefuseCollisions \/ Preflight \/ RefuseWithoutBase \/ StartWriting
  \/ WarnUnapprovedWrites

Next ==
  \/ \E id \in LegalIds : HostRegister(id)
  \/ \E c \in Configs : Call(c)
  \/ Build \/ Forget \/ Rest

Spec == Init /\ [][Next]_vars

-----------------------------------------------------------------------------
(* Properties *)

(* The types.  A proxy module always has a description, so no card filter  *)
(* drops it in silence.                                                    *)
Entries == [origin : {"host"}, write : {FALSE}, gated : {FALSE}, text : {"own"}]
             \cup [origin : {"proxy"}, write : BOOLEAN, gated : BOOLEAN, text : {"own"}]

TypeOK ==
  /\ DOMAIN registry \subseteq LegalIds
  /\ \A id \in DOMAIN registry : registry[id] \in Entries
  /\ builds \in 0 .. MaxBuilds
  /\ pc \in {"idle", "called", "loaded", "scanned", "repaired", "preflighted",
             "writing", "returned", "none", "raised"}
  /\ config \in Configs \cup {NoConfig}
  /\ DOMAIN before \subseteq LegalIds
  /\ DOMAIN modules \subseteq DOMAIN scanned
  /\ unwritten \subseteq DOMAIN modules
  /\ skipped \subseteq IllegalIds
  /\ errors \cup announced \subseteq LegalIds

(* A call that raises leaves the registry as it found it, and one that     *)
(* returns has every scanned operation in it that the writer can build: a  *)
(* module the host has under the same id never costs one of them           *)
(* ("Nothing was registered"; "leave a partial registry").                 *)
AllOrNothing ==
  /\ pc = "raised" => registry = before
  /\ pc = "returned" =>
       \A id \in DOMAIN scanned \cap LegalIds : scanned[id].proxy =>
         id \in DOMAIN registry /\ registry[id].origin = "proxy" /\ id \notin DOMAIN before

(* Every scanned operation is accounted for: registered by this call,      *)
(* skipped with a warning, or logged as failed.                            *)
EveryOperationAccounted ==
  pc = "returned" =>
    DOMAIN scanned = (DOMAIN registry \ DOMAIN before) \cup skipped \cup errors

(* An ungated write operation is on the registry without a warning only if *)
(* the operator acknowledged it with a real boolean: the string "false" of *)
(* an environment variable is none (_as_bool).  A host program that passes *)
(* a string where openapi_backend() is declared to take a bool is outside  *)
(* this promise: the string silences the warning.                          *)
UnapprovedWritesAnnounced ==
  pc = "returned" /\ config.ack # "true"
    /\ ~(config.shape = "direct" /\ config.ack = "string") =>
    \A id \in DOMAIN registry \ DOMAIN before :
      registry[id].write /\ ~registry[id].gated => id \in announced
=============================================================================
