---------------------------- MODULE StartupProofs ----------------------------
(***************************************************************************)
(* The OpenAPI backend, and the start-up around it, for any module ids,    *)
(* operations, command lines and sections, and any number of builds.       *)
(*                                                                         *)
(* A build touches the registry only in its last stage.  Until then the    *)
(* registry is what it was (Untouched), and the preflight has made sure    *)
(* that what will be written and what was there are disjoint; from then on *)
(* every module is either still to write, in the registry or among the     *)
(* errors (Accounts).  Every step of the start-up is a step of the backend *)
(* or leaves it alone, so all of this holds of a starting server.          *)
(***************************************************************************)
EXTENDS Startup, TLAPS

Modules == [write : BOOLEAN, gated : BOOLEAN, text : {"own"}, proxy : BOOLEAN]

(* The locals of a call. *)
LocalTypes ==
  /\ DOMAIN scanned \subseteq LegalIds \cup IllegalIds
  /\ \A id \in DOMAIN scanned : scanned[id] \in OperationSpace
  /\ DOMAIN modules \subseteq LegalIds
  /\ \A id \in DOMAIN modules : modules[id] \in Modules

(* What is repaired is the legal part of what was scanned. *)
ModulesAreScanned ==
  pc \in {"repaired", "preflighted", "writing", "returned"} =>
    /\ DOMAIN modules = DOMAIN scanned \ IllegalIds
    /\ skipped = DOMAIN scanned \cap IllegalIds
    /\ \A id \in DOMAIN modules : modules[id].proxy = scanned[id].proxy

Untouched ==
  /\ pc \in {"called", "loaded", "scanned", "repaired", "preflighted"} =>
       registry = before /\ errors = {} /\ unwritten = {}
  /\ pc \in {"called", "loaded", "scanned"} => DOMAIN modules = {}
  /\ pc = "raised" => registry = before
  /\ pc = "preflighted" => DOMAIN modules \cap DOMAIN before = {}

Accounts ==
  /\ pc \in {"writing", "returned"} =>
       /\ DOMAIN before \subseteq DOMAIN registry
       /\ DOMAIN modules \cap DOMAIN before = {}
       /\ unwritten \cap DOMAIN registry = {}
       /\ DOMAIN modules \ unwritten = (DOMAIN registry \ DOMAIN before) \cup errors
       /\ \A id \in DOMAIN registry \ DOMAIN before : registry[id] = Entry(modules[id])
       /\ \A id \in errors : ~modules[id].proxy
  /\ pc = "returned" => unwritten = {} /\ (~Acknowledged(config) => announced = Unapproved)

(* Nothing is fetched before the check of the prefix. *)
FetchedWithPrefix == fetched => ~NeedsPrefix(config)

BInv == /\ TypeOK /\ LocalTypes /\ ModulesAreScanned /\ Untouched /\ Accounts
        /\ FetchedWithPrefix

-----------------------------------------------------------------------------
(* One build *)

LEMMA EmptyDomain == DOMAIN Empty = {}
BY DEF Empty

LEMMA InitBInv == Init => BInv
<1>1. SUFFICES ASSUME Init PROVE BInv
  OBVIOUS
<1>2. /\ DOMAIN registry = {} /\ DOMAIN before = {} /\ DOMAIN scanned = {}
      /\ DOMAIN modules = {} /\ unwritten = {} /\ skipped = {} /\ errors = {}
      /\ announced = {} /\ pc = "idle" /\ config = NoConfig /\ builds = 0 /\ ~fetched
  BY <1>1, EmptyDomain DEF Init
<1>3. TypeOK
  BY <1>2, BuildsAssumption DEF TypeOK
<1>4. LocalTypes /\ ModulesAreScanned /\ Untouched /\ Accounts /\ FetchedWithPrefix
  BY <1>2 DEF LocalTypes, ModulesAreScanned, Untouched, Accounts, FetchedWithPrefix
<1>5. QED
  BY <1>3, <1>4 DEF BInv

(* Whatever empties the locals of a call leaves only its start to check.   *)
LEMMA FreshCall ==
  ASSUME ClearLocals, pc' \in {"idle", "none", "raised", "called"},
         DOMAIN registry' \subseteq LegalIds, \A id \in DOMAIN registry' : registry'[id] \in Entries,
         builds' \in 0 .. MaxBuilds, config' \in Configs \cup {NoConfig},
         DOMAIN before' \subseteq LegalIds, pc' # "idle" => registry' = before'
  PROVE  BInv'
<1>1. /\ DOMAIN scanned' = {} /\ DOMAIN modules' = {} /\ unwritten' = {} /\ skipped' = {}
      /\ errors' = {} /\ announced' = {} /\ ~fetched'
  BY EmptyDomain DEF ClearLocals
<1>2. TypeOK'
  BY <1>1 DEF TypeOK
<1>3. LocalTypes' /\ ModulesAreScanned' /\ Untouched' /\ Accounts' /\ FetchedWithPrefix'
  BY <1>1 DEF LocalTypes, ModulesAreScanned, Untouched, Accounts, FetchedWithPrefix
<1>4. QED
  BY <1>2, <1>3 DEF BInv

LEMMA CallPreserves ==
  ASSUME BInv, NEW c \in Configs, Call(c)
  PROVE  BInv'
<1>1. /\ ClearLocals /\ builds' = builds + 1 /\ builds < MaxBuilds /\ config' = c
      /\ before' = registry' /\ registry' = (IF c.fresh THEN Empty ELSE registry)
  BY DEF Call
<1>2. pc' \in {"none", "raised", "called"}
  BY DEF Call
<1>3. DOMAIN registry' \subseteq LegalIds /\ \A id \in DOMAIN registry' : registry'[id] \in Entries
  BY <1>1, EmptyDomain DEF BInv, TypeOK
<1>4. builds' \in 0 .. MaxBuilds
  BY <1>1, BuildsAssumption DEF BInv, TypeOK
<1>5. QED
  BY <1>1, <1>2, <1>3, <1>4, FreshCall

LEMMA ForgetPreserves ==
  ASSUME BInv, Forget
  PROVE  BInv'
<1>1. /\ ClearLocals /\ pc' = "idle" /\ config' = NoConfig /\ before' = Empty
      /\ UNCHANGED <<registry, builds>>
  BY DEF Forget
<1>2. QED
  BY <1>1, EmptyDomain, FreshCall DEF BInv, TypeOK

LEMMA HostRegisterPreserves ==
  ASSUME BInv, NEW id \in LegalIds, HostRegister(id)
  PROVE  BInv'
<1>1. /\ pc = "idle" /\ pc' = "idle" /\ DOMAIN registry' = DOMAIN registry \cup {id}
      /\ \A i \in DOMAIN registry' : registry'[i] = HostModule \/ registry'[i] = registry[i]
      /\ \A i \in DOMAIN registry' : i # id => registry'[i] = registry[i]
      /\ registry'[id] = HostModule
      /\ UNCHANGED <<builds, callVars, logVars>>
  BY DEF HostRegister
<1>2. HostModule \in Entries
  BY DEF HostModule, Entries
<1>3. DOMAIN registry' \subseteq LegalIds /\ \A i \in DOMAIN registry' : registry'[i] \in Entries
  BY <1>1, <1>2 DEF BInv, TypeOK
<1>4. TypeOK'
  BY <1>1, <1>3 DEF BInv, TypeOK, callVars, logVars
<1>5. LocalTypes' /\ ModulesAreScanned' /\ Untouched' /\ Accounts' /\ FetchedWithPrefix'
  BY <1>1 DEF BInv, LocalTypes, ModulesAreScanned, Untouched, Accounts, FetchedWithPrefix,
              callVars, logVars
<1>6. QED
  BY <1>4, <1>5 DEF BInv

(* The checks, the scan and the preflight leave the registry alone.        *)
LEMMA ChecksPreserve ==
  ASSUME BInv,
         \/ RefuseWithoutPrefix \/ RefuseWithoutSpec \/ Load \/ LoadFails \/ ScanFails
         \/ RefuseCollisions \/ Preflight \/ RefuseWithoutBase
  PROVE  BInv'
<1>1. ASSUME Raise, pc \in {"called", "loaded", "repaired", "preflighted"}
      PROVE  BInv'
  <2>1. pc' = "raised" /\ UNCHANGED <<registry, builds, callVars, logVars>>
    BY <1>1 DEF Raise
  <2>2. TypeOK'
    BY <2>1 DEF BInv, TypeOK, callVars, logVars
  <2>3. LocalTypes' /\ ModulesAreScanned' /\ Untouched' /\ Accounts' /\ FetchedWithPrefix'
    BY <1>1, <2>1 DEF BInv, LocalTypes, ModulesAreScanned, Untouched, Accounts,
                      FetchedWithPrefix, callVars, logVars
  <2>4. QED
    BY <2>2, <2>3 DEF BInv
<1>2. CASE \/ RefuseWithoutPrefix \/ RefuseWithoutSpec \/ ScanFails \/ RefuseCollisions
           \/ RefuseWithoutBase
  BY <1>1, <1>2 DEF RefuseWithoutPrefix, RefuseWithoutSpec, ScanFails, RefuseCollisions,
                    RefuseWithoutBase
<1>3. CASE Load \/ LoadFails
  <2>1. /\ pc = "called" /\ pc' \in {"loaded", "raised"} /\ ~NeedsPrefix(config)
        /\ UNCHANGED <<registry, builds, config, before, scanned, modules, unwritten, logVars>>
    BY <1>3 DEF Load, LoadFails, Stage
  <2>2. TypeOK'
    BY <2>1 DEF BInv, TypeOK, logVars
  <2>3. FetchedWithPrefix'
    BY <2>1 DEF FetchedWithPrefix, NeedsPrefix
  <2>4. LocalTypes' /\ ModulesAreScanned' /\ Untouched' /\ Accounts'
    BY <2>1 DEF BInv, LocalTypes, ModulesAreScanned, Untouched, Accounts, logVars
  <2>5. QED
    BY <2>2, <2>3, <2>4 DEF BInv
<1>4. CASE Preflight
  <2>1. /\ pc = "repaired" /\ pc' = "preflighted" /\ Collisions = {}
        /\ UNCHANGED <<registry, builds, callVars, logVars>>
    BY <1>4 DEF Preflight, Stage
  <2>2. TypeOK'
    BY <2>1 DEF BInv, TypeOK, callVars, logVars
  <2>3. LocalTypes' /\ ModulesAreScanned' /\ Untouched' /\ Accounts' /\ FetchedWithPrefix'
    BY <2>1 DEF BInv, LocalTypes, ModulesAreScanned, Untouched, Accounts, Collisions,
                FetchedWithPrefix, callVars, logVars
  <2>4. QED
    BY <2>2, <2>3 DEF BInv
<1>5. QED
  BY <1>2, <1>3, <1>4

LEMMA ScanPreserves ==
  ASSUME BInv, Scan
  PROVE  BInv'
<1>1. /\ pc = "loaded" /\ pc' = "scanned"
      /\ UNCHANGED <<registry, builds, config, before, fetched, modules, unwritten, logVars>>
  BY DEF Scan, Stage
<1>2. PICK ids \in SUBSET (LegalIds \cup IllegalIds) : scanned' \in [ids -> Operations]
  BY DEF Scan
<1>3. /\ DOMAIN scanned' \subseteq LegalIds \cup IllegalIds
      /\ \A id \in DOMAIN scanned' : scanned'[id] \in OperationSpace
  BY <1>2, SpacesAssumption
<1>4. LocalTypes'
  BY <1>1, <1>3 DEF BInv, LocalTypes
<1>5. TypeOK' /\ ModulesAreScanned' /\ Untouched' /\ Accounts' /\ FetchedWithPrefix'
  BY <1>1 DEF BInv, TypeOK, ModulesAreScanned, Untouched, Accounts, FetchedWithPrefix, logVars
<1>6. QED
  BY <1>4, <1>5 DEF BInv

LEMMA RepairPreserves ==
  ASSUME BInv, Repair
  PROVE  BInv'
<1>1. /\ pc = "scanned" /\ pc' = "repaired"
      /\ skipped' = {id \in DOMAIN scanned : id \in IllegalIds}
      /\ UNCHANGED <<registry, builds, config, before, fetched, scanned, unwritten,
                     errors, announced>>
  BY DEF Repair, HasIllegalSegment
<1>2. /\ DOMAIN modules' = DOMAIN scanned \ IllegalIds
      /\ \A id \in DOMAIN modules' :
           modules'[id] = IF Undescribed(scanned[id]) THEN Synthesized(scanned[id])
                                                      ELSE scanned[id]
  BY DEF Repair, HasIllegalSegment
<1>3. ASSUME NEW op \in OperationSpace
      PROVE  LET r == IF Undescribed(op) THEN Synthesized(op) ELSE op
             IN  r \in Modules /\ r.proxy = op.proxy
  BY <1>3 DEF OperationSpace, Modules, Undescribed, Synthesized
<1>4. \A id \in DOMAIN modules' :
        scanned[id] \in OperationSpace /\ modules'[id] \in Modules
          /\ modules'[id].proxy = scanned[id].proxy
  BY <1>2, <1>3 DEF BInv, LocalTypes
<1>5. LocalTypes' /\ ModulesAreScanned'
  BY <1>1, <1>2, <1>4 DEF BInv, LocalTypes, ModulesAreScanned
<1>6. TypeOK'
  BY <1>1, <1>2 DEF BInv, TypeOK, Untouched
<1>7. Untouched' /\ Accounts' /\ FetchedWithPrefix'
  BY <1>1 DEF BInv, Untouched, Accounts, FetchedWithPrefix, NeedsPrefix
<1>8. QED
  BY <1>5, <1>6, <1>7 DEF BInv

(* The writing stage *)
LEMMA StartWritingPreserves ==
  ASSUME BInv, StartWriting
  PROVE  BInv'
<1>1. /\ pc = "preflighted" /\ pc' = "writing" /\ unwritten' = DOMAIN modules
      /\ UNCHANGED <<registry, builds, config, before, fetched, scanned, modules, logVars>>
  BY DEF StartWriting, Stage
<1>2. TypeOK' /\ LocalTypes' /\ ModulesAreScanned' /\ Untouched' /\ FetchedWithPrefix'
  BY <1>1 DEF BInv, TypeOK, LocalTypes, ModulesAreScanned, Untouched, FetchedWithPrefix,
              NeedsPrefix, logVars
<1>3. /\ registry' = before' /\ errors' = {} /\ DOMAIN modules' \cap DOMAIN before' = {}
  BY <1>1 DEF BInv, Untouched, logVars
<1>4. Accounts'
  BY <1>1, <1>3 DEF Accounts
<1>5. QED
  BY <1>2, <1>4 DEF BInv

LEMMA WriteModulePreserves ==
  ASSUME BInv, NEW id \in LegalIds, WriteModule(id)
  PROVE  BInv'
<1>1. /\ pc = "writing" /\ id \in unwritten /\ id \in DOMAIN modules /\ id \notin DOMAIN registry
      /\ unwritten' = unwritten \ {id}
      /\ UNCHANGED <<builds, pc, config, before, fetched, scanned, modules, logVars>>
  BY DEF WriteModule, CanWrite, BInv, TypeOK
<1>2. /\ DOMAIN registry' = DOMAIN registry \cup {id} /\ registry'[id] = Entry(modules[id])
      /\ \A i \in DOMAIN registry : registry'[i] = registry[i]
  BY <1>1 DEF WriteModule
<1>3. Entry(modules[id]) \in Entries
  BY <1>1 DEF BInv, LocalTypes, Modules, Entry, Entries
<1>4. TypeOK'
  BY <1>1, <1>2, <1>3 DEF BInv, TypeOK, logVars
<1>5. LocalTypes' /\ ModulesAreScanned' /\ Untouched' /\ FetchedWithPrefix'
  BY <1>1 DEF BInv, LocalTypes, ModulesAreScanned, Untouched, FetchedWithPrefix, NeedsPrefix,
              logVars
<1>6. id \notin DOMAIN before
  BY <1>1 DEF BInv, Accounts
<1>7. Accounts'
  <2>1. DOMAIN before' \subseteq DOMAIN registry' /\ DOMAIN modules' \cap DOMAIN before' = {}
        /\ unwritten' \cap DOMAIN registry' = {}
    BY <1>1, <1>2 DEF BInv, Accounts
  <2>2. DOMAIN modules' \ unwritten' = (DOMAIN registry' \ DOMAIN before') \cup errors'
    BY <1>1, <1>2, <1>6 DEF BInv, Accounts, logVars
  <2>3. \A i \in DOMAIN registry' \ DOMAIN before' : registry'[i] = Entry(modules'[i])
    BY <1>1, <1>2 DEF BInv, Accounts
  <2>4. \A i \in errors' : ~modules'[i].proxy
    BY <1>1 DEF BInv, Accounts, logVars
  <2>5. QED
    BY <1>1, <2>1, <2>2, <2>3, <2>4 DEF Accounts
<1>8. QED
  BY <1>4, <1>5, <1>7 DEF BInv

LEMMA FailModulePreserves ==
  ASSUME BInv, NEW id \in LegalIds, FailModule(id)
  PROVE  BInv'
<1>1. /\ pc = "writing" /\ id \in unwritten /\ id \in DOMAIN modules /\ ~CanWrite(id)
      /\ unwritten' = unwritten \ {id} /\ errors' = errors \cup {id}
      /\ UNCHANGED <<registry, builds, pc, config, before, fetched, scanned, modules,
                     skipped, announced>>
  BY DEF FailModule, BInv, TypeOK
<1>2. id \notin DOMAIN registry /\ id \notin DOMAIN before /\ ~modules[id].proxy
  BY <1>1 DEF BInv, Accounts, CanWrite
<1>3. TypeOK'
  BY <1>1 DEF BInv, TypeOK
<1>4. LocalTypes' /\ ModulesAreScanned' /\ Untouched' /\ FetchedWithPrefix'
  BY <1>1 DEF BInv, LocalTypes, ModulesAreScanned, Untouched, FetchedWithPrefix, NeedsPrefix
<1>5. DOMAIN modules' \ unwritten' = (DOMAIN registry' \ DOMAIN before') \cup errors'
  BY <1>1, <1>2 DEF BInv, Accounts
<1>6. \A i \in errors' : ~modules'[i].proxy
  BY <1>1, <1>2 DEF BInv, Accounts
<1>7. Accounts'
  BY <1>1, <1>5, <1>6 DEF BInv, Accounts
<1>8. QED
  BY <1>3, <1>4, <1>7 DEF BInv

LEMMA WarnPreserves ==
  ASSUME BInv, WarnUnapprovedWrites
  PROVE  BInv'
<1>1. /\ pc = "writing" /\ pc' = "returned" /\ unwritten = {}
      /\ ~Acknowledged(config) => announced' = Unapproved
      /\ announced' \subseteq DOMAIN modules
      /\ UNCHANGED <<registry, builds, callVars, skipped, errors>>
  BY DEF WarnUnapprovedWrites, Unapproved
<1>2. TypeOK'
  BY <1>1 DEF BInv, TypeOK, LocalTypes, callVars
<1>3. LocalTypes' /\ ModulesAreScanned' /\ Untouched' /\ FetchedWithPrefix'
  BY <1>1 DEF BInv, LocalTypes, ModulesAreScanned, Untouched, FetchedWithPrefix, NeedsPrefix,
              callVars
<1>4. Unapproved' = Unapproved
  BY <1>1 DEF Unapproved, callVars
<1>5. Accounts'
  BY <1>1, <1>4 DEF BInv, Accounts, callVars
<1>6. QED
  BY <1>2, <1>3, <1>5 DEF BInv

LEMMA BackendStep ==
  ASSUME BInv, [Next]_vars
  PROVE  BInv'
<1>1. CASE UNCHANGED vars
  BY <1>1 DEF BInv, TypeOK, LocalTypes, ModulesAreScanned, Untouched, Accounts,
       Unapproved, FetchedWithPrefix, NeedsPrefix, vars, callVars, logVars
<1>2. CASE Build
  BY <1>2, ChecksPreserve, ScanPreserves, RepairPreserves, StartWritingPreserves,
     WriteModulePreserves, FailModulePreserves, WarnPreserves DEF Build
<1>3. QED
  BY <1>1, <1>2, HostRegisterPreserves, CallPreserves, ForgetPreserves DEF Next, Rest

-----------------------------------------------------------------------------
(* The start-up *)

Servers == [auth : {"none", "jwt", "own"}, key : {"none", "file", "text", "secret"},
            timeout : {"none", "explicit", "env", "file", "default"}, modules : SUBSET LegalIds]

Requests == [auth : {"none", "bearer", "valid", "incomplete", "refusing"}, key : Keys,
             secret : {"absent", "text"}, explicit : {"absent", "number"},
             env : {"absent", "number", "text"}, file : {"none", "absent", "number", "text"}]

Stages == {"parsed", "configured", "building", "built", "host", "serving", "resolved",
           "checked", "valid", "running", "over"}

StartTypes ==
  /\ entry \in {"cli", "host"}
  /\ args \in Arguments \cup {NoArguments} /\ section \in Sections \cup {NoSection}
  /\ entry = "cli" => args \in Arguments /\ section \in Sections
  /\ stage \in Stages
  /\ stage = "configured" => entry = "cli" /\ Configured(args, section)
  /\ stage = "host" => entry = "host"
  /\ stage = "parsed" => entry = "cli"
  /\ asked \in Requests /\ server \in Servers
  /\ stage \in {"checked", "valid", "running"} => server.modules # {}
  /\ (exit # "none") = (stage = "over")

(* What the command line gives the backend is what it was given. *)
ConfigIsGiven ==
  entry = "cli" => config \in {NoConfig, ConfigOf(args, section)}

(* What is asked for is not set before its step, and kept after it. *)
AuthIsKept ==
  /\ stage \in {"parsed", "configured", "building", "built", "host"} =>
       asked.auth = "none" /\ asked.key = "absent" /\ server.auth = "none"
  /\ stage \in {"serving", "resolved", "checked", "valid", "running"} =>
       /\ (server.auth = "none") = (asked.auth = "none")
       /\ server.auth = "own" => asked.auth \in {"valid", "incomplete", "refusing"}
       /\ server.auth = "jwt" =>
            /\ asked.auth = "bearer"
            /\ server.key = IF asked.key = "absent" THEN "secret" ELSE asked.key
  /\ stage \in {"valid", "running"} => asked.auth # "incomplete"
  /\ stage = "running" => asked.auth # "refusing"

TimeoutIsResolved ==
  stage \in {"resolved", "checked", "valid", "running"} => server.timeout = TimeoutTier(asked)

SInv == BInv /\ StartTypes /\ ConfigIsGiven /\ AuthIsKept /\ TimeoutIsResolved

(* Every step of the start-up is a step of the backend or none of it.      *)
LEMMA StepIsBackendStep ==
  ASSUME StartTypes, [StartNext]_<<vars, startVars>>
  PROVE  [Next]_vars
<1>1. CASE BuildFromConfig
  <2>1. args \in Arguments /\ section \in Sections /\ Configured(args, section)
    BY <1>1 DEF BuildFromConfig, Advance, StartTypes
  <2>2. ConfigOf(args, section) \in Configs
    BY <2>1, ConfigsAssumption
  <2>3. QED
    BY <1>1, <2>2 DEF BuildFromConfig, Next
<1>2. CASE BackendReturned
  BY <1>2 DEF BackendReturned, Next
<1>3. CASE HostBuild
  BY <1>3, ConfigsAssumption DEF HostBuild, Next
<1>4. CASE Build
  BY <1>4 DEF Next
<1>5. CASE \/ RefuseHeader \/ UsageError \/ RefuseDirectory \/ OpenRegistry \/ BackendError
           \/ AssertionError \/ NoModules \/ WithoutAuth \/ KeyIsADirectory
  BY <1>5 DEF RefuseHeader, UsageError, RefuseDirectory, OpenRegistry, BackendError,
     AssertionError, NoModules, WithoutAuth, KeyIsADirectory, End
<1>6. ASSUME NEW key \in Keys, NEW secret \in {"absent", "text"},
             BuildAuth(key, secret) \/ RefuseKey(key, secret)
      PROVE  UNCHANGED vars
  BY <1>6 DEF BuildAuth, RefuseKey, End
<1>7. ASSUME NEW auth, HostServe(auth) PROVE UNCHANGED vars
  BY <1>7 DEF HostServe
<1>8. CASE Serve
  BY <1>8 DEF Serve, ResolveTimeout, TimeoutIsNoNumber, ResolveObject, RefuseObject, Validate,
     RefuseAuth, RefuseStore, Create, SchemesRaise, ServerFails, Interrupt, ServeRaises, End
<1>9. CASE Over \/ UNCHANGED <<vars, startVars>>
  BY <1>9 DEF Over
<1>10. QED
  BY <1>1, <1>2, <1>3, <1>4, <1>5, <1>6, <1>7, <1>8, <1>9 DEF StartNext, CommandLine, Host

LEMMA StartTypesInductive ==
  ASSUME StartTypes, [StartNext]_<<vars, startVars>>
  PROVE  StartTypes'
<1>1. ASSUME NEW code \in {"0", "1", "2", "raised"}, End(code) PROVE StartTypes'
  BY <1>1 DEF End, given, StartTypes, Stages
<1>2. CASE \/ RefuseHeader \/ UsageError \/ RefuseDirectory \/ BackendError
           \/ AssertionError \/ NoModules \/ KeyIsADirectory \/ RefuseObject \/ RefuseAuth
           \/ RefuseStore \/ SchemesRaise \/ ServerFails \/ Interrupt
  BY <1>1, <1>2 DEF RefuseHeader, UsageError, RefuseDirectory, BackendError, AssertionError,
     NoModules, KeyIsADirectory, RefuseObject, RefuseAuth, RefuseStore, SchemesRaise,
     ServerFails, Interrupt, ServeRaises
<1>3. CASE OpenRegistry \/ BuildFromConfig \/ BackendReturned
  <2>1. stage' \in {"configured", "building", "built"} /\ stage # "over"
    BY <1>3 DEF OpenRegistry, BuildFromConfig, BackendReturned, Advance
  <2>2. stage' = "configured" => Configured(args, section) /\ stage = "parsed"
    BY <1>3 DEF OpenRegistry, BuildFromConfig, BackendReturned, Advance
  <2>3. UNCHANGED <<entry, args, section, asked, server, exit>>
    BY <1>3 DEF OpenRegistry, BuildFromConfig, BackendReturned, Advance, given
  <2>4. QED
    BY <2>1, <2>2, <2>3 DEF StartTypes, Stages
<1>4. CASE WithoutAuth \/ Validate \/ Create
  BY <1>4 DEF WithoutAuth, Validate, Create, Advance, given, StartTypes, Stages
<1>5. ASSUME NEW key \in Keys, NEW secret \in {"absent", "text"}, BuildAuth(key, secret)
      PROVE  StartTypes'
  <2>1. asked' \in Requests
    BY <1>5 DEF BuildAuth, StartTypes, Requests
  <2>2. ResolveAuthKey(key, secret) \in {"file", "text", "secret"}
    BY <1>5 DEF BuildAuth, ResolveAuthKey, Keys
  <2>3. server' \in Servers
    BY <1>5, <2>2 DEF BuildAuth, StartTypes, Servers
  <2>4. QED
    BY <1>5, <2>1, <2>3 DEF BuildAuth, Advance, given, StartTypes, Stages
<1>6. ASSUME NEW key \in Keys, NEW secret \in {"absent", "text"}, RefuseKey(key, secret)
      PROVE  StartTypes'
  BY <1>1, <1>6 DEF RefuseKey
<1>7. ASSUME NEW auth \in {"none", "valid", "incomplete", "refusing"}, HostServe(auth)
      PROVE  StartTypes'
  <2>1. asked' \in Requests /\ server' \in Servers
    BY <1>7 DEF HostServe, StartTypes, Requests, Servers
  <2>2. QED
    BY <1>7, <2>1 DEF HostServe, Advance, given, StartTypes, Stages
<1>8. ASSUME NEW env \in {"absent", "number", "text"},
             NEW file \in {"none", "absent", "number", "text"},
             NEW explicit \in {"absent", "number"}, ResolveTimeout(explicit, env, file)
      PROVE  StartTypes'
  <2>1. asked' \in Requests /\ server' = [server EXCEPT !.timeout = TimeoutTier(asked')]
    BY <1>8 DEF ResolveTimeout, StartTypes, Requests
  <2>2. TimeoutTier(asked') \in {"explicit", "env", "file", "default"}
    BY DEF TimeoutTier, ConfigTier
  <2>3. server' \in Servers
    BY <2>1, <2>2 DEF StartTypes, Servers
  <2>4. QED
    BY <1>8, <2>1, <2>3 DEF ResolveTimeout, Advance, given, StartTypes, Stages
<1>9. ASSUME NEW env, NEW file, TimeoutIsNoNumber(env, file) PROVE StartTypes'
  BY <1>1, <1>9 DEF TimeoutIsNoNumber, ServeRaises
<1>10. ASSUME NEW ids \in SUBSET LegalIds, ResolveObject(ids) PROVE StartTypes'
  <2>1. server' \in Servers /\ server'.modules = ids /\ ids # {}
    BY <1>10 DEF ResolveObject, StartTypes, Servers
  <2>2. QED
    BY <1>10, <2>1 DEF ResolveObject, Advance, given, StartTypes, Stages
<1>11. CASE UNCHANGED startVars
  BY <1>11 DEF startVars, given, StartTypes
<1>12. QED
  BY <1>2, <1>3, <1>4, <1>5, <1>6, <1>7, <1>8, <1>9, <1>10, <1>11
     DEF StartNext, CommandLine, Host, HostBuild, Serve, Over

LEMMA ConfigInductive ==
  ASSUME StartTypes, ConfigIsGiven, [StartNext]_<<vars, startVars>>
  PROVE  ConfigIsGiven'
<1>1. UNCHANGED <<args, section, entry>>
  BY DEF StartNext, CommandLine, Host, Serve, Over, RefuseHeader, UsageError, RefuseDirectory,
     OpenRegistry, BuildFromConfig, BackendError, BackendReturned, AssertionError, NoModules,
     WithoutAuth, KeyIsADirectory, BuildAuth, RefuseKey, HostBuild, HostServe, ResolveTimeout,
     TimeoutIsNoNumber, ResolveObject, RefuseObject, Validate, RefuseAuth, RefuseStore, Create,
     SchemesRaise, ServerFails, Interrupt, ServeRaises, End, Advance, startVars, given
<1>2. CASE BuildFromConfig
  BY <1>1, <1>2 DEF BuildFromConfig, Call, ConfigIsGiven
<1>3. CASE BackendReturned
  BY <1>1, <1>3 DEF BackendReturned, Forget, ConfigIsGiven
<1>4. CASE HostBuild
  BY <1>1, <1>4 DEF HostBuild, StartTypes, ConfigIsGiven
<1>5. CASE UNCHANGED config
  BY <1>1, <1>5 DEF ConfigIsGiven
<1>6. CASE Build
  BY <1>5, <1>6 DEF Build, Raise, Stage, RefuseWithoutPrefix, RefuseWithoutSpec, Load, LoadFails,
     Scan, ScanFails, Repair, RefuseCollisions, Preflight, RefuseWithoutBase, StartWriting, WriteModule,
     FailModule, WarnUnapprovedWrites, callVars
<1>7. CASE UNCHANGED vars
  BY <1>5, <1>7 DEF vars, callVars
<1>8. QED
  BY <1>2, <1>3, <1>4, <1>6, <1>7
     DEF StartNext, CommandLine, Host, Serve, Over, RefuseHeader, UsageError, RefuseDirectory,
     OpenRegistry, BackendError, AssertionError, NoModules,
     WithoutAuth, KeyIsADirectory, BuildAuth, RefuseKey, HostServe, ResolveTimeout,
     TimeoutIsNoNumber, ResolveObject, RefuseObject, Validate, RefuseAuth, RefuseStore, Create,
     SchemesRaise, ServerFails, Interrupt, ServeRaises, End

LEMMA AuthInductive ==
  ASSUME StartTypes, AuthIsKept, [StartNext]_<<vars, startVars>>
  PROVE  AuthIsKept'
<1>1. asked \in Requests /\ server \in Servers /\ stage \in Stages
  BY DEF StartTypes
<1>2. ASSUME NEW code, End(code) PROVE AuthIsKept'
  BY <1>2 DEF End, AuthIsKept
<1>3. CASE \/ RefuseHeader \/ UsageError \/ RefuseDirectory \/ BackendError
           \/ AssertionError \/ NoModules \/ KeyIsADirectory \/ RefuseObject \/ RefuseAuth
           \/ RefuseStore \/ SchemesRaise \/ ServerFails \/ Interrupt
  BY <1>2, <1>3 DEF RefuseHeader, UsageError, RefuseDirectory, BackendError, AssertionError,
     NoModules, KeyIsADirectory, RefuseObject, RefuseAuth, RefuseStore, SchemesRaise,
     ServerFails, Interrupt, ServeRaises
<1>4. CASE OpenRegistry \/ BuildFromConfig \/ BackendReturned
  BY <1>4 DEF OpenRegistry, BuildFromConfig, BackendReturned, Advance, AuthIsKept
<1>5. CASE WithoutAuth
  BY <1>5 DEF WithoutAuth, Advance, AuthIsKept
<1>6. CASE Validate \/ Create
  BY <1>6 DEF Validate, Create, Advance, AuthIsKept
<1>7. ASSUME NEW key \in Keys, NEW secret \in {"absent", "text"}, BuildAuth(key, secret)
      PROVE  AuthIsKept'
  <2>1. /\ stage' = "serving" /\ asked'.auth = "bearer" /\ asked'.key = key
        /\ server'.auth = "jwt" /\ server'.key = ResolveAuthKey(key, secret)
    BY <1>1, <1>7 DEF BuildAuth, Advance, Requests, Servers
  <2>2. ResolveAuthKey(key, secret) = IF key = "absent" THEN "secret" ELSE key
    BY <1>7 DEF BuildAuth, ResolveAuthKey, Keys
  <2>3. QED
    BY <2>1, <2>2 DEF AuthIsKept
<1>8. ASSUME NEW auth \in {"none", "valid", "incomplete", "refusing"}, HostServe(auth)
      PROVE  AuthIsKept'
  BY <1>1, <1>8 DEF HostServe, Advance, Requests, Servers, AuthIsKept
<1>9. ASSUME NEW explicit, NEW env, NEW file, ResolveTimeout(explicit, env, file)
      PROVE  AuthIsKept'
  BY <1>1, <1>9 DEF ResolveTimeout, Advance, Requests, Servers, AuthIsKept
<1>10. ASSUME NEW ids, ResolveObject(ids) PROVE AuthIsKept'
  BY <1>1, <1>10 DEF ResolveObject, Advance, Servers, AuthIsKept
<1>11. ASSUME NEW x, NEW y, RefuseKey(x, y) \/ TimeoutIsNoNumber(x, y) PROVE AuthIsKept'
  BY <1>2, <1>11 DEF RefuseKey, TimeoutIsNoNumber, ServeRaises
<1>12. CASE UNCHANGED startVars
  BY <1>12 DEF startVars, AuthIsKept
<1>13. QED
  BY <1>3, <1>4, <1>5, <1>6, <1>7, <1>8, <1>9, <1>10, <1>11, <1>12
     DEF StartNext, CommandLine, Host, HostBuild, Serve, Over

LEMMA TimeoutInductive ==
  ASSUME StartTypes, TimeoutIsResolved, [StartNext]_<<vars, startVars>>
  PROVE  TimeoutIsResolved'
<1>1. asked \in Requests /\ server \in Servers /\ stage \in Stages
  BY DEF StartTypes
<1>2. ASSUME NEW explicit, NEW env, NEW file, ResolveTimeout(explicit, env, file)
      PROVE  TimeoutIsResolved'
  BY <1>1, <1>2 DEF ResolveTimeout, Servers, TimeoutIsResolved
<1>3. ASSUME stage' \in {"configured", "building", "built", "serving", "over"}
      PROVE  TimeoutIsResolved'
  BY <1>3 DEF TimeoutIsResolved
<1>4. CASE CommandLine
  BY <1>3, <1>4 DEF CommandLine, RefuseHeader, UsageError, RefuseDirectory,
     OpenRegistry, BuildFromConfig, BackendError, BackendReturned, AssertionError, NoModules,
     WithoutAuth, KeyIsADirectory, BuildAuth, RefuseKey, End, Advance
<1>5. CASE UNCHANGED startVars
  BY <1>5 DEF startVars, TimeoutIsResolved
<1>6. CASE Host
  BY <1>3, <1>5, <1>6 DEF Host, HostBuild, HostServe, Advance
<1>7. ASSUME NEW x, NEW y, TimeoutIsNoNumber(x, y) PROVE TimeoutIsResolved'
  BY <1>3, <1>7 DEF TimeoutIsNoNumber, ServeRaises, End
<1>8. CASE RefuseObject \/ RefuseAuth \/ RefuseStore \/ SchemesRaise \/ ServerFails \/ Interrupt
  BY <1>3, <1>8 DEF RefuseObject, RefuseAuth, RefuseStore, SchemesRaise, ServerFails, Interrupt,
     ServeRaises, End
<1>9. CASE Validate \/ Create
  BY <1>9 DEF Validate, Create, Advance, TimeoutIsResolved
<1>10. ASSUME NEW ids, ResolveObject(ids) PROVE TimeoutIsResolved'
  BY <1>1, <1>10 DEF ResolveObject, Advance, Servers, TimeoutIsResolved
<1>11. QED
  BY <1>2, <1>4, <1>5, <1>6, <1>7, <1>8, <1>9, <1>10 DEF StartNext, Serve, Over

LEMMA StartInvariant == StartSpec => []SInv
<1>1. StartInit => SInv
  <2>1. SUFFICES ASSUME StartInit PROVE SInv
    OBVIOUS
  <2>2. BInv
    BY <2>1, InitBInv DEF StartInit
  <2>3. asked \in Requests /\ server \in Servers
    BY <2>1 DEF StartInit, NothingAsked, NoServer, Requests, Servers, Keys
  <2>4. StartTypes
    BY <2>1, <2>3 DEF StartInit, StartTypes, Stages
  <2>5. ConfigIsGiven /\ AuthIsKept /\ TimeoutIsResolved
    BY <2>1 DEF StartInit, Init, ConfigIsGiven, AuthIsKept, TimeoutIsResolved, NothingAsked,
                NoServer
  <2>6. QED
    BY <2>2, <2>4, <2>5 DEF SInv
<1>2. SInv /\ [StartNext]_<<vars, startVars>> => SInv'
  BY StepIsBackendStep, BackendStep, StartTypesInductive, ConfigInductive, AuthInductive,
     TimeoutInductive DEF SInv
<1>3. QED
  BY <1>1, <1>2, PTL DEF StartSpec

-----------------------------------------------------------------------------
(* What is proved *)

(* A starting server implements the backend's specification.               *)
THEOREM BackendImplementation == StartSpec => Spec
<1>1. StartInit => Init
  BY DEF StartInit
<1>2. SInv /\ [StartNext]_<<vars, startVars>> => [Next]_vars
  BY StepIsBackendStep DEF SInv
<1>3. QED
  BY <1>1, <1>2, StartInvariant, PTL DEF StartSpec, Spec

(* The types; a server that runs has modules.                              *)
THEOREM StartTypeCorrect == StartSpec => []StartTypeOK
<1>1. SInv => StartTypeOK
  BY DEF SInv, BInv, StartTypes, StartTypeOK, Servers, Stages
<1>2. QED
  BY <1>1, StartInvariant, PTL

(* A call that raises leaves the registry as it was, and one that returns  *)
(* has registered every operation a proxy can be built for.                *)
THEOREM RegistryAllOrNothing == StartSpec => []AllOrNothing
<1>1. BInv => AllOrNothing
  <2>1. SUFFICES ASSUME BInv, pc = "returned", NEW id \in DOMAIN scanned \cap LegalIds,
                        scanned[id].proxy
                 PROVE  /\ id \in DOMAIN registry /\ registry[id].origin = "proxy"
                        /\ id \notin DOMAIN before
    BY DEF BInv, Untouched, AllOrNothing
  <2>2. id \in DOMAIN modules /\ modules[id].proxy
    BY <2>1, IdsAssumption DEF BInv, ModulesAreScanned
  <2>3. id \in DOMAIN registry \ DOMAIN before /\ registry[id] = Entry(modules[id])
    BY <2>1, <2>2 DEF BInv, Accounts
  <2>4. QED
    BY <2>3 DEF Entry
<1>2. QED
  BY <1>1, StartInvariant, PTL DEF SInv

(* Every scanned operation is registered, skipped or an error.             *)
THEOREM NothingGoesMissing == StartSpec => []EveryOperationAccounted
<1>1. BInv => EveryOperationAccounted
  BY DEF BInv, ModulesAreScanned, Accounts, EveryOperationAccounted
<1>2. QED
  BY <1>1, StartInvariant, PTL DEF SInv

(* Without a real acknowledgement every ungated write that is registered   *)
(* is announced.                                                           *)
THEOREM WritesAreAnnounced == StartSpec => []UnapprovedWritesAnnounced
<1>1. BInv => UnapprovedWritesAnnounced
  <2>1. SUFFICES ASSUME BInv, pc = "returned", ~Acknowledged(config),
                        NEW id \in DOMAIN registry \ DOMAIN before,
                        registry[id].write, ~registry[id].gated
                 PROVE  id \in announced
    BY DEF UnapprovedWritesAnnounced, Acknowledged, AsBool
  <2>2. id \in DOMAIN modules /\ registry[id] = Entry(modules[id])
    BY <2>1 DEF BInv, Accounts
  <2>3. modules[id].write /\ ~modules[id].gated
    BY <2>1, <2>2 DEF Entry
  <2>4. QED
    BY <2>1, <2>2, <2>3 DEF BInv, Accounts, Unapproved
<1>2. QED
  BY <1>1, StartInvariant, PTL DEF SInv

(* Beside modules of another source nothing is fetched without a prefix,   *)
(* and the prefix is the flag's or, without the flag, the section's.       *)
THEOREM FetchesAreNamespaced == StartSpec => []NoFetchWithoutNamespace
<1>1. SInv => NoFetchWithoutNamespace
  <2>1. SUFFICES ASSUME SInv, fetched, config.other
                 PROVE  IF entry = "host" THEN config.prefix = "given"
                        ELSE \/ args.prefix = "given"
                             \/ args.prefix = "absent" /\ section.prefix = "given"
    BY DEF NoFetchWithoutNamespace
  <2>2. config.prefix \notin {"absent", "empty"}
    BY <2>1 DEF SInv, BInv, FetchedWithPrefix, NeedsPrefix
  <2>3. config \in ConfigSpace
    BY <2>1, SpacesAssumption DEF SInv, BInv, TypeOK, NoConfig
  <2>4. config.prefix = "given"
    BY <2>2, <2>3 DEF ConfigSpace
  <2>5. CASE entry = "host"
    BY <2>4, <2>5
  <2>6. CASE entry = "cli"
    <3>1. args \in ArgumentSpace /\ section \in SectionSpace
      BY <2>1, <2>6, GivenAssumption DEF SInv, StartTypes
    <3>2. config = ConfigOf(args, section)
      BY <2>1, <2>6 DEF SInv, ConfigIsGiven, NoConfig
    <3>3. config.prefix \in {"absent", Overlay(args.prefix, section.prefix)}
      BY <3>2 DEF ConfigOf, NoConfig
    <3>4. QED
      BY <2>4, <2>6, <3>1, <3>3 DEF Overlay, ArgumentSpace
  <2>7. QED
    BY <2>1, <2>5, <2>6 DEF SInv, StartTypes
<1>2. QED
  BY <1>1, StartInvariant, PTL

(* A server that runs authenticates exactly as it was asked to.            *)
THEOREM AuthIsNeverDropped == StartSpec => []AuthNeverDropped
<1>1. SInv => AuthNeverDropped
  BY DEF SInv, AuthIsKept, AuthNeverDropped
<1>2. QED
  BY <1>1, StartInvariant, PTL

(* The timeout comes from the highest tier that is set.                    *)
THEOREM TimeoutTiersInOrder == StartSpec => []TimeoutFromTheHighestTier
<1>1. SInv => TimeoutFromTheHighestTier
  <2>1. SUFFICES ASSUME SInv, stage = "running" PROVE TimeoutFromTheHighestTier
    BY DEF TimeoutFromTheHighestTier
  <2>2. asked \in Requests /\ server.timeout = TimeoutTier(asked)
    BY <2>1 DEF SInv, StartTypes, TimeoutIsResolved
  <2> DEFINE set == {t \in {"explicit", "env", "file"} : asked[t] \notin {"absent", "none"}}
  <2>3. /\ "explicit" \in set <=> asked.explicit = "number"
        /\ "env" \in set <=> asked.env # "absent"
        /\ "file" \in set <=> asked.file \notin {"absent", "none"}
    BY <2>2 DEF Requests
  <2>4. /\ asked.explicit \in {"absent", "number"} /\ asked.env \in {"absent", "number", "text"}
        /\ asked.file \in {"none", "absent", "number", "text"}
    BY <2>2 DEF Requests
  <2>5. asked.explicit # "absent" => server.timeout = "explicit"
    BY <2>2 DEF TimeoutTier
  <2>6. asked.explicit = "absent" /\ asked.env # "absent" => server.timeout = "env"
    BY <2>2 DEF TimeoutTier, ConfigTier
  <2>7. asked.explicit = "absent" /\ asked.env = "absent" =>
          server.timeout = IF asked.file \in {"absent", "none"} THEN "default" ELSE "file"
    BY <2>2, <2>4 DEF TimeoutTier, ConfigTier
  <2>8. /\ server.timeout # "default" => server.timeout \in set
        /\ "explicit" \in set => server.timeout = "explicit"
        /\ "env" \in set /\ "explicit" \notin set => server.timeout = "env"
        /\ set = {"file"} => server.timeout = "file"
    <3> HIDE DEF set
    <3>1. QED
      BY <2>3, <2>4, <2>5, <2>6, <2>7
  <2>9. QED
    BY <2>8 DEF TimeoutFromTheHighestTier
<1>2. QED
  BY <1>1, StartInvariant, PTL

-----------------------------------------------------------------------------
(* What the command line can serve.  The backend is the only source of its *)
(* modules, and it is only called for a configuration; the registry is at  *)
(* rest once that call is over.                                            *)

CliModules ==
  entry = "cli" =>
    /\ \A id \in DOMAIN registry : registry[id].origin = "proxy"
    /\ stage \in {"checked", "valid", "running"} => server.modules = DOMAIN registry
    /\ stage \notin {"building", "over"} => pc = "idle"

CliStages ==
  entry = "cli" =>
    /\ stage \in {"configured", "building", "built"} => ~NothingToServe
    /\ stage \in {"configured", "building"} => Configured(args, section)
    /\ ~Configured(args, section) =>
         /\ DOMAIN registry = {} /\ pc = "idle"
         /\ stage \in {"parsed", "built", "over"} /\ exit # "0"

CliInv == CliModules /\ CliStages

(* A step of the backend writes proxies only, while it is at work.         *)
LEMMA BuildWrites ==
  ASSUME Build
  PROVE  /\ pc # "idle"
         /\ \A id \in DOMAIN registry' :
              registry'[id].origin = "proxy" \/ (id \in DOMAIN registry /\ registry'[id] = registry[id])
<1>1. ASSUME NEW id \in LegalIds, WriteModule(id)
      PROVE  /\ pc # "idle"
             /\ \A i \in DOMAIN registry' :
                  registry'[i].origin = "proxy" \/ (i \in DOMAIN registry /\ registry'[i] = registry[i])
  BY <1>1 DEF WriteModule, Entry
<1>2. ASSUME NEW id \in LegalIds, FailModule(id) PROVE pc # "idle" /\ registry' = registry
  BY <1>2 DEF FailModule
<1>3. CASE \/ RefuseWithoutPrefix \/ RefuseWithoutSpec \/ Load \/ LoadFails \/ Scan \/ ScanFails
           \/ Repair \/ RefuseCollisions \/ Preflight \/ RefuseWithoutBase \/ StartWriting
           \/ WarnUnapprovedWrites
  <2>1. pc # "idle" /\ registry' = registry
    BY <1>3 DEF RefuseWithoutPrefix, RefuseWithoutSpec, Load, LoadFails, Scan, ScanFails, Repair,
       RefuseCollisions, Preflight, RefuseWithoutBase, StartWriting, WarnUnapprovedWrites,
       Raise, Stage
  <2>2. QED
    BY <2>1
<1>4. QED
  BY <1>1, <1>2, <1>3 DEF Build

LEMMA CliInductive ==
  ASSUME StartTypes, CliInv, [StartNext]_<<vars, startVars>>
  PROVE  CliInv'
<1>1. entry \in {"cli", "host"} /\ entry' = entry /\ args' = args /\ section' = section
  BY DEF StartTypes, StartNext, CommandLine, Host, Serve, Over, RefuseHeader, UsageError,
     RefuseDirectory, OpenRegistry, BuildFromConfig, BackendError, BackendReturned,
     AssertionError, NoModules, WithoutAuth, KeyIsADirectory, BuildAuth, RefuseKey, HostBuild,
     HostServe, ResolveTimeout, TimeoutIsNoNumber, ResolveObject, RefuseObject, Validate,
     RefuseAuth, RefuseStore, Create, SchemesRaise, ServerFails, Interrupt, ServeRaises, End,
     Advance, given, startVars
<1>2. CASE entry = "host"
  BY <1>1, <1>2 DEF CliInv, CliModules, CliStages
<1>3. CASE entry = "cli"
  <2>1. /\ NothingToServe' = NothingToServe
        /\ Configured(args, section)' = Configured(args, section)
    BY <1>1 DEF NothingToServe, Configured, WrongShape, MergedSpec, Overlay
  <2>2. ASSUME NEW code, End(code), code = "0" => Configured(args, section) PROVE CliInv'
    BY <1>1, <1>3, <2>1, <2>2 DEF End, vars, CliInv, CliModules, CliStages
  <2>3. CASE \/ RefuseHeader \/ UsageError \/ RefuseDirectory \/ BackendError
             \/ AssertionError \/ NoModules \/ KeyIsADirectory \/ RefuseObject \/ RefuseAuth
             \/ RefuseStore \/ SchemesRaise \/ ServerFails
    BY <1>3, <2>2, <2>3 DEF RefuseHeader, UsageError, RefuseDirectory, BackendError,
       AssertionError, NoModules, KeyIsADirectory, RefuseObject, RefuseAuth, RefuseStore,
       SchemesRaise, ServerFails, ServeRaises
  <2>4. CASE Interrupt
    <3>1. Configured(args, section)
      BY <1>3, <2>4 DEF Interrupt, CliInv, CliStages
    <3>2. QED
      BY <1>3, <2>2, <2>4, <3>1 DEF Interrupt
  <2>5. CASE OpenRegistry
    BY <1>1, <1>3, <2>1, <2>5 DEF OpenRegistry, Advance, vars, CliInv, CliModules, CliStages
  <2>6. CASE BuildFromConfig
    <3>1. /\ stage = "configured" /\ stage' = "building"
          /\ registry' = Empty \/ registry' = registry
      BY <2>6 DEF BuildFromConfig, Advance, Call
    <3>2. QED
      BY <1>1, <1>3, <2>1, <3>1, EmptyDomain DEF CliInv, CliModules, CliStages
  <2>7. CASE BackendReturned
    <3>1. stage = "building" /\ stage' = "built" /\ pc' = "idle" /\ registry' = registry
      BY <2>7 DEF BackendReturned, Advance, Forget
    <3>2. QED
      BY <1>1, <1>3, <2>1, <3>1 DEF CliInv, CliModules, CliStages
  <2>8. ASSUME UNCHANGED vars, exit' = exit, stage' \in {"serving", "resolved"},
               \/ stage = "built" /\ DOMAIN registry # {}
               \/ stage \in {"serving", "resolved", "checked", "valid"}
        PROVE  CliInv'
    BY <1>1, <1>3, <2>1, <2>8 DEF vars, CliInv, CliModules, CliStages
  <2>9. CASE WithoutAuth
    BY <2>8, <2>9 DEF WithoutAuth, Advance
  <2>10. ASSUME NEW key, NEW secret, BuildAuth(key, secret) PROVE CliInv'
    BY <2>8, <2>10 DEF BuildAuth, Advance
  <2>11. ASSUME NEW key, NEW secret, RefuseKey(key, secret) PROVE CliInv'
    BY <2>2, <2>11 DEF RefuseKey
  <2>12. ASSUME NEW explicit, NEW env, NEW file, ResolveTimeout(explicit, env, file)
         PROVE  CliInv'
    BY <2>8, <2>12 DEF ResolveTimeout, Advance
  <2>13. ASSUME NEW env, NEW file, TimeoutIsNoNumber(env, file) PROVE CliInv'
    BY <1>3, <2>13 DEF TimeoutIsNoNumber
  <2>14. ASSUME NEW ids \in SUBSET LegalIds, ResolveObject(ids) PROVE CliInv'
    <3>1. /\ stage = "resolved" /\ stage' = "checked" /\ exit' = exit /\ UNCHANGED vars
          /\ ids = DOMAIN registry /\ server' = [server EXCEPT !.modules = ids]
      BY <1>3, <2>14 DEF ResolveObject, Advance
    <3>2. server'.modules = DOMAIN registry
      BY <3>1 DEF StartTypes, Servers
    <3>3. QED
      BY <1>1, <1>3, <2>1, <3>1, <3>2 DEF vars, CliInv, CliModules, CliStages
  <2>15. CASE Validate \/ Create
    <3>1. /\ stage \in {"checked", "valid"} /\ stage' \in {"valid", "running"}
          /\ exit' = exit /\ UNCHANGED <<vars, server>>
      BY <2>15 DEF Validate, Create, Advance
    <3>2. QED
      BY <1>1, <1>3, <2>1, <3>1 DEF vars, CliInv, CliModules, CliStages
  <2>16. CASE Host
    BY <1>3, <2>16 DEF Host, HostBuild, HostServe, Advance, StartTypes
  <2>17. CASE Build /\ UNCHANGED startVars
    <3>1. stage \in {"building", "over"} /\ Configured(args, section)
          /\ UNCHANGED <<stage, server, exit>>
      BY <1>3, <2>17, BuildWrites DEF startVars, CliInv, CliModules, CliStages
    <3>2. \A id \in DOMAIN registry' : registry'[id].origin = "proxy"
      BY <1>3, <2>17, BuildWrites DEF CliInv, CliModules
    <3>3. QED
      BY <1>1, <1>3, <2>1, <3>1, <3>2 DEF CliInv, CliModules, CliStages
  <2>18. CASE UNCHANGED <<vars, startVars>>
    BY <1>1, <1>3, <2>1, <2>18 DEF vars, startVars, CliInv, CliModules, CliStages
  <2>19. QED
    BY <2>3, <2>4, <2>5, <2>6, <2>7, <2>9, <2>10, <2>11, <2>12, <2>13, <2>14, <2>15, <2>16,
       <2>17, <2>18 DEF StartNext, CommandLine, Serve, Over
<1>4. QED
  BY <1>1, <1>2, <1>3

LEMMA CliInvariant == StartSpec => []CliInv
<1>1. StartInit => CliInv
  BY EmptyDomain DEF StartInit, Init, CliInv, CliModules, CliStages
<1>2. StartTypes /\ CliInv /\ [StartNext]_<<vars, startVars>> => CliInv'
  BY CliInductive
<1>3. QED
  BY <1>1, <1>2, StartInvariant, PTL DEF StartSpec, SInv

DirectoryNeverServes ==
  entry = "cli" /\ ~Configured(args, section) =>
    /\ DOMAIN registry = {}
    /\ stage \notin {"serving", "resolved", "checked", "valid", "running"}
    /\ exit # "0"

(* A command line without an OpenAPI configuration never serves anything,  *)
(* an extensions directory or not, and never exits with success: its       *)
(* registry is never filled (main() opens it and does not discover).       *)
THEOREM DirectoryAloneNeverServes == StartSpec => []DirectoryNeverServes
<1>1. CliInv => DirectoryNeverServes
  BY DEF CliInv, CliStages, DirectoryNeverServes
<1>2. QED
  BY <1>1, CliInvariant, PTL

(* What a command line serves is the registry the backend has filled, all  *)
(* of it and nothing else, and nothing is added once serve() has it.       *)
THEOREM CliServesTheBackend == StartSpec => []CliModules
<1>1. CliInv => CliModules
  BY DEF CliInv
<1>2. QED
  BY <1>1, CliInvariant, PTL

(* The registry of a host program is never the command line's.             *)
BuiltByCli == stage \in {"parsed", "configured", "building", "built"} => entry = "cli"

LEMMA BuiltByCliInvariant == StartSpec => []BuiltByCli
<1>1. StartInit => BuiltByCli
  BY DEF StartInit, BuiltByCli
<1>2. BuiltByCli /\ [StartNext]_<<vars, startVars>> => BuiltByCli'
  BY DEF BuiltByCli, StartNext, CommandLine, Host, Serve, Over, RefuseHeader, UsageError,
     RefuseDirectory, OpenRegistry, BuildFromConfig, BackendError, BackendReturned,
     AssertionError, NoModules, WithoutAuth, KeyIsADirectory, BuildAuth, RefuseKey, HostBuild,
     HostServe, ResolveTimeout, TimeoutIsNoNumber, ResolveObject, RefuseObject, Validate,
     RefuseAuth, RefuseStore, Create, SchemesRaise, ServerFails, Interrupt, ServeRaises, End,
     Advance, given, startVars
<1>3. QED
  BY <1>1, <1>2, PTL DEF StartSpec

AssertionFailsExactly ==
  stage = "built" =>
    (~HasRegistry <=> ~args.ext /\ args.spec = "location" /\ section.shape = "falsy")

(* "assert registry is not None" fails for one kind of start and no other: *)
(* --from-openapi without a directory, over a section that is no mapping   *)
(* and falsy, which hides the flag from the merge but not from the guard.  *)
THEOREM AssertionFailsExactlyThere == StartSpec => []AssertionFailsExactly
<1>1. SInv /\ CliInv /\ BuiltByCli => AssertionFailsExactly
  <2>1. SUFFICES ASSUME CliInv, SInv, stage = "built", entry = "cli"
                 PROVE  ~HasRegistry <=>
                          ~args.ext /\ args.spec = "location" /\ section.shape = "falsy"
    BY DEF AssertionFailsExactly, BuiltByCli
  <2>2. ~NothingToServe
    BY <2>1 DEF CliInv, CliStages
  <2>3. section \in SectionSpace /\ args \in ArgumentSpace
    BY <2>1, GivenAssumption DEF SInv, StartTypes, SectionSpace, ArgumentSpace, NoArguments,
       NoSection
  <2>4. ~HasRegistry => ~args.ext /\ args.spec = "location"
    BY <2>2 DEF NothingToServe, HasRegistry
  <2>5. args.spec = "location" => (~Configured(args, section) <=> section.shape = "falsy")
    BY <2>3 DEF Configured, WrongShape, MergedSpec, Overlay, SectionSpace
  <2>6. QED
    BY <2>4, <2>5 DEF HasRegistry
<1>2. QED
  BY <1>1, StartInvariant, CliInvariant, BuiltByCliInvariant, PTL
=============================================================================
