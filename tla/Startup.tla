------------------------------ MODULE Startup ------------------------------
(***************************************************************************)
(* How a server comes up (__main__.py, _serve.py, _config.py and the first *)
(* steps of A2AServerFactory.create), from the command line or from a host *)
(* program that calls serve() itself, with the OpenAPI backend filling the *)
(* registry on the way.                                                    *)
(*                                                                         *)
(* What the program is given (flags, section, environment, objects) does   *)
(* not change while it starts.  Arguments and the openapi section, which   *)
(* several steps read, are fixed by the initial state; a value only one    *)
(* step reads is chosen by that step.                                      *)
(***************************************************************************)
EXTENDS OpenAPIBackend

CONSTANTS
  ExtensionIds,   \* the modules in the extensions directory
  Arguments,      \* command lines
  Sections,       \* what Config holds under apcore-a2a.openapi
  HostConfigs     \* what a host program may give the backend

(* "empty" is a set but empty text, "blank" has only white space.  ext:    *)
(* --extensions-dir is given; spec: --from-openapi; base: a base URL.      *)
ArgumentSpace ==
  [ext : BOOLEAN, spec : {"absent", "empty", "location"},
   prefix : {"absent", "empty", "given"}, base : BOOLEAN]

(* A section that is no mapping may be falsy: openapi: false, or []. base: *)
(* the section has one, or the document.                                   *)
SectionSpace ==
  [shape : {"absent", "falsy", "scalar", "mapping"},
   spec : {"absent", "empty", "blank", "location", "document"},
   prefix : {"absent", "empty", "given"}, base : BOOLEAN,
   ack : {"absent", "true", "false", "string"}]

NoArguments == [ext |-> FALSE, spec |-> "absent", prefix |-> "absent", base |-> FALSE]
NoSection == [shape |-> "absent", spec |-> "absent", prefix |-> "absent",
              base |-> FALSE, ack |-> "absent"]

(* The flags over the section, key by key: a flag that is given wins, an   *)
(* empty one too.                                                          *)
Overlay(flag, value) == IF flag = "absent" THEN value ELSE flag

MergedSpec(a, s) == Overlay(a.spec, s.spec)

WrongShape(s) == s.shape \in {"falsy", "scalar"}

(* bool() of what _merge_openapi_settings returns. *)
Configured(a, s) ==
  IF WrongShape(s) THEN s.shape = "scalar"
                   ELSE MergedSpec(a, s) \notin {"absent", "empty"}

(* The call of build_openapi_backend_from_config. *)
ConfigOf(a, s) ==
  LET source == [NoConfig EXCEPT !.fresh = ~a.ext, !.other = a.ext] IN
  IF WrongShape(s)
    THEN [source EXCEPT !.shape = "scalar"]
    ELSE [source EXCEPT !.shape = "mapping", !.spec = MergedSpec(a, s), !.ack = s.ack,
                        !.prefix = Overlay(a.prefix, s.prefix), !.base = a.base \/ s.base]

ASSUME ExtensionsAssumption == ExtensionIds \subseteq LegalIds
ASSUME GivenAssumption ==
  Arguments \subseteq ArgumentSpace /\ Sections \subseteq SectionSpace
ASSUME ConfigsAssumption ==
  /\ HostConfigs \subseteq Configs
  /\ \A a \in Arguments, s \in Sections : Configured(a, s) => ConfigOf(a, s) \in Configs

VARIABLES
  entry,    \* "cli" or "host"
  args,     \* the parsed command line
  section,  \* get_a2a_setting("openapi")
  stage,    \* how far the start has got
  asked,    \* what serve() is asked for: authentication, timeout by tier
  server,   \* what create() is given
  exit      \* the exit code, or "raised" for an exception nobody catches

given == <<entry, args, section>>
startVars == <<given, stage, asked, server, exit>>

NothingAsked == [auth |-> "none", key |-> "absent", secret |-> "absent",
                 explicit |-> "absent", env |-> "absent", file |-> "absent"]
NoServer == [auth |-> "none", key |-> "none", timeout |-> "none", modules |-> {}]

-----------------------------------------------------------------------------
(* The command line: main and _run_serve *)

End(code) ==
  /\ stage' = "over" /\ exit' = code
  /\ UNCHANGED <<vars, given, asked, server>>

Advance(from, to) ==
  /\ stage = from /\ stage' = to
  /\ UNCHANGED <<given, exit>>

(* A malformed --openapi-header, unless the section is returned before the *)
(* headers are parsed.                                                     *)
RefuseHeader ==
  /\ stage = "parsed" /\ ~WrongShape(section)
  /\ End("1")

NothingToServe == ~args.ext /\ args.spec # "location" /\ ~Configured(args, section)

UsageError ==
  /\ stage = "parsed" /\ NothingToServe
  /\ End("2")

(* The extensions directory does not exist, or is a file. *)
RefuseDirectory ==
  /\ stage = "parsed" /\ ~NothingToServe /\ args.ext
  /\ End("1")

(* Registry(extensions_dir=...): its modules are not discovered here. *)
OpenRegistry ==
  /\ ~NothingToServe
  /\ Advance("parsed", IF Configured(args, section) THEN "configured" ELSE "built")
  /\ UNCHANGED <<vars, asked, server>>

BuildFromConfig ==
  /\ Advance("configured", "building")
  /\ Call(ConfigOf(args, section))
  /\ UNCHANGED <<asked, server>>

BackendError ==
  /\ stage = "building" /\ pc = "raised"
  /\ End("1")

BackendReturned ==
  /\ pc = "returned" /\ Advance("building", "built")
  /\ Forget
  /\ UNCHANGED <<asked, server>>

HasRegistry == args.ext \/ Configured(args, section)

(* assert registry is not None *)
AssertionError ==
  /\ stage = "built" /\ ~HasRegistry
  /\ End("raised")

NoModules ==
  /\ stage = "built" /\ HasRegistry /\ DOMAIN registry = {}
  /\ End("1")

(* A slip: an empty file falls through to the environment's secret. *)
ResolveAuthKeyFallingThrough(key, secret) ==
  IF key \in {"file", "text"} THEN key
                              ELSE IF secret = "text" THEN "secret" ELSE "none"

(* _resolve_auth_key: a file's contents, else the text itself, else        *)
(* APCORE_JWT_SECRET; an empty one is no key.                              *)
ResolveAuthKey(key, secret) ==
  CASE key \in {"file", "text"} -> key
    [] key = "emptyFile"        -> "none"
    [] OTHER                    -> IF secret = "text" THEN "secret" ELSE "none"

Keys == {"absent", "file", "emptyFile", "directory", "text"}

WithoutAuth ==
  /\ DOMAIN registry # {} /\ Advance("built", "serving")
  /\ UNCHANGED <<vars, asked, server>>

BuildAuth(key, secret) ==
  /\ key # "directory" /\ ResolveAuthKey(key, secret) # "none"
  /\ DOMAIN registry # {} /\ Advance("built", "serving")
  /\ asked' = [asked EXCEPT !.auth = "bearer", !.key = key, !.secret = secret]
  /\ server' = [server EXCEPT !.auth = "jwt", !.key = ResolveAuthKey(key, secret)]
  /\ UNCHANGED vars

RefuseKey(key, secret) ==
  /\ stage = "built" /\ DOMAIN registry # {}
  /\ key # "directory" /\ ResolveAuthKey(key, secret) = "none"
  /\ End("1")

(* read_text() of a directory, outside any try. *)
KeyIsADirectory ==
  /\ stage = "built" /\ DOMAIN registry # {}
  /\ End("raised")

-----------------------------------------------------------------------------
(* A host program *)

HostBuild ==
  /\ stage = "host"
  /\ \/ \E id \in LegalIds : HostRegister(id)
     \/ \E c \in HostConfigs : Call(c)
     \/ Forget
  /\ UNCHANGED startVars

(* auth: nothing, an Authenticator, an object that lacks a method, one     *)
(* whose security_schemes() raises.                                        *)
HostServe(auth) ==
  /\ pc = "idle" /\ Advance("host", "serving")
  /\ asked' = [asked EXCEPT !.auth = auth]
  /\ server' = [server EXCEPT !.auth = IF auth = "none" THEN "none" ELSE "own"]
  /\ UNCHANGED vars

-----------------------------------------------------------------------------
(* serve and async_serve *)

(* main() catches what serve() raises. *)
ServeRaises == End(IF entry = "cli" THEN "2" ELSE "raised")

(* Config.get: in namespace mode, that is with a config file, the          *)
(* environment overrides the file and the registered default is last;      *)
(* without one it returns nothing.  A slip: the default always answers.    *)
ConfigTierAlways(t) ==
  IF t.file # "none" /\ t.env # "absent" THEN "env"
  ELSE IF t.file \notin {"none", "absent"} THEN "file"
  ELSE "default"

ConfigTier(t) ==
  IF t.file = "none" THEN "none"
  ELSE IF t.env # "absent" THEN "env"
  ELSE IF t.file # "absent" THEN "file"
  ELSE "default"

(* resolve_execution_timeout: the tier the value is taken from. *)
TimeoutTier(t) ==
  IF t.explicit # "absent" THEN "explicit"
  ELSE IF ConfigTier(t) # "none" THEN ConfigTier(t)
  ELSE IF t.env # "absent" THEN "env"
  ELSE "default"

(* int() of it raises for a text that is no number. *)
IsNumber(t, tier) == tier # "default" => t[tier] = "number"

(* argparse gives --execution-timeout a default, so the command line is    *)
(* always explicit.  env is APCORE_A2A_EXECUTION_TIMEOUT.                  *)
ResolveTimeout(explicit, env, file) ==
  LET t == [asked EXCEPT !.explicit = explicit, !.env = env, !.file = file] IN
  /\ entry = "cli" => explicit = "number"
  /\ IsNumber(t, TimeoutTier(t))
  /\ Advance("serving", "resolved")
  /\ asked' = t
  /\ server' = [server EXCEPT !.timeout = TimeoutTier(t)]
  /\ UNCHANGED vars

TimeoutIsNoNumber(env, file) ==
  LET t == [asked EXCEPT !.env = env, !.file = file] IN
  /\ stage = "serving" /\ entry = "host" /\ ~IsNumber(t, TimeoutTier(t))
  /\ ServeRaises

(* _resolve_registry_and_executor, then the check for zero modules; a path *)
(* is discovered, and a module that does not load is not found.            *)
ResolveObject(ids) ==
  /\ IF entry = "cli" THEN ids = DOMAIN registry
                      ELSE ids = DOMAIN registry \/ ids \subseteq ExtensionIds
  /\ ids # {}
  /\ Advance("resolved", "checked")
  /\ server' = [server EXCEPT !.modules = ids]
  /\ UNCHANGED <<vars, asked>>

(* No registry and no executor, an executor without a registry, a registry *)
(* with an executor that has no call_async, or no modules.                 *)
RefuseObject ==
  /\ stage = "resolved" /\ entry = "host"
  /\ ServeRaises

(* A slip: an authenticator that lacks a method is left out. *)
ValidateDroppingAuth ==
  /\ Advance("checked", "valid")
  /\ server' = [server EXCEPT !.auth = IF asked.auth = "incomplete" THEN "none" ELSE @]
  /\ UNCHANGED <<vars, asked>>

Validate ==
  /\ asked.auth # "incomplete" /\ Advance("checked", "valid")
  /\ UNCHANGED <<vars, asked, server>>

RefuseAuth ==
  /\ stage = "checked" /\ asked.auth = "incomplete"
  /\ ServeRaises

RefuseStore ==
  /\ stage = "checked" /\ entry = "host" /\ asked.auth # "incomplete"
  /\ ServeRaises

(* create(): security_schemes() is not guarded. *)
Create ==
  /\ asked.auth # "refusing" /\ Advance("valid", "running")
  /\ UNCHANGED <<vars, asked, server>>

SchemesRaise ==
  /\ stage = "valid" /\ asked.auth = "refusing"
  /\ ServeRaises

ServerFails ==
  /\ stage = "running"
  /\ ServeRaises

Interrupt ==
  /\ stage = "running"
  /\ End(IF entry = "cli" THEN "0" ELSE "raised")

-----------------------------------------------------------------------------

StartInit ==
  /\ Init
  /\ \/ entry = "cli" /\ stage = "parsed" /\ args \in Arguments /\ section \in Sections
     \/ entry = "host" /\ stage = "host" /\ args = NoArguments /\ section = NoSection
  /\ asked = NothingAsked /\ server = NoServer /\ exit = "none"

CommandLine ==
  \/ RefuseHeader \/ UsageError \/ RefuseDirectory \/ OpenRegistry
  \/ BuildFromConfig \/ BackendError \/ BackendReturned
  \/ AssertionError \/ NoModules \/ WithoutAuth \/ KeyIsADirectory
  \/ \E key \in Keys, secret \in {"absent", "text"} :
       BuildAuth(key, secret) \/ RefuseKey(key, secret)

Host ==
  \/ HostBuild
  \/ \E auth \in {"none", "valid", "incomplete", "refusing"} : HostServe(auth)

Serve ==
  \/ \E env \in {"absent", "number", "text"}, file \in {"none", "absent", "number", "text"} :
       \/ \E explicit \in {"absent", "number"} : ResolveTimeout(explicit, env, file)
       \/ TimeoutIsNoNumber(env, file)
  \/ \E ids \in SUBSET LegalIds : ResolveObject(ids)
  \/ RefuseObject \/ Validate \/ RefuseAuth \/ RefuseStore
  \/ Create \/ SchemesRaise \/ ServerFails \/ Interrupt

Over == stage = "over" /\ UNCHANGED <<vars, startVars>>

StartNext ==
  \/ CommandLine \/ Host \/ Serve \/ Over
  \/ Build /\ UNCHANGED startVars

StartSpec == StartInit /\ [][StartNext]_<<vars, startVars>>

-----------------------------------------------------------------------------
(* Properties *)

(* The types, the backend's included; a server that runs has modules.      *)
StartTypeOK ==
  /\ TypeOK
  /\ entry \in {"cli", "host"}
  /\ args \in Arguments \cup {NoArguments} /\ section \in Sections \cup {NoSection}
  /\ stage \in {"parsed", "configured", "building", "built", "host", "serving",
                "resolved", "checked", "valid", "running", "over"}
  /\ server.modules \subseteq LegalIds
  /\ stage \in {"checked", "valid", "running"} => server.modules # {}
  /\ (exit # "none") = (stage = "over")

(* Nothing is fetched into a registry that is declared to hold modules of  *)
(* another source (has_other_backend_source) unless the flag or, without   *)
(* the flag, the section namespaces its ids: an empty flag hides the       *)
(* section's prefix and is refused "without a network round trip"          *)
(* (openapi_backend.py:317-325 under the merge of __main__.py:149-163).    *)
NoFetchWithoutNamespace ==
  fetched /\ config.other =>
    IF entry = "host" THEN config.prefix = "given"
    ELSE \/ args.prefix = "given"
         \/ args.prefix = "absent" /\ section.prefix = "given"

(* A server that runs authenticates exactly when it was asked to, by the   *)
(* host's authenticator or by --auth-type (--auth-key alone asks for       *)
(* nothing): then with the key that --auth-key names and, only where that  *)
(* flag is missing, the secret of the environment.                         *)
AuthNeverDropped ==
  stage = "running" =>
    /\ (server.auth = "none") = (asked.auth = "none")
    /\ server.auth = "own" => asked.auth = "valid"
    /\ server.auth = "jwt" =>
         server.key = IF asked.key = "absent" THEN "secret" ELSE asked.key

(* The timeout comes from the highest tier that is set, in the order of    *)
(* resolve_execution_timeout's docstring, with a config file or without.   *)
TimeoutFromTheHighestTier ==
  stage = "running" =>
    LET set == {t \in {"explicit", "env", "file"} : asked[t] \notin {"absent", "none"}} IN
    /\ server.timeout # "default" => server.timeout \in set
    /\ "explicit" \in set => server.timeout = "explicit"
    /\ "env" \in set /\ "explicit" \notin set => server.timeout = "env"
    /\ set = {"file"} => server.timeout = "file"

(* --extensions-dir serves the modules of the directory                    *)
(* (examples/README.md: "CLI --extensions-dir").                           *)
ExtensionsAreLoaded ==
  entry = "cli" /\ args.ext /\ stage \in {"built", "serving"} =>
    ExtensionIds \subseteq DOMAIN registry

(* assert registry is not None  # guarded above                            *)
RegistryAssertionHolds ==
  stage = "built" => HasRegistry
=============================================================================
