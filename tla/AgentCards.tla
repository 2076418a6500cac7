----------------------------- MODULE AgentCards -----------------------------
(***************************************************************************)
(* Discovery: which skills the server shows to whom, and what it would let *)
(* them do (server/factory.py create() and register_module(),              *)
(* adapters/agent_card.py, adapters/card_visibility.py,                    *)
(* explorer/__init__.py).                                                  *)
(*                                                                         *)
(* create() resolves the public card once, for the anonymous principal;    *)
(* the extended card is narrowed for its caller on every request from a    *)
(* full card that is just as old; the explorer serves the public card with *)
(* input schemas read from the live registry.  Meanwhile the host adds and *)
(* removes modules and replaces the ACL of the running executor.           *)
(*                                                                         *)
(* A skill is its module id, a card the set of skills on it.  A descriptor *)
(* says how the module shows: hidden from registry.list(), without a       *)
(* usable description, or fully; and whether it carries requires_approval  *)
(* ("gated").                                                              *)
(***************************************************************************)
EXTENDS Naturals, FiniteSets

CONSTANTS
  Modules,        \* ids of ordinary modules
  SystemModules,  \* ids under "system."
  Callers,        \* authenticated identities
  Anonymous,      \* the principal of a request without one
  Acls,           \* the ACLs an executor may be given
  NoAcl,          \* the executor has none
  Absent,         \* no descriptor: the registry has no such module
  NoCard,         \* the builder's cache is empty
  MaxChanges      \* changes to the registry or the ACL at run time (a bound)

Skills == Modules \cup SystemModules
Principals == Callers \cup {Anonymous}
Descriptors == [shows : {"hidden", "undescribed", "fully"}, gated : BOOLEAN]
Cells == [access : {"allow", "deny", "error"},
          gate   : {"none", "always", "byArguments"}]

ASSUME SkillsAssumption == Modules \cap SystemModules = {}
ASSUME AnonymousAssumption == Anonymous \notin Callers
ASSUME MaxChangesAssumption == MaxChanges \in Nat
ASSUME AbsentAssumption == Absent \notin Descriptors
ASSUME AclAssumption ==
  /\ NoAcl \notin Acls
  /\ \A a \in Acls :
       /\ a.checkAccess \in BOOLEAN
       /\ a.rule \in [Principals -> [Skills -> Cells]]
       /\ a.checkAccess \/ \A p \in Principals, s \in Skills :
                              a.rule[p][s].gate = "none"

VARIABLES
  config,      \* create()'s arguments: auth, explorer, sysModules
  server,      \* "down" until create() has returned
  registry,    \* the apcore Registry: a descriptor or Absent, per id
  acl,         \* the ACL of the apcore Executor
  fullCard,    \* extended_agent_card, the base of every extended card
  publicCard,  \* the card behind /.well-known/ and the explorer
  cachedCard,  \* AgentCardBuilder._cached_card
  added,       \* modules register_module() has added and nobody removed
  reply,       \* the last answer: surface, caller, skills, input schemas
  drifted,     \* the ACL or a module has been replaced or removed since create()
  changes      \* how many changes the host has made

vars == <<config, server, registry, acl, fullCard, publicCard, cachedCard,
          added, reply, drifted, changes>>

-----------------------------------------------------------------------------
(* What apcore does with a call *)

Registered == {s \in Skills : registry[s] # Absent}

Gates(a, p, s, desc) ==
  {IF desc.gated THEN "always" ELSE "none",
   IF a = NoAcl THEN "none" ELSE a.rule[p][s].gate}

(* registry.list(), which execute() checks a skill against. *)
Listed(reg) == {s \in Skills : reg[s] # Absent /\ reg[s].shows # "hidden"}

(* The ways a call of skill s by principal p can turn out. *)
Outcomes(p, s) ==
  CASE s \notin Listed(registry) -> {"unknown"}
    [] s \in Listed(registry) /\ acl # NoAcl
         /\ acl.rule[p][s].access # "allow" -> {acl.rule[p][s].access}
    [] OTHER ->
         LET gates == Gates(acl, p, s, registry[s])
         IN  CASE "always" \in gates      -> {"approval"}
               [] gates = {"none"}        -> {"ran"}
               [] OTHER                   -> {"ran", "approval"}

-----------------------------------------------------------------------------
(* Who sees what *)

IsSystemSkill(s) == s \in SystemModules

BuildSkills(reg) == {s \in Listed(reg) : reg[s].shows # "undescribed"}

RequiresApproval(reg, s) == reg[s] # Absent /\ reg[s].gated

(* A slip: an ACL gate that depends on the arguments does not count. *)
DecideOptimistic(a, p, s) ==
  [authorized |-> a.rule[p][s].access = "allow",
   approval   |-> a.checkAccess /\ a.rule[p][s].gate = "always"]

(* With no arguments to look at, a gate that depends on them is pending,   *)
(* and a skill whose check raises is withheld.                             *)
Decide(a, p, s) ==
  [authorized |-> a.rule[p][s].access = "allow",
   approval   |-> a.checkAccess /\ a.rule[p][s].gate # "none"]

SkillAccess(a, ids, p) ==
  IF a = NoAcl THEN [s \in ids |-> FALSE]
  ELSE [s \in {i \in ids : Decide(a, p, i).authorized} |-> Decide(a, p, s).approval]

AllowedSkillIds(a, ids, p) == DOMAIN SkillAccess(a, ids, p)

(* A slip: the public card is resolved from the registry, not from the card. *)
PublicCardOfRegistry(card, a, reg) ==
  LET access == SkillAccess(a, Listed(reg) \ SystemModules, Anonymous)
  IN  {s \in DOMAIN access : ~access[s] /\ ~RequiresApproval(reg, s)}

(* A slip: the ACL is asked about the management namespace like any other. *)
PublicCardWithSystem(card, a, reg) ==
  LET access == SkillAccess(a, card, Anonymous)
  IN  {s \in DOMAIN access : ~access[s] /\ ~RequiresApproval(reg, s)}

PublicCard(card, a, reg) ==
  LET access == SkillAccess(a, {s \in card : ~IsSystemSkill(s)}, Anonymous)
  IN  {s \in DOMAIN access : ~access[s] /\ ~RequiresApproval(reg, s)}

(* A slip: the extended card is resolved for the anonymous principal. *)
ExtendedCardForAnyone(card, a, p) == AllowedSkillIds(a, card, Anonymous)

ExtendedCard(card, a, p) == AllowedSkillIds(a, card, p)

-----------------------------------------------------------------------------
(* Starting the server *)

NoReply == [surface |-> "none", to |-> Anonymous, skills |-> {}, schemas |-> {}]
SystemDescriptor == [shows |-> "fully", gated |-> FALSE]

Init ==
  /\ config \in [auth : BOOLEAN, explorer : BOOLEAN, sysModules : BOOLEAN]
  /\ server = "down"
  /\ registry \in [Skills -> Descriptors \cup {Absent}]
  /\ \A s \in SystemModules : registry[s] = Absent
  /\ acl \in Acls \cup {NoAcl}
  /\ fullCard = {} /\ publicCard = {} /\ cachedCard = NoCard
  /\ added = {} /\ reply = NoReply
  /\ drifted = FALSE /\ changes = 0

(* register_sys_modules may raise half-way; create() carries on with what  *)
(* has been registered by then.                                            *)
Create ==
  /\ server = "down"
  /\ server' = "up"
  /\ \E new \in SUBSET SystemModules :
       /\ new = {} \/ config.sysModules
       /\ registry' = [s \in Skills |-> IF s \in new THEN SystemDescriptor
                                                     ELSE registry[s]]
  /\ cachedCard' = BuildSkills(registry')
  /\ fullCard' = BuildSkills(registry')
  /\ publicCard' = PublicCard(fullCard', acl, registry')
  /\ drifted' = FALSE
  /\ UNCHANGED <<config, acl, added, reply, changes>>

-----------------------------------------------------------------------------
(* Changes while it runs *)

(* A slip: register_module() leaves the builder's cache alone. *)
RegisterModuleKeepingTheCache(s, d) ==
  /\ changes < MaxChanges
  /\ server = "up" /\ registry[s] = Absent
  /\ registry' = [registry EXCEPT ![s] = d]
  /\ added' = added \cup {s}
  /\ changes' = changes + 1
  /\ UNCHANGED <<config, server, acl, fullCard, publicCard, cachedCard,
                 reply, drifted>>

(* Before create() the factory has no registry and only clears the cache;  *)
(* Registry.register refuses an id it already has.                         *)
RegisterModule(s, d) ==
  /\ changes < MaxChanges
  /\ server = "down" \/ registry[s] = Absent
  /\ registry' = IF server = "up" THEN [registry EXCEPT ![s] = d] ELSE registry
  /\ added' = IF server = "up" THEN added \cup {s} ELSE added
  /\ cachedCard' = NoCard
  /\ changes' = changes + 1
  /\ UNCHANGED <<config, server, acl, fullCard, publicCard, reply, drifted>>

(* The host removes a module, or puts another one in its place. *)
HostReplace(s, d) ==
  /\ changes < MaxChanges
  /\ server = "up" /\ registry[s] # Absent /\ registry[s] # d
  /\ registry' = [registry EXCEPT ![s] = d]
  /\ added' = added \ {s}
  /\ drifted' = TRUE
  /\ changes' = changes + 1
  /\ UNCHANGED <<config, server, acl, fullCard, publicCard, cachedCard, reply>>

SetAcl(a) ==
  /\ changes < MaxChanges
  /\ server = "up" /\ a # acl
  /\ acl' = a
  /\ drifted' = TRUE
  /\ changes' = changes + 1
  /\ UNCHANGED <<config, server, registry, fullCard, publicCard, cachedCard,
                 added, reply>>

-----------------------------------------------------------------------------
(* Answers *)

GetCachedOrBuild ==
  /\ server = "up"
  /\ cachedCard' = IF cachedCard = NoCard THEN BuildSkills(registry)
                                          ELSE cachedCard
  /\ UNCHANGED <<config, server, registry, acl, fullCard, publicCard, added,
                 reply, drifted, changes>>

Answer(surface, p, skills, schemas) ==
  /\ server = "up"
  /\ reply' = [surface |-> surface, to |-> p, skills |-> skills,
               schemas |-> schemas]
  /\ UNCHANGED <<config, server, registry, acl, fullCard, publicCard,
                 cachedCard, added, drifted, changes>>

ServePublicCard == Answer("public", Anonymous, publicCard, {})

ServeExtendedCard(c) ==
  config.auth /\ Answer("extended", c, ExtendedCard(fullCard, acl, c), {})

(* A slip: the explorer sends the schema of every registered module. *)
ServeExplorerCardOfAll ==
  config.explorer /\ Answer("explorer", Anonymous, publicCard, Registered)

ServeExplorerCard ==
  config.explorer
    /\ Answer("explorer", Anonymous, publicCard, publicCard \cap Registered)

Next ==
  \/ Create
  \/ \E s \in Modules, d \in Descriptors : RegisterModule(s, d)
  \/ \E s \in Skills, d \in Descriptors \cup {Absent} : HostReplace(s, d)
  \/ \E a \in Acls \cup {NoAcl} : SetAcl(a)
  \/ GetCachedOrBuild
  \/ ServePublicCard
  \/ \E c \in Callers : ServeExtendedCard(c)
  \/ ServeExplorerCard

Spec == Init /\ [][Next]_vars

-----------------------------------------------------------------------------
(* Properties *)

(* The types: cards only hold ids of modules the server has known, and the *)
(* public card only what is on the full card.                              *)
TypeOK ==
  /\ config \in [auth : BOOLEAN, explorer : BOOLEAN, sysModules : BOOLEAN]
  /\ server \in {"down", "up"}
  /\ registry \in [Skills -> Descriptors \cup {Absent}]
  /\ acl \in Acls \cup {NoAcl}
  /\ fullCard \in SUBSET Skills /\ publicCard \in SUBSET fullCard
  /\ cachedCard \in (SUBSET Skills) \cup {NoCard}
  /\ added \in SUBSET Registered
  /\ reply \in [surface : {"none", "public", "extended", "explorer"},
                to : Principals, skills : SUBSET Skills,
                schemas : SUBSET Skills]
  /\ drifted \in BOOLEAN /\ changes \in 0 .. MaxChanges

(* Until the ACL or a module is replaced under the server, everything on   *)
(* the public card really runs when an unauthenticated caller invokes it:  *)
(* it is not denied, does not stop for an approval and the module exists,  *)
(* whatever register_module() adds (build_public_card: "what an            *)
(* unauthenticated caller could actually invoke").                         *)
PublicCardIsHonest ==
  server = "up" /\ ~drifted =>
    \A s \in publicCard : Outcomes(Anonymous, s) = {"ran"}

(* Nothing under system. ever reaches a surface that needs no credentials, *)
(* neither as a skill nor by way of the explorer's input schemas, which    *)
(* never go beyond the card they come with.                                *)
NothingLeaksToAnonymous ==
  reply.surface \in {"public", "explorer"} =>
    /\ reply.skills \cap SystemModules = {}
    /\ reply.schemas \subseteq reply.skills

(* An extended card agrees with the ACL in force when it is served, for    *)
(* the caller it is served to: of the skills the server knew at start, it  *)
(* shows those a call of which the ACL would let through, gated ones       *)
(* included, and no others (build_extended_card).                          *)
ExtendedCardMatchesTheAcl ==
  [][\A c \in Callers : ServeExtendedCard(c) =>
       \A s \in fullCard \cap Listed(registry) :
         s \in reply'.skills <=> Outcomes(c, s) \subseteq {"ran", "approval"}]_vars

(* What register_module() has added is on the builder's cached card        *)
(* whenever there is one (factory.py, register_module).                    *)
CacheFollowsRegisterModule ==
  cachedCard # NoCard => added \cap BuildSkills(registry) \subseteq cachedCard

(* register_module: "Invalidate card cache so card_modifier picks up new   *)
(* skills".  It does not: the card is built once, in create().             *)
NewSkillsAreServed ==
  [][\A c \in Callers : ServeExtendedCard(c) =>
       \A s \in added :
         s \in BuildSkills(registry) /\ Outcomes(c, s) \subseteq {"ran", "approval"}
           => s \in reply'.skills]_vars
=============================================================================
