-------------------------- MODULE AgentCardsProofs --------------------------
(* The public card's honesty and discretion, for any ACLs and modules.     *)
EXTENDS AgentCards, TLAPS

(* What the public card is made of, whatever card, ACL and registry it is  *)
(* resolved from: listed there, not a management module, authorized for    *)
(* the anonymous principal, and gated by neither source.                   *)
LEMMA PublicCardMembers ==
  ASSUME NEW card \in SUBSET Skills, NEW a \in Acls \cup {NoAcl}, NEW reg,
         NEW s \in PublicCard(card, a, reg)
  PROVE  /\ s \in card /\ s \notin SystemModules
         /\ ~RequiresApproval(reg, s)
         /\ a # NoAcl => a.rule[Anonymous][s] = [access |-> "allow", gate |-> "none"]
<1> DEFINE ids == {i \in card : ~IsSystemSkill(i)}
           access == SkillAccess(a, ids, Anonymous)
<1>1. s \in DOMAIN access /\ ~access[s] /\ ~RequiresApproval(reg, s)
  BY DEF PublicCard
<1>2. s \in ids
  BY <1>1 DEF SkillAccess
<1>3. ASSUME a # NoAcl
      PROVE  a.rule[Anonymous][s] = [access |-> "allow", gate |-> "none"]
  <2>1. a \in Acls
    BY <1>3
  <2>2. a.rule[Anonymous][s] \in Cells
    BY <2>1, <1>2, AclAssumption DEF Principals
  <2>3. Decide(a, Anonymous, s).authorized /\ ~Decide(a, Anonymous, s).approval
    BY <1>1, <1>3 DEF SkillAccess
  <2>4. a.rule[Anonymous][s].access = "allow"
    BY <2>3 DEF Decide
  <2>5. a.rule[Anonymous][s].gate = "none"
    BY <2>1, <2>3, <1>2, AclAssumption DEF Decide, Principals
  <2>6. QED  BY <2>2, <2>4, <2>5 DEF Cells
<1>4. QED  BY <1>1, <1>2, <1>3 DEF IsSystemSkill

LEMMA ExtendedCardMembers ==
  ASSUME NEW card \in SUBSET Skills, NEW a \in Acls \cup {NoAcl}, NEW p
  PROVE  /\ ExtendedCard(card, a, p) \subseteq card
         /\ \A s \in card : s \in ExtendedCard(card, a, p)
                              <=> (a # NoAcl => a.rule[p][s].access = "allow")
BY DEF ExtendedCard, AllowedSkillIds, SkillAccess, Decide

(* The public card changes only in create().                               *)
THEOREM TypeCorrect == Spec => []TypeOK
<1>1. Init => TypeOK
  <2> SUFFICES ASSUME Init PROVE TypeOK
    OBVIOUS
  <2>1. reply \in [surface : {"none", "public", "extended", "explorer"},
                  to : Principals, skills : SUBSET Skills,
                  schemas : SUBSET Skills]
    BY DEF Init, NoReply, Principals
  <2>2. added \in SUBSET Registered /\ cachedCard \in (SUBSET Skills) \cup {NoCard}
    BY DEF Init
  <2>3. changes \in 0 .. MaxChanges
    BY MaxChangesAssumption DEF Init
  <2>4. QED  BY <2>1, <2>2, <2>3 DEF Init, TypeOK
<1>2. TypeOK /\ [Next]_vars => TypeOK'
  <2> SUFFICES ASSUME TypeOK, [Next]_vars PROVE TypeOK'
    OBVIOUS
  <2> USE DEF TypeOK
  <2>1. CASE Create
    <3> SUFFICES ASSUME server' = "up",
                        NEW new \in SUBSET SystemModules,
                        registry' = [s \in Skills |-> IF s \in new
                                       THEN SystemDescriptor ELSE registry[s]],
                        cachedCard' = BuildSkills(registry'),
                        fullCard' = BuildSkills(registry'),
                        publicCard' = PublicCard(fullCard', acl, registry'),
                        drifted' = FALSE,
                        UNCHANGED <<config, acl, added, reply, changes>>
                 PROVE  TypeOK'
      BY <2>1 DEF Create
    <3>1. registry' \in [Skills -> Descriptors \cup {Absent}]
      BY DEF SystemDescriptor, Descriptors
    <3>2. fullCard' \in SUBSET Skills
      BY DEF BuildSkills, Listed
    <3>3. publicCard' \in SUBSET fullCard'
      BY <3>2, PublicCardMembers
    <3>4. added' \in SUBSET Registered'
      <4>0. SystemDescriptor \in Descriptors
        BY DEF SystemDescriptor, Descriptors
      <4>1. SystemDescriptor # Absent
        BY <4>0, AbsentAssumption
      <4>2. ASSUME NEW s \in Registered PROVE s \in Registered'
        BY <4>1, <4>2 DEF Registered
      <4>3. QED  BY <4>2
    <3>5. QED  BY <3>1, <3>2, <3>3, <3>4
  <2>2. ASSUME NEW s \in Modules, NEW d \in Descriptors, RegisterModule(s, d)
        PROVE  TypeOK'
    BY <2>2, AbsentAssumption, MaxChangesAssumption
       DEF RegisterModule, Registered, Skills
  <2>3. ASSUME NEW s \in Skills, NEW d \in Descriptors \cup {Absent},
               HostReplace(s, d)
        PROVE  TypeOK'
    BY <2>3, MaxChangesAssumption DEF HostReplace, Registered
  <2>4. ASSUME NEW a \in Acls \cup {NoAcl}, SetAcl(a) PROVE TypeOK'
    BY <2>4, MaxChangesAssumption DEF SetAcl, Registered
  <2>5. CASE GetCachedOrBuild
    BY <2>5 DEF GetCachedOrBuild, BuildSkills, Listed, Registered
  <2>6. CASE ServePublicCard
    BY <2>6 DEF ServePublicCard, Answer, Principals, Registered
  <2>7. ASSUME NEW c \in Callers, ServeExtendedCard(c) PROVE TypeOK'
    BY <2>7, ExtendedCardMembers
       DEF ServeExtendedCard, Answer, Principals, Registered
  <2>8. CASE ServeExplorerCard
    BY <2>8 DEF ServeExplorerCard, Answer, Principals, Registered
  <2>9. CASE UNCHANGED vars
    BY <2>9 DEF vars, Registered
  <2>10. QED
    BY <2>1, <2>2, <2>3, <2>4, <2>5, <2>6, <2>7, <2>8, <2>9 DEF Next
<1>3. QED  BY <1>1, <1>2, PTL DEF Spec

-----------------------------------------------------------------------------
(* While nothing has drifted, each skill of the public card is one that    *)
(* runs; that does not survive a step by itself, because Outcomes looks at *)
(* the registry: what makes it inductive is that register_module() never   *)
(* touches an id that is there.                                            *)
THEOREM HonestCard == Spec => []PublicCardIsHonest
<1>1. Init => PublicCardIsHonest
  BY DEF Init, PublicCardIsHonest
<1>2. TypeOK /\ PublicCardIsHonest /\ [Next]_vars => PublicCardIsHonest'
  <2> SUFFICES ASSUME TypeOK, PublicCardIsHonest, [Next]_vars,
                      (server = "up")', (~drifted)', NEW s \in publicCard'
               PROVE  Outcomes(Anonymous, s)' = {"ran"}
    BY DEF PublicCardIsHonest
  <2>1. CASE Create
    <3>1. /\ fullCard' = BuildSkills(registry') /\ fullCard' \in SUBSET Skills
          /\ publicCard' = PublicCard(fullCard', acl, registry')
          /\ acl' = acl /\ acl \in Acls \cup {NoAcl}
      BY <2>1 DEF Create, BuildSkills, Listed, TypeOK
    <3>2. /\ s \in fullCard'
          /\ ~RequiresApproval(registry', s)
          /\ acl # NoAcl => acl.rule[Anonymous][s] = [access |-> "allow", gate |-> "none"]
      BY <3>1, PublicCardMembers
    <3>3. s \in Listed(registry') /\ registry'[s] # Absent /\ ~registry'[s].gated
      BY <3>1, <3>2 DEF BuildSkills, Listed, RequiresApproval
    <3>4. Gates(acl', Anonymous, s, registry'[s]) = {"none"}
      BY <3>1, <3>2, <3>3 DEF Gates
    <3>5. QED  BY <3>1, <3>2, <3>3, <3>4 DEF Outcomes
  <2>2. ASSUME server = "up", ~drifted, publicCard' = publicCard, acl' = acl,
               \A i \in Registered : registry'[i] = registry[i]
        PROVE  Outcomes(Anonymous, s)' = {"ran"}
    <3>1. s \in Skills /\ Outcomes(Anonymous, s) = {"ran"}
      BY <2>2 DEF PublicCardIsHonest, TypeOK
    <3>2. registry[s] # Absent
      BY <3>1 DEF Outcomes, Listed
    <3>3. registry'[s] = registry[s]
      BY <2>2, <3>1, <3>2 DEF Registered
    <3>4. s \in Listed(registry') <=> s \in Listed(registry)
      BY <3>3 DEF Listed
    <3>5. QED  BY <2>2, <3>1, <3>3, <3>4 DEF Outcomes
  <2>3. ASSUME NEW m \in Modules, NEW d \in Descriptors, RegisterModule(m, d)
        PROVE  Outcomes(Anonymous, s)' = {"ran"}
    BY <2>2, <2>3 DEF RegisterModule, Registered, TypeOK
  <2>4. ASSUME NEW m \in Skills, NEW d \in Descriptors \cup {Absent},
               HostReplace(m, d)
        PROVE  FALSE
    BY <2>4 DEF HostReplace
  <2>5. ASSUME NEW a \in Acls \cup {NoAcl}, SetAcl(a) PROVE FALSE
    BY <2>5 DEF SetAcl
  <2>6. CASE GetCachedOrBuild
    BY <2>2, <2>6 DEF GetCachedOrBuild
  <2>7. CASE \/ ServePublicCard \/ ServeExplorerCard
             \/ \E c \in Callers : ServeExtendedCard(c)
    BY <2>2, <2>7
       DEF ServePublicCard, ServeExplorerCard, ServeExtendedCard, Answer
  <2>8. CASE UNCHANGED vars
    BY <2>2, <2>8 DEF vars
  <2>9. QED
    BY <2>1, <2>3, <2>4, <2>5, <2>6, <2>7, <2>8 DEF Next
<1>3. QED  BY <1>1, <1>2, TypeCorrect, PTL DEF Spec

-----------------------------------------------------------------------------
(* The reply is only as discreet as the card it copies: the invariant adds *)
(* that the public card itself holds no management module.                 *)
PublicCardIsDiscreet == publicCard \cap SystemModules = {}

(* No surface without credentials shows a management module, nor a schema  *)
(* of a skill that is not on its card.                                     *)
THEOREM Discretion == Spec => []NothingLeaksToAnonymous
<1> DEFINE IInv == NothingLeaksToAnonymous /\ PublicCardIsDiscreet
<1>1. Init => IInv
  BY DEF Init, NothingLeaksToAnonymous, PublicCardIsDiscreet, NoReply
<1>2. TypeOK /\ IInv /\ [Next]_vars => IInv'
  <2> SUFFICES ASSUME TypeOK, IInv, [Next]_vars PROVE IInv'
    OBVIOUS
  <2> USE DEF NothingLeaksToAnonymous, PublicCardIsDiscreet
  <2>1. CASE Create
    <3>1. /\ fullCard' \in SUBSET Skills /\ reply' = reply
          /\ publicCard' = PublicCard(fullCard', acl, registry')
          /\ acl \in Acls \cup {NoAcl}
      BY <2>1 DEF Create, BuildSkills, Listed, TypeOK
    <3>2. QED  BY <3>1, PublicCardMembers
  <2>2. CASE \/ \E s \in Modules, d \in Descriptors : RegisterModule(s, d)
             \/ \E s \in Skills, d \in Descriptors \cup {Absent} : HostReplace(s, d)
             \/ \E a \in Acls \cup {NoAcl} : SetAcl(a)
             \/ GetCachedOrBuild
             \/ UNCHANGED vars
    BY <2>2 DEF RegisterModule, HostReplace, SetAcl, GetCachedOrBuild, vars
  <2>3. CASE ServePublicCard \/ ServeExplorerCard
    BY <2>3 DEF ServePublicCard, ServeExplorerCard, Answer
  <2>4. CASE \E c \in Callers : ServeExtendedCard(c)
    BY <2>4 DEF ServeExtendedCard, Answer
  <2>5. QED  BY <2>1, <2>2, <2>3, <2>4 DEF Next
<1>3. QED  BY <1>1, <1>2, TypeCorrect, PTL DEF Spec

-----------------------------------------------------------------------------
(* An extended card agrees with the ACL at the moment it is served.        *)
THEOREM ExtendedAgreement == Spec => ExtendedCardMatchesTheAcl
<1>1. ASSUME TypeOK, NEW c \in Callers, ServeExtendedCard(c),
             NEW s \in fullCard \cap Listed(registry)
      PROVE  s \in reply'.skills <=> Outcomes(c, s) \subseteq {"ran", "approval"}
  <2>1. reply'.skills = ExtendedCard(fullCard, acl, c)
    BY <1>1 DEF ServeExtendedCard, Answer
  <2>2. s \in reply'.skills <=> (acl # NoAcl => acl.rule[c][s].access = "allow")
    <3>1. /\ fullCard \in SUBSET Skills /\ acl \in Acls \cup {NoAcl}
          /\ s \in fullCard
      BY <1>1 DEF TypeOK
    <3>2. QED  BY <2>1, <3>1, ExtendedCardMembers
  <2>3. s \in Listed(registry) /\ s \in Skills
    BY DEF Listed
  <2>4. acl # NoAcl => acl.rule[c][s].access \in {"allow", "deny", "error"}
    BY AclAssumption, <1>1, <2>3 DEF TypeOK, Principals, Cells
  <2>5. CASE acl # NoAcl /\ acl.rule[c][s].access # "allow"
    BY <2>2, <2>3, <2>4, <2>5 DEF Outcomes
  <2>6. CASE ~(acl # NoAcl /\ acl.rule[c][s].access # "allow")
    <3>1. Outcomes(c, s) \subseteq {"ran", "approval"}
      BY <2>3, <2>6 DEF Outcomes
    <3>2. QED  BY <2>2, <2>6, <3>1
  <2>7. QED  BY <2>5, <2>6
<1>2. TypeOK /\ [Next]_vars =>
        [\A c \in Callers : ServeExtendedCard(c) =>
           \A s \in fullCard \cap Listed(registry) :
             s \in reply'.skills <=> Outcomes(c, s) \subseteq {"ran", "approval"}]_vars
  BY <1>1
<1>3. QED  BY <1>2, TypeCorrect, PTL DEF Spec, ExtendedCardMatchesTheAcl

-----------------------------------------------------------------------------
(* A cached card never hides what register_module() has added: it is built *)
(* from the registry after the module came, or thrown away when it came.   *)
THEOREM CacheIsCurrent == Spec => []CacheFollowsRegisterModule
<1>1. Init => CacheFollowsRegisterModule
  BY DEF Init, CacheFollowsRegisterModule
<1>2. TypeOK /\ CacheFollowsRegisterModule /\ [Next]_vars => CacheFollowsRegisterModule'
  <2> SUFFICES ASSUME TypeOK, CacheFollowsRegisterModule, [Next]_vars
               PROVE  CacheFollowsRegisterModule'
    OBVIOUS
  <2> USE DEF CacheFollowsRegisterModule
  <2>1. CASE Create
    BY <2>1 DEF Create
  <2>2. ASSUME NEW s \in Modules, NEW d \in Descriptors, RegisterModule(s, d)
        PROVE  CacheFollowsRegisterModule'
    BY <2>2 DEF RegisterModule
  <2>3. ASSUME NEW s \in Skills, NEW d \in Descriptors \cup {Absent}, HostReplace(s, d)
        PROVE  CacheFollowsRegisterModule'
    <3>1. /\ added' = added \ {s} /\ cachedCard' = cachedCard
          /\ \A i \in Skills : i # s => registry'[i] = registry[i]
      BY <2>3 DEF HostReplace, TypeOK
    <3>2. \A i \in BuildSkills(registry') : i # s => i \in BuildSkills(registry)
      BY <3>1 DEF BuildSkills, Listed
    <3>3. QED  BY <3>1, <3>2
  <2>4. CASE GetCachedOrBuild
    BY <2>4 DEF GetCachedOrBuild
  <2>5. CASE \/ \E a \in Acls \cup {NoAcl} : SetAcl(a)
             \/ ServePublicCard \/ ServeExplorerCard
             \/ \E c \in Callers : ServeExtendedCard(c)
             \/ UNCHANGED vars
    BY <2>5 DEF SetAcl, ServePublicCard, ServeExplorerCard, ServeExtendedCard, Answer, vars
  <2>6. QED  BY <2>1, <2>2, <2>3, <2>4, <2>5 DEF Next
<1>3. QED  BY <1>1, <1>2, TypeCorrect, PTL DEF Spec

-----------------------------------------------------------------------------
(* Why NewSkillsAreServed cannot hold, whatever is registered: the cards   *)
(* of create() are the only ones there will ever be, and every answer is   *)
(* cut from one of them.                                                   *)
CardsAreFixed ==
  server = "up" => server' = "up" /\ fullCard' = fullCard /\ publicCard' = publicCard

(* Nothing a running server does changes its two cards: neither            *)
(* register_module(), nor a module removed, nor another ACL; the builder's *)
(* cache, which is renewed, is read by neither surface.                    *)
THEOREM CardsNeverChange == Spec => [][CardsAreFixed]_vars
<1>1. [Next]_vars => [CardsAreFixed]_vars
  BY DEF Next, CardsAreFixed, Create, RegisterModule, HostReplace, SetAcl, GetCachedOrBuild,
     ServePublicCard, ServeExtendedCard, ServeExplorerCard, Answer, vars
<1>2. QED
  BY <1>1, PTL DEF Spec

RepliesComeFromTheCards ==
  /\ reply.skills \subseteq fullCard
  /\ reply.surface # "extended" => reply.skills \subseteq publicCard

(* No answer ever shows a skill that create() did not find, and none       *)
(* without credentials one that the anonymous principal could not use      *)
(* then, to whatever the ACL has been changed since.                       *)
THEOREM OnlyTheFirstSkillsAreServed == Spec => []RepliesComeFromTheCards
<1> DEFINE IInv == /\ RepliesComeFromTheCards
                   /\ server = "down" => reply = NoReply
<1>1. Init => IInv
  BY DEF Init, NoReply, RepliesComeFromTheCards
<1>2. TypeOK /\ IInv /\ [Next]_vars => IInv'
  <2> SUFFICES ASSUME TypeOK, IInv, [Next]_vars PROVE IInv'
    OBVIOUS
  <2> USE DEF RepliesComeFromTheCards
  <2>1. CASE Create
    BY <2>1 DEF Create, NoReply
  <2>2. CASE \/ \E s \in Modules, d \in Descriptors : RegisterModule(s, d)
             \/ \E s \in Skills, d \in Descriptors \cup {Absent} : HostReplace(s, d)
             \/ \E a \in Acls \cup {NoAcl} : SetAcl(a)
             \/ GetCachedOrBuild
             \/ UNCHANGED vars
    BY <2>2 DEF RegisterModule, HostReplace, SetAcl, GetCachedOrBuild, vars
  <2>3. CASE ServePublicCard \/ ServeExplorerCard
    BY <2>3 DEF ServePublicCard, ServeExplorerCard, Answer, TypeOK
  <2>4. ASSUME NEW c \in Callers, ServeExtendedCard(c) PROVE IInv'
    <3>1. fullCard \in SUBSET Skills /\ acl \in Acls \cup {NoAcl}
      BY DEF TypeOK
    <3>2. ExtendedCard(fullCard, acl, c) \subseteq fullCard
      BY <3>1, ExtendedCardMembers
    <3>3. QED
      BY <2>4, <3>2 DEF ServeExtendedCard, Answer
  <2>5. QED
    BY <2>1, <2>2, <2>3, <2>4 DEF Next
<1>3. QED
  BY <1>1, <1>2, TypeCorrect, PTL DEF Spec
=============================================================================
