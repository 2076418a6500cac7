\* Two modules, one management module, one caller, three ACLs or none.
SPECIFICATION Spec
CONSTANTS
  m1 = m1
  m2 = m2
  sys = sys
  alice = alice
  Modules <- MCModules
  SystemModules <- MCSystemModules
  Callers <- MCCallers
  Acls <- MCAcls
  Anonymous = Anonymous
  NoAcl = NoAcl
  Absent = Absent
  NoCard = NoCard
  MaxChanges = 2
INVARIANTS TypeOK PublicCardIsHonest NothingLeaksToAnonymous CacheFollowsRegisterModule
PROPERTIES ExtendedCardMatchesTheAcl
