\* factory.py:528: card_modifier picks up new skills.
SPECIFICATION Spec
CONSTANTS
  m1 = m1
  m2 = m2
  sys = sys
  alice = alice
  Modules <- MCModules
  SystemModules <- MCSystemModules
  Callers <- MCCallers
  Acls <- MCAcls
  Anonymous = Anonymous
  NoAcl = NoAcl
  Absent = Absent
  NoCard = NoCard
  MaxChanges = 2
PROPERTIES NewSkillsAreServed
