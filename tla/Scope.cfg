\* Three requests on two handlers, two tasks, require_auth = TRUE.
SPECIFICATION Spec
CONSTANTS
  Requests = {r1, r2, r3}
  Handlers = {h1, h2}
  Tasks = {t1, t2}
  Headers <- MCHeaders
  RequireAuth = TRUE
  Nobody = Nobody
  NoTask = NoTask
  NoRequest = NoRequest
  Unread = Unread
SYMMETRY Symmetry
INVARIANTS TypeOK GovernanceAndScopingAgree OwnTasksOnly NoResidue
