\* Two accounts, two roles, requests one after the other.
SPECIFICATION Spec
CONSTANTS
  m1 = m1  m2 = m2  r1 = r1  r2 = r2  c1 = c1  c2 = c2
  None = None
  Members = {m1, m2}
  Roles = {r1, r2}
  Callers = {c1}
  Keys = {"orders", "orders.all"}
  Grids <- MCGrids
  Area <- MCArea
  Locked <- MCLocked
  Builtin <- MCBuiltin
  Seeded <- MCSeeded
  Founder = m1
  FounderRole = r1
INVARIANTS
  StoredGrantsSane
  GrantsFollowRole
  HeldRolesAreLive
  SomebodyAdministers
PROPERTIES
  SavedAsSubmitted
