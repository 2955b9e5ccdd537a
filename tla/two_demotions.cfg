SPECIFICATION Spec
CONSTANTS
  None = None
  AdminRole = admin
  u1 = u1 u2 = u2 team = team p1 = p1
  Users = {u1, u2}
  Roles = {admin, team}
  StandardRoles = {admin, team}
  Permissions = {p1}
  Workers = {w1, w2}
  Updaters = {w1, w2}
  SeedRole <- MCSeedRole
  SeedPermissions <- MCSeedPermissions
INVARIANT LastAdminRemains
