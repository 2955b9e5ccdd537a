SPECIFICATION Spec
CONSTANTS
  None = None
  u1 = u1 k1 = k1 k2 = k2 g1 = g1 g2 = g2
  Users = {u1}
  Permissions = {p1}
  Claims = {k1, k2}
  UserId <- MCUserId
  Email <- MCEmail
  EmployeeNo <- MCEmployeeNo
  Bears <- MCBears
  Resolvers = {g1, g2}
  TTL = 2
  MaxEntries = 1
  MaxTime = 3
SYMMETRY Symmetry
PROPERTY FullCacheIsLive
INVARIANTS AnswersAreFresh AnswersAreRightful Inv
