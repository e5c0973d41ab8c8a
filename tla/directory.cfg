SPECIFICATION Spec
CONSTANTS
  u1 = u1
  u2 = u2
  Person = {u1, u2}
  Dept = {d1, d2, d3}
  Role = {r1, r2}
  Tenant = {t1, t2}
  Slot = {p1, p2}
  Username = {n1}
  RoleKey = {"admin", "user"}
  Member <- McMember
  Environment <- McEnvironment
  Null = Null
INVARIANTS TypeOK UserCacheIsExact ChecksSuffice DepartmentsFormTrees ScopeIsWidest
PROPERTY DeletedStaysDeleted
SYMMETRY Symmetry
CHECK_DEADLOCK FALSE
