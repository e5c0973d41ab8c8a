SPECIFICATION Spec
CONSTANTS
  User = {u1, u2}
  Administrator = {u1}
  Tenantless = {u2}
  Role = {"admin", "user"}
  Bundle <- McBundle
  Slot = {p1, p2}
  Ttl = 2
  Patience = 1
  MaxChanges = 2
  Environment <- McEnvironment
  Nobody = Nobody
INVARIANTS TypeOK StalenessIsBounded SerialRequestsReflect AuditFollows
PROPERTY Converges
