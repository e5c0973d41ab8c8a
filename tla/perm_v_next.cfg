SPECIFICATION Spec
CONSTANTS
  User = {u1, u2}
  Administrator = {u1}
  Tenantless = {u2}
  Role = {"admin", "user"}
  Bundle <- McBundle
  Slot = {p1, p2}
  Ttl = 2
  Patience = 1
  MaxChanges = 1
  Environment <- McAssigning
  Nobody = Nobody
INVARIANT NextRequestReflects
