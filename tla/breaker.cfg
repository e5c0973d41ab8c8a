\* Three requests at a time to two services, one of which may fail and recover.
SPECIFICATION LiveSpec
CONSTANTS
  Service = {users, auth}
  Reliable = {auth}
  Slot = {p1, p2, p3}
  Threshold = 3
  Recovery = 2
  NoService = NoService
INVARIANTS
  TypeOK
  ClosedBelowThreshold
  ReliableIsNeverCut
  OutageCostIsBounded
PROPERTIES
  Recovers
