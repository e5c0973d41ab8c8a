\* Two clients, three requests in each window of two ticks, four windows.
SPECIFICATION Spec
CONSTANTS
  Key = {k1, k2}
  Limit = 3
  Window = 2
  MaxClock = 4
SYMMETRY Symmetry
INVARIANTS
  TypeOK
  BurstIsBounded
  RefusedOnlyAtLimit
