\* Two requests at a time, one of them may die.
SPECIFICATION Spec
CONSTANTS
  Jti = {j1, j2, j3}
  User = {u1}
  Slot = {p1, p2}
  Operations <- EveryOperation
  Failures = TRUE
  Quick = FALSE
  Lifetime = 1
  MaxClock = 1
  NoJti = NoJti
SYMMETRY Symmetry
INVARIANTS
  TypeOK
  RetiredIsDead
PROPERTIES
  RevokedForGood
