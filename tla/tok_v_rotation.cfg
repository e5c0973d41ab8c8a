\* Two refreshes of one token both succeed.
SPECIFICATION Spec
CONSTANTS
  Jti = {j1, j2, j3}
  User = {u1}
  Slot = {p1, p2}
  Operations <- EveryOperation
  Failures = FALSE
  Quick = FALSE
  Lifetime = 2
  MaxClock = 1
  NoJti = NoJti
SYMMETRY Symmetry
INVARIANTS
  RotatedOnce
