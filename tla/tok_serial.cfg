\* One request at a time, and nobody logs out of a single device.
SPECIFICATION Spec
CONSTANTS
  Jti = {j1, j2, j3, j4}
  User = {u1, u2}
  Slot = {p1}
  Operations <- NoSingleLogout
  Failures = FALSE
  Quick = TRUE
  Lifetime = 2
  MaxClock = 4
  NoJti = NoJti
SYMMETRY JtiSymmetry
INVARIANTS
  RotatedOnce
  LogoutAllHolds
  IndexCovers
