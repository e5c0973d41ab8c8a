\* Two logins at a time, one of which may die, over two windows.
SPECIFICATION Spec
CONSTANTS
  Username = {u1}
  Address = {a1}
  Slot = {p1, p2}
  MaxByUsername = 3
  MaxByAddress = 2
  Window = 2
  Lock = 3
  MaxCrashes = 1
  MaxClock = 4
SYMMETRY Symmetry
INVARIANTS
  TypeOK
  OvershootIsBounded
  LockExpires
  AddressFailuresAreSpaced
