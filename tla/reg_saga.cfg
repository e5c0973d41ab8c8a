\* Two requests, every spelling, every kind of failure.
SPECIFICATION Spec
CONSTANTS
  Request = {r1, r2}
  Key = {k1, k2}
  Email <- AllEmails
  Username <- TwoNames
  NormalEmail <- SpelledEmail
  NormalName <- SpelledName
  Nobody = Nobody
  Other = Other
  Environment <- Environments
SYMMETRY Symmetry
INVARIANTS
  TypeOK
  ActiveHasPassword
  SuccessIsUsable
  RecordIsTruthful
  OneUserPerIdentity
  OneUserPerKey
  NoOrphanCredential
PROPERTIES
  CompletedIsKept
  ImplementsAccounts
