\* A retry after a failed activation restarts the registration.
SPECIFICATION Spec
CONSTANTS
  Request = {r1, r2}
  Key = {k1}
  Email <- TwoEmails
  Username <- TwoNames
  NormalEmail <- SpelledEmail
  NormalName <- SpelledName
  Nobody = Nobody
  Other = Other
  Environment <- UsersFail
PROPERTIES
  RetryOnlyActivates
