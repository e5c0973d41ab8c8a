\* Every request is answered; without failures every profile settles.
SPECIFICATION Spec
CONSTANTS
  Request = {r1, r2}
  Key = {k1}
  Email <- TwoEmails
  Username <- TwoNames
  NormalEmail <- SpelledEmail
  NormalName <- SpelledName
  Nobody = Nobody
  Other = Other
  Environment <- Extremes
PROPERTIES
  RequestIsAnswered
  PendingSettles
