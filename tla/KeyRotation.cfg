SPECIFICATION Spec
CONSTANTS
  Kids = {k1, k2, k3, k4}
  Rotations = {cron, admin}
  Fetches = {f1}
  Signers = {s1}
  RotateAfter = 1
  JwksTtl = 4
  TokenTtl = 1
  MaxMisses = 2
  None = None
INVARIANTS
  TypeOK
  SigningKeyStored
  GracefulRotation
  KeysRotateInTime
PROPERTIES
  KeysSurvive
