SPECIFICATION Spec
CONSTANTS
  Kids = {k1, k2, k3}
  Rotations = {cron, admin}
  Fetches = {}
  Signers = {s1}
  RotateAfter = 1
  JwksTtl = 4
  TokenTtl = 1
  MaxMisses = 2
  None = None
INVARIANT ValidTokensVerify
