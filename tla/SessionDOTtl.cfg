SPECIFICATION Spec
CONSTANTS
  Requests = {r1}
  AllowedFields = {mfa}
  ProtectedFields = {}
  DefaultTtl = 1
  RememberedTtl = 2
  DeleteAllDropsAlarm = FALSE
  CanCrash = FALSE
  Never = Never
  NoSession = NoSession
INVARIANT EverySessionHasAlarm
