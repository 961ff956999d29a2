SPECIFICATION Spec
CONSTANTS
  Requests = {r1, r2}
  AllowedFields = {mfa, user}
  ProtectedFields = {sp}
  DefaultTtl = 2
  RememberedTtl = 4
  DeleteAllDropsAlarm = FALSE
  CanCrash = TRUE
  Never = Never
  NoSession = NoSession
INVARIANTS
  TypeOK
  MemoryIsStorage
  AckedUpdatesSurvive
  AlarmAtExpiry
PROPERTIES
  NoEarlyRemoval
  FlowStateFixed
  AlarmedSessionsEnd
