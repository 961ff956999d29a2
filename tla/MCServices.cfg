SPECIFICATION ServicesSpec
CONSTANTS
  Tokens = {k1}
  Contents <- ContentsInstance
  Posts = {p1, p2}
  Proofings = {f1}
  FraudLimit = 2
  NoToken = NoToken
  Lookups = {l1}
  Admins = {a1, a2}
  MaxVersion = 2
  CacheTtl = 2
  u1 = u1
  u2 = u2
  nobody = nobody
  profile1 = profile1
  profile2 = profile2
  phone = phone
  email1 = email1
  email2 = email2
  password = password
  event = event
  user1 = user1
  account1 = account1
  provider = provider
  Sources <- SourceInstance
  RowsIn <- RowsInInstance
  OwnerOf <- OwnerInstance
  IdOf <- IdInstance
  BatchSize = 1
  DemoSp = DemoSp
  MaxRuns = 4
INVARIANTS
  ServicesTypeOK
  EventsActedOn
  PiiOfVerifiedOnly
  StaleBounded
  MigrationSound
PROPERTIES
  ReplaysIgnored
  ImplementsDelivery
CHECK_DEADLOCK FALSE
