SPECIFICATION FactorsSpec
CONSTANTS
  q1 = q1
  q2 = q2
  q3 = q3
  Requests = {q1, q2, q3}
  Plans <- PlansInstance
  StampOf <- StampInstance
  Secrets = {1, 2, 3}
  Gens = {1, 2}
  GenOf <- GenInstance
  Counts = {0, 1, 2}
  MaxFailed = 2
  MaxSends = 2
  MaxTries = 2
  ReplayTtl = 3
  LastStep = 3
  MaxSetups = 2
  Jobs = {j1, j2}
  Rows = {r1, r2, r3}
  First = r1
  Addresses = {d1, d2}
  FirstAddress = d1
  Passwords = {c1, c2}
  Links = {k1}
  LinkLife = 2
  NoTarget = NoTarget
  NoLink = NoLink
SYMMETRY Symmetric
INVARIANTS
  FactorsTypeOK
  GatesSound
  FailuresCount
  PrimaryKept
  TokenProvesItsRow
PROPERTIES
  FactorsSpent
  SignCountKept
  LinkResetsOnce
CHECK_DEADLOCK FALSE
