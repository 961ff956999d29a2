SPECIFICATION Spec
CONSTANTS
  Events = {e1, e2, e3}
  NoPayload = {e2}
  TooLong = {e3}
  Consumers = {c1, c2}
  BatchSize = 2
  MaxRetries = 3
  QueueRetries = 3
  Faults = TRUE
INVARIANTS
  TypeOK
  ArchiveMatchesTable
PROPERTIES
  GoneForGood
  ImplementsDelivery
CHECK_DEADLOCK FALSE
