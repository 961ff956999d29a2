SPECIFICATION Spec
CONSTANTS
  Events = {e1, e2}
  NoPayload = {e2}
  TooLong = {}
  Consumers = {c1}
  BatchSize = 2
  MaxRetries = 3
  QueueRetries = 3
  Faults = FALSE
INVARIANT RecordableEventsRecorded
CHECK_DEADLOCK FALSE
