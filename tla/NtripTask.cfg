SPECIFICATION FairSpec
CONSTANTS
  Queuers = {q1, q2}
  Callback = cb
  Kinds = {"graylog", "syncer"}
  Lengths = {1, 4}
  QueueMax = 2
  BulkMax = 4
  MaxItems = 3
  MaxFaults = 1
INVARIANTS InFlightAtHead NothingLost
PROPERTIES Delivered
CHECK_DEADLOCK FALSE
