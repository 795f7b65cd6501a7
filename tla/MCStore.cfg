SPECIFICATION Spec
CONSTANTS
  Collections = {"user", "messages"}
  Order <- MCOrder
  NoFile = NoFile
  Empty = Empty
  MaxRecords = 2
  MaxCrashes = 3
  MaxFailures = 1
INVARIANT AcknowledgedKept
PROPERTY BrokenIndexStays
CHECK_DEADLOCK FALSE
