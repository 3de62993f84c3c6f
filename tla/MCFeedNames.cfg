\* One browser that makes workspaces without naming them.
CONSTANTS
  Browsers = {b1}
  Http = http
  Loggers = {b1, http}
  STDERR_LOG_CAP = 1
  Capacity = 1
  WireRoom = 1
  FirstRows <- SomeRows
  MaxRows <- Limits
  MaxRenames = 0
  MaxEdits = 2
  MaxLosses = 0
  MaxLogs = 0
  MaxEvents = 2
SPECIFICATION Spec
INVARIANTS
  DefaultNamesDiffer
CHECK_DEADLOCK FALSE
