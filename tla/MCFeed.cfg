\* Browsers that rename, drag and delete from lists that are out of date, with a
\* channel for one batch and a console that may stall.
CONSTANTS
  Browsers = {b1}
  Http = http
  Loggers = {b1, http}
  STDERR_LOG_CAP = 1
  Capacity = 1
  WireRoom = 1
  FirstRows <- SomeRows
  MaxRows <- Limits
  MaxRenames = 2
  MaxEdits = 2
  MaxLosses = 1
  MaxLogs = 1
  MaxEvents = 3
SPECIFICATION Spec
INVARIANTS
  TypeOK
  OrderObeyed
  CategoriesExist
  LogComplete
PROPERTIES
  RenamesShown
CHECK_DEADLOCK FALSE
